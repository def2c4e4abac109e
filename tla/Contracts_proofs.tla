--------------------------- MODULE Contracts_proofs ---------------------------
(***************************************************************************)
(* Proofs about what the contracts package computes: how channels are      *)
(* addressed (ChannelAddressing) and what composed policies decide         *)
(* (PolicyComposition).  The two share no variable; the part of either can *)
(* be read alone.                                                          *)
(*                                                                         *)
(* For any set of keys and any key schema, AddressInv is inductive, and    *)
(*   TypeCorrect  the variables keep their types;                          *)
(*   OneChannel   the instances that each side makes lead to one another;  *)
(*   OwedArrive   an event that is owed finds its subscription.            *)
(*                                                                         *)
(* For any scopes and any number of parts, on the two levels of Policies,  *)
(* EvaluationInv is inductive, and                                         *)
(*   PolicyTypes               an evaluation keeps to the parts;           *)
(*   EarlyExitsAreSound        the verdict is the value of the policy;     *)
(*   EvaluatorsAskedRightly    in their scope, and never in vain;          *)
(*   RejectionsGiveFirstCause  with the reason that stands against it.     *)
(***************************************************************************)
EXTENDS ChannelAddressing, PolicyComposition, SequenceFacts

(***************************************************************************)
(* Channels: the wires.                                                    *)
(***************************************************************************)

\* Taking the first element of a wire moves the others up by one.
LEMMA Moved ==
  ASSUME NEW S, NEW s \in Seq(S), s # <<>>
  PROVE  /\ 1 \in DOMAIN s /\ Head(s) = s[1] /\ Head(s) \in S
         /\ Tail(s) \in Seq(S)
         /\ \A i \in DOMAIN Tail(s) : /\ i + 1 \in DOMAIN s /\ i + 1 # 1
                                      /\ Tail(s)[i] = s[i + 1]
         /\ \A i, j \in DOMAIN Tail(s) : i + 1 = j + 1 => i = j
<1>1. /\ Len(s) \in Nat \ {0} /\ DOMAIN s = 1..Len(s)
      /\ Head(s) = s[1] /\ s[1] \in S
      /\ Tail(s) \in Seq(S)
      /\ DOMAIN Tail(s) = 1..(Len(s) - 1)
      /\ \A i \in 1..(Len(s) - 1) : Tail(s)[i] = s[i + 1]
  OBVIOUS
<1>2. \A i \in 1..(Len(s) - 1) : i + 1 \in 1..Len(s) /\ i + 1 # 1
  BY <1>1
<1>3. \A i, j \in 1..(Len(s) - 1) : i + 1 = j + 1 => i = j
  BY <1>1
<1>4. QED
  BY <1>1, <1>2, <1>3

\* What is put on a wire comes last.
LEMMA Queued ==
  ASSUME NEW S, NEW s \in Seq(S), NEW x \in S
  PROVE  \E last : /\ last \notin DOMAIN s
                   /\ DOMAIN Append(s, x) = DOMAIN s \cup {last}
                   /\ \A i \in DOMAIN s : Append(s, x)[i] = s[i]
                   /\ Append(s, x)[last] = x
                   /\ Append(s, x) \in Seq(S)
<1>1. /\ Len(s) \in Nat /\ DOMAIN s = 1..Len(s)
      /\ DOMAIN Append(s, x) = 1..(Len(s) + 1)
      /\ \A i \in 1..Len(s) : Append(s, x)[i] = s[i]
      /\ Append(s, x)[Len(s) + 1] = x
      /\ Append(s, x) \in Seq(S)
  OBVIOUS
<1>2. 1..(Len(s) + 1) = (1..Len(s)) \cup {Len(s) + 1} /\ Len(s) + 1 \notin 1..Len(s)
  BY <1>1
<1>3. QED
  BY <1>1, <1>2

\* What an answer makes of the subscriptions, case by case.
LEMMA SettleFacts ==
  ASSUME NEW o \in Operation, NEW ok \in BOOLEAN
  PROVE  /\ ~ok => Settle(o, ok) = subscriptions
         /\ ok /\ o.kind = "subscribe" => Settle(o, ok) = subscriptions \cup {o.key}
         /\ ok /\ o.kind = "unsubscribe" => Settle(o, ok) = subscriptions \ {o.key}
         /\ \A key : key # o.key => (key \in Settle(o, ok) <=> key \in subscriptions)
<1>1. o.kind \in {"subscribe", "unsubscribe"}
  BY DEF Operation
<1>2. CASE ~ok
  BY <1>2 DEF Settle
<1>3. CASE ok /\ o.kind = "subscribe"
  BY <1>3 DEF Settle
<1>4. CASE ok /\ o.kind = "unsubscribe"
  BY <1>4 DEF Settle
<1>5. QED
  BY <1>1, <1>2, <1>3, <1>4

\* What a message is.
LEMMA MessageFacts ==
  ASSUME NEW x \in Message
  PROVE  /\ x.type \in {"answer", "event"}
         /\ x.type = "answer" => x.to \in Operation /\ x.ok \in BOOLEAN
         /\ x.type = "event" => x.event \in Event
BY DEF Message

\* With an idempotent schema a fixed key is its own instance.
LEMMA FixedFacts ==
  ASSUME TypeOK, NEW key \in Keys, Fixed(key)
  PROVE  IsValid(key) /\ Instance(key) = key
BY InvalidAssumption DEF IsValid, Instance, Fixed

\* An instance is a key, and fixed if the schema is idempotent.
LEMMA InstanceFacts ==
  ASSUME TypeOK, NEW raw \in Keys, IsValid(raw)
  PROVE  /\ Instance(raw) \in Keys
         /\ Idempotent => Fixed(Instance(raw))
BY DEF TypeOK, IsValid, Instance, Idempotent, Fixed

(***************************************************************************)
(* Calls.                                                                  *)
(***************************************************************************)

\* A call is under way, and asked for on the wire; what comes from the server may have
\* been marked as unwanted, which changes no answer.
LEMMA CallWires ==
  ASSUME AddressInv, NEW kind \in {"subscribe", "unsubscribe"}, NEW id \in Keys, Call(kind, id),
         toClient' \in Seq(Message), DOMAIN toClient' = DOMAIN toClient,
         \A i \in DOMAIN toClient : toClient'[i].type = toClient[i].type,
         \A i \in AnswersOnWire : toClient'[i] = toClient[i]
  PROVE  /\ PendingOnce'
         /\ operations' \subseteq Operation /\ requests' \in Seq(Operation)
         /\ calls' \in 0..MaxCalls
         /\ AnswersOnWire' = AnswersOnWire
<1> DEFINE new == [kind |-> kind, key |-> id]
<1>1. /\ online /\ UNCHANGED online
      /\ \A o \in operations : o.key # id
      /\ operations' = operations \cup {new} /\ requests' = Append(requests, new)
      /\ calls' = calls + 1 /\ calls < MaxCalls
  BY DEF Call
<1>2. new \in Operation /\ new.key = id
  BY DEF Operation
<1> HIDE DEF new
<1>3. /\ operations \subseteq Operation /\ requests \in Seq(Operation) /\ calls \in 0..MaxCalls
      /\ MaxCalls \in Nat
  BY BoundsAssumption DEF AddressInv, TypeOK
<1>4. new \notin operations
  BY <1>1, <1>2
<1>5. PICK last : /\ last \notin DOMAIN requests
                  /\ DOMAIN requests' = DOMAIN requests \cup {last}
                  /\ \A i \in DOMAIN requests : requests'[i] = requests[i]
                  /\ requests'[last] = new
                  /\ requests' \in Seq(Operation)
  BY <1>1, <1>2, <1>3, Queued
<1>6. AnswersOnWire' = AnswersOnWire
  BY DEF AnswersOnWire
<1>7. PendingOnce
  BY DEF AddressInv
<1>8. /\ \A o, p \in operations' : o.key = p.key => o = p
      /\ \A i \in DOMAIN requests' : requests'[i] \in operations'
      /\ \A i \in AnswersOnWire' : toClient'[i].to \in operations'
  BY <1>1, <1>2, <1>5, <1>6, <1>7 DEF PendingOnce
<1>9. /\ \A i, j \in DOMAIN requests' : requests'[i] = requests'[j] => i = j
      /\ \A i, j \in AnswersOnWire' : toClient'[i].to = toClient'[j].to => i = j
      /\ \A i \in DOMAIN requests', j \in AnswersOnWire' : requests'[i] # toClient'[j].to
  BY <1>4, <1>5, <1>6, <1>7 DEF PendingOnce
<1>10. PendingOnce'
  BY <1>1, <1>8, <1>9 DEF PendingOnce
<1>11. QED
  BY <1>1, <1>2, <1>3, <1>5, <1>6, <1>10

\* A call asks for what the client has not, or gives up what it has: the server agrees.
LEMMA CallFollows ==
  ASSUME AddressInv, NEW kind \in {"subscribe", "unsubscribe"}, NEW id \in Keys, Call(kind, id),
         id \in subscriptions <=> kind = "unsubscribe",
         DOMAIN toClient' = DOMAIN toClient,
         \A i \in DOMAIN toClient : toClient'[i].type = toClient[i].type,
         \A i \in AnswersOnWire : toClient'[i] = toClient[i],
         Idempotent => Fixed(id)
  PROVE  Idempotent' => ServerIsOne' /\ ClientFollows'
<1> DEFINE new == [kind |-> kind, key |-> id]
<1>1. /\ online /\ \A o \in operations : o.key # id
      /\ operations' = operations \cup {new} /\ requests' = Append(requests, new)
      /\ UNCHANGED <<schema, subscriptions, online, members, rooms, joined>>
  BY DEF Call, server
<1>2. new \in Operation /\ new.key = id /\ new.kind = kind
  BY DEF Operation
<1> HIDE DEF new
<1>3. SUFFICES ASSUME Idempotent
               PROVE  ServerIsOne' /\ ClientFollows'
  BY <1>1 DEF Idempotent, IsValid, Instance
<1>4. ServerIsOne /\ ClientFollows /\ requests \in Seq(Operation) /\ toClient \in Seq(Message)
  BY <1>3 DEF AddressInv, TypeOK
<1>5. PICK last : /\ DOMAIN requests' = DOMAIN requests \cup {last}
                  /\ \A i \in DOMAIN requests : requests'[i] = requests[i]
                  /\ requests'[last] = new
  BY <1>1, <1>2, <1>4, Queued
<1>6. AnswersOnWire' = AnswersOnWire
  BY DEF AnswersOnWire
<1>7. ServerIsOne'
  BY <1>1, <1>2, <1>3, <1>4 DEF ServerIsOne, Fixed
<1>8. id \in members <=> kind = "unsubscribe"
  BY <1>1, <1>4 DEF ClientFollows
<1>9. \A i \in DOMAIN requests' :
        LET o == requests'[i]
        IN  /\ o.key \in subscriptions <=> o.kind = "unsubscribe"
            /\ o.key \in members <=> o.kind = "unsubscribe"
  BY <1>2, <1>4, <1>5, <1>8 DEF ClientFollows
<1>10. \A i \in AnswersOnWire' :
         LET o == toClient'[i].to
         IN  /\ o.key \in subscriptions <=> o.kind = "unsubscribe"
             /\ o.key \in members <=> (o.kind = "subscribe" <=> toClient'[i].ok)
  BY <1>4, <1>6 DEF ClientFollows
<1>11. \A key \in Keys :
         (\A o \in operations' : o.key # key) => (key \in subscriptions <=> key \in members)
  BY <1>1, <1>4 DEF ClientFollows
<1>12. QED
  BY <1>1, <1>7, <1>9, <1>10, <1>11 DEF ClientFollows

\* The client asks for a channel that it has no event to expect of.
LEMMA SubscribeStep ==
  ASSUME AddressInv, NEW raw \in Keys, Subscribe(raw)
  PROVE  AddressInv'
<1> DEFINE id == Instance(raw)
<1>1. /\ Call("subscribe", id) /\ id \notin subscriptions
      /\ UNCHANGED <<toClient, deliveries>>
      /\ id \in Keys /\ (Idempotent => Fixed(id))
  BY InstanceFacts DEF Subscribe, AddressInv
<1> HIDE DEF id
<1>2. UNCHANGED <<schema, subscriptions, online, members, rooms, joined, emissions, missed>>
  BY <1>1 DEF Call, server
<1>3. TypeOK /\ OwedIsExpected /\ OwedEventsArrive
  BY DEF AddressInv
<1>4. toClient' \in Seq(Message)
  BY <1>1, <1>3 DEF TypeOK
<1>5. /\ PendingOnce'
      /\ operations' \subseteq Operation /\ requests' \in Seq(Operation)
      /\ calls' \in 0..MaxCalls
  BY <1>1, <1>4, CallWires
<1>6. TypeOK'
  BY <1>1, <1>2, <1>3, <1>5 DEF TypeOK
<1>7. Idempotent' => ServerIsOne' /\ ClientFollows'
  BY <1>1, CallFollows
<1>8. OwedIsExpected'
  <2>1. ASSUME NEW event, Expected(event)
        PROVE  Expected(event)'
    <3>1. \A o \in operations' : o \in operations \/ o.key = id
      BY <1>1 DEF Call
    <3>2. QED
      BY <1>1, <1>2, <2>1, <3>1 DEF Expected
  <2>2. QED
    BY <1>1, <1>3, <2>1 DEF OwedIsExpected
<1>9. QED
  BY <1>2, <1>3, <1>5, <1>6, <1>7, <1>8 DEF AddressInv, OwedEventsArrive

\* The client gives a channel up: what was owed of it is not owed any more.
LEMMA UnsubscribeStep ==
  ASSUME AddressInv, NEW raw \in Keys, Unsubscribe(raw)
  PROVE  AddressInv'
<1> DEFINE id == Instance(raw)
<1>1. /\ Call("unsubscribe", id) /\ id \in subscriptions
      /\ deliveries' = {Unwanted(event, id) : event \in deliveries}
      /\ toClient' = [i \in DOMAIN toClient |->
                        IF toClient[i].type = "event"
                        THEN [toClient[i] EXCEPT !.event = Unwanted(@, id)]
                        ELSE toClient[i]]
      /\ id \in Keys /\ (Idempotent => Fixed(id))
  BY InstanceFacts DEF Unsubscribe, AddressInv
<1> HIDE DEF id
<1>2. UNCHANGED <<schema, subscriptions, online, members, rooms, joined, emissions, missed>>
  BY <1>1 DEF Call, server
<1>3. TypeOK /\ OwedIsExpected /\ OwedEventsArrive
  BY DEF AddressInv
<1>4. toClient \in Seq(Message) /\ deliveries \subseteq Event
  BY <1>3 DEF TypeOK
<1>5. ASSUME NEW event \in Event
      PROVE  Unwanted(event, id) \in Event
  BY DEF Unwanted, Event
<1>6. ASSUME NEW i \in DOMAIN toClient
      PROVE  /\ toClient'[i].type = toClient[i].type
             /\ toClient[i].type = "event" =>
                  toClient'[i].event = Unwanted(toClient[i].event, id)
             /\ toClient[i].type = "answer" => toClient'[i] = toClient[i]
             /\ toClient'[i] \in Message
  <2>1. toClient[i] \in Message
    BY <1>4
  <2>2. CASE toClient[i].type = "event"
    <3>1. toClient[i] \in [type : {"event"}, event : Event]
      BY <2>1, <2>2 DEF Message
    <3>2. toClient'[i] = [toClient[i] EXCEPT !.event = Unwanted(@, id)]
      BY <1>1, <2>2
    <3>3. Unwanted(toClient[i].event, id) \in Event
      BY <1>5, <3>1
    <3>4. toClient'[i] \in [type : {"event"}, event : Event]
      BY <3>1, <3>2, <3>3
    <3>5. QED
      BY <2>2, <3>1, <3>2, <3>4 DEF Message
  <2>3. CASE toClient[i].type # "event"
    BY <1>1, <2>1, <2>3
  <2>4. QED
    BY <2>2, <2>3
<1>7. toClient' \in Seq(Message) /\ DOMAIN toClient' = DOMAIN toClient
  <2>1. DOMAIN toClient = 1..Len(toClient) /\ Len(toClient) \in Nat
    BY <1>4
  <2>2. toClient' \in [1..Len(toClient) -> Message]
    BY <1>1, <1>6, <2>1
  <2>3. QED
    BY <2>1, <2>2
<1>8. \A i \in AnswersOnWire : toClient'[i] = toClient[i]
  BY <1>6 DEF AnswersOnWire
<1>9. /\ PendingOnce'
      /\ operations' \subseteq Operation /\ requests' \in Seq(Operation)
      /\ calls' \in 0..MaxCalls
  BY <1>1, <1>6, <1>7, <1>8, CallWires
<1>10. Idempotent' => ServerIsOne' /\ ClientFollows'
  BY <1>1, <1>6, <1>7, <1>8, CallFollows
<1>11. TypeOK'
  <2>1. deliveries' \subseteq Event
    BY <1>1, <1>4, <1>5
  <2>2. QED
    BY <1>2, <1>3, <1>7, <1>9, <2>1 DEF TypeOK
<1>12. OwedIsExpected'
  <2>1. ASSUME NEW event \in Event, Expected(event), NEW after, after = Unwanted(event, id)
        PROVE  Expected(after)'
    <3>1. \A o \in operations' : o \in operations \/ o.key = id
      BY <1>1 DEF Call
    <3>2. CASE event.channel = id
      <4>1. ~ after.owed
        BY <2>1, <3>2 DEF Unwanted, Event
      <4>2. QED
        BY <4>1 DEF Expected
    <3>3. CASE event.channel # id
      BY <1>2, <2>1, <3>1, <3>3 DEF Expected, Unwanted
    <3>4. QED
      BY <3>2, <3>3
  <2>2. ASSUME NEW after \in deliveries'
        PROVE  Expected(after)'
    <3>1. PICK event \in deliveries : after = Unwanted(event, id)
      BY <1>1
    <3>2. Expected(event) /\ event \in Event
      BY <1>3, <1>4 DEF OwedIsExpected
    <3>3. QED
      BY <2>1, <3>1, <3>2
  <2>3. ASSUME NEW i \in DOMAIN toClient', toClient'[i].type = "event",
               NEW after, after = toClient'[i].event
        PROVE  Expected(after)'
    <3>1. /\ i \in DOMAIN toClient /\ toClient[i].type = "event"
          /\ after = Unwanted(toClient[i].event, id)
      BY <1>6, <1>7, <2>3
    <3>2. toClient[i].event \in Event
      BY <1>4, <3>1, MessageFacts
    <3>3. Expected(toClient[i].event)
      BY <1>3, <3>1 DEF OwedIsExpected
    <3>4. QED
      BY <2>1, <3>1, <3>2, <3>3
  <2>4. QED
    BY <2>2, <2>3 DEF OwedIsExpected
<1>13. QED
  BY <1>2, <1>3, <1>9, <1>10, <1>11, <1>12 DEF AddressInv, OwedEventsArrive

(***************************************************************************)
(* What the client receives.                                               *)
(***************************************************************************)

\* The client takes a message from its wire.
LEMMA Taken ==
  ASSUME AddressInv, toClient # <<>>, toClient' = Tail(toClient)
  PROVE  /\ 1 \in DOMAIN toClient /\ Head(toClient) = toClient[1] /\ toClient[1] \in Message
         /\ toClient' \in Seq(Message)
         /\ \A i \in DOMAIN toClient' : /\ i + 1 \in DOMAIN toClient /\ i + 1 # 1
                                        /\ toClient'[i] = toClient[i + 1]
         /\ \A i, j \in DOMAIN toClient' : i + 1 = j + 1 => i = j
         /\ \A i \in AnswersOnWire' : i \in DOMAIN toClient' /\ i + 1 \in AnswersOnWire
<1>1. toClient \in Seq(Message)
  BY DEF AddressInv, TypeOK
<1>2. /\ 1 \in DOMAIN toClient /\ Head(toClient) = toClient[1] /\ toClient[1] \in Message
      /\ toClient' \in Seq(Message)
      /\ \A i \in DOMAIN toClient' : /\ i + 1 \in DOMAIN toClient /\ i + 1 # 1
                                     /\ toClient'[i] = toClient[i + 1]
      /\ \A i, j \in DOMAIN toClient' : i + 1 = j + 1 => i = j
  BY <1>1, Moved
<1>3. QED
  BY <1>2 DEF AnswersOnWire

\* An answer settles its call.
LEMMA ReceiveAnswerStep ==
  ASSUME AddressInv, ReceiveAnswer
  PROVE  AddressInv'
<1> DEFINE o == toClient[1].to
           ok == toClient[1].ok
<1>1. /\ toClient # <<>> /\ Head(toClient).type = "answer" /\ toClient' = Tail(toClient)
      /\ UNCHANGED <<schema, calls, requests, online, members, rooms, joined,
                     deliveries, emissions, missed>>
  BY DEF ReceiveAnswer, server
<1>2. /\ 1 \in DOMAIN toClient /\ Head(toClient) = toClient[1] /\ toClient[1] \in Message
      /\ toClient' \in Seq(Message)
      /\ \A i \in DOMAIN toClient' : /\ i + 1 \in DOMAIN toClient /\ i + 1 # 1
                                     /\ toClient'[i] = toClient[i + 1]
      /\ \A i, j \in DOMAIN toClient' : i + 1 = j + 1 => i = j
      /\ \A i \in AnswersOnWire' : i \in DOMAIN toClient' /\ i + 1 \in AnswersOnWire
  BY <1>1, Taken
<1>3. o \in Operation /\ ok \in BOOLEAN /\ 1 \in AnswersOnWire
  BY <1>1, <1>2, MessageFacts DEF AnswersOnWire
<1>4. operations' = operations \ {o} /\ subscriptions' = Settle(o, ok)
  BY <1>2 DEF ReceiveAnswer
<1>5. TypeOK /\ PendingOnce /\ OwedIsExpected /\ OwedEventsArrive
  BY DEF AddressInv
<1>6. o \in operations
  BY <1>3, <1>5 DEF PendingOnce
<1> HIDE DEF o, ok
<1>7. /\ \A key : key # o.key => (key \in subscriptions' <=> key \in subscriptions)
      /\ subscriptions' \subseteq subscriptions \cup {o.key} /\ o.key \in Keys
  <2>1. o.key \in Keys /\ o.kind \in {"subscribe", "unsubscribe"}
    BY <1>3 DEF Operation
  <2>2. QED
    BY <1>3, <1>4, <2>1, SettleFacts
<1>8. TypeOK'
  BY <1>1, <1>2, <1>4, <1>5, <1>7 DEF TypeOK
<1>9. \A i \in AnswersOnWire' : toClient'[i].to # o
  BY <1>2, <1>3, <1>5 DEF PendingOnce, o
<1>10. \A i \in DOMAIN requests : requests[i] # o
  BY <1>3, <1>5 DEF PendingOnce, o
<1>11. PendingOnce'
  <2>1. \A i \in AnswersOnWire' : toClient'[i].to \in operations'
    BY <1>2, <1>4, <1>5, <1>9 DEF PendingOnce
  <2>2. \A i, j \in AnswersOnWire' : toClient'[i].to = toClient'[j].to => i = j
    BY <1>2, <1>5 DEF PendingOnce
  <2>3. \A i \in DOMAIN requests, j \in AnswersOnWire' : requests[i] # toClient'[j].to
    BY <1>2, <1>5 DEF PendingOnce
  <2>4. online
    BY <1>1, <1>5 DEF PendingOnce
  <2>5. QED
    BY <1>1, <1>4, <1>5, <1>10, <2>1, <2>2, <2>3, <2>4 DEF PendingOnce
<1>12. OwedIsExpected'
  <2>1. ASSUME NEW event, Expected(event)
        PROVE  Expected(event)'
    BY <1>4, <1>6, <1>7, <2>1 DEF Expected
  <2>2. QED
    BY <1>1, <1>2, <1>5, <2>1 DEF OwedIsExpected
<1>13. ASSUME Idempotent
       PROVE  ServerIsOne' /\ ClientFollows'
  <2>1. ServerIsOne /\ ClientFollows
    BY <1>13 DEF AddressInv
  <2>2. ServerIsOne'
    BY <1>1, <1>4, <2>1 DEF ServerIsOne, Fixed
  <2>3. o.key \in members <=> o.key \in subscriptions'
    <3>1. /\ o.key \in subscriptions <=> o.kind = "unsubscribe"
          /\ o.key \in members <=> (o.kind = "subscribe" <=> ok)
      BY <1>3, <2>1 DEF ClientFollows, o, ok
    <3>2. o.kind \in {"subscribe", "unsubscribe"}
      BY <1>3 DEF Operation
    <3>3. QED
      BY <1>3, <1>4, <3>1, <3>2, SettleFacts
  <2>4. ASSUME NEW p \in operations, p # o
        PROVE  p.key \in subscriptions' <=> p.key \in subscriptions
    BY <1>5, <1>6, <1>7, <2>4 DEF PendingOnce
  <2>5. ASSUME NEW i \in DOMAIN requests'
        PROVE  /\ requests'[i].key \in subscriptions' <=> requests'[i].kind = "unsubscribe"
               /\ requests'[i].key \in members' <=> requests'[i].kind = "unsubscribe"
    <3>1. requests[i] \in operations /\ requests[i] # o
      BY <1>1, <1>5, <1>10 DEF PendingOnce
    <3>2. requests[i].key \in subscriptions' <=> requests[i].key \in subscriptions
      BY <2>4, <3>1
    <3>3. QED
      BY <1>1, <2>1, <3>2 DEF ClientFollows
  <2>6. ASSUME NEW i \in AnswersOnWire'
        PROVE  LET p == toClient'[i].to
               IN  /\ p.key \in subscriptions' <=> p.kind = "unsubscribe"
                   /\ p.key \in members' <=> (p.kind = "subscribe" <=> toClient'[i].ok)
    <3>1. i + 1 \in AnswersOnWire /\ toClient'[i] = toClient[i + 1]
      BY <1>2, <2>6
    <3>2. toClient'[i].to \in operations /\ toClient'[i].to # o
      BY <1>5, <1>9, <2>6, <3>1 DEF PendingOnce
    <3>3. toClient'[i].to.key \in subscriptions' <=> toClient'[i].to.key \in subscriptions
      BY <2>4, <3>2
    <3>4. QED
      BY <1>1, <2>1, <3>1, <3>3 DEF ClientFollows
  <2>7. ASSUME online, NEW key \in Keys, \A p \in operations' : p.key # key
        PROVE  key \in subscriptions' <=> key \in members
    <3>1. CASE key = o.key
      BY <2>3, <3>1
    <3>2. CASE key # o.key
      <4>1. \A p \in operations : p.key # key
        BY <1>4, <2>7, <3>2
      <4>2. QED
        BY <1>7, <2>1, <2>7, <3>2, <4>1 DEF ClientFollows
    <3>3. QED
      BY <3>1, <3>2
  <2>8. ClientFollows'
    BY <1>1, <2>5, <2>6, <2>7 DEF ClientFollows
  <2>9. QED
    BY <2>2, <2>8
<1>14. Idempotent' => Idempotent
  BY <1>1 DEF Idempotent, IsValid, Instance
<1>15. QED
  BY <1>1, <1>5, <1>8, <1>11, <1>12, <1>13, <1>14 DEF AddressInv, OwedEventsArrive

\* An event is dispatched, or missed by a client that it is not owed to.
LEMMA ReceiveEventStep ==
  ASSUME AddressInv, ReceiveEvent
  PROVE  AddressInv'
<1>1. /\ toClient # <<>> /\ Head(toClient).type = "event" /\ toClient' = Tail(toClient)
      /\ UNCHANGED <<schema, subscriptions, operations, calls, requests, online,
                     members, rooms, joined, deliveries, emissions>>
  BY DEF ReceiveEvent, client, server
<1>2. /\ 1 \in DOMAIN toClient /\ Head(toClient) = toClient[1] /\ toClient[1] \in Message
      /\ toClient' \in Seq(Message)
      /\ \A i \in DOMAIN toClient' : /\ i + 1 \in DOMAIN toClient /\ i + 1 # 1
                                     /\ toClient'[i] = toClient[i + 1]
      /\ \A i, j \in DOMAIN toClient' : i + 1 = j + 1 => i = j
      /\ \A i \in AnswersOnWire' : i \in DOMAIN toClient' /\ i + 1 \in AnswersOnWire
  BY <1>1, Taken
<1> DEFINE event == toClient[1].event
<1>3. event \in Event
  BY <1>1, <1>2, MessageFacts
<1>4. missed' = IF event.channel \in subscriptions THEN missed ELSE missed \cup {event}
  BY <1>2 DEF ReceiveEvent
<1>5. TypeOK /\ PendingOnce /\ OwedIsExpected /\ OwedEventsArrive
  BY DEF AddressInv
<1>6. event.owed => event.channel \in subscriptions
  BY <1>1, <1>2, <1>5 DEF OwedIsExpected, Expected
<1> HIDE DEF event
<1>7. TypeOK'
  BY <1>1, <1>2, <1>3, <1>4, <1>5 DEF TypeOK
<1>8. PendingOnce'
  <2>1. \A i \in AnswersOnWire' : toClient'[i].to \in operations
    BY <1>2, <1>5 DEF PendingOnce
  <2>2. \A i, j \in AnswersOnWire' : toClient'[i].to = toClient'[j].to => i = j
    BY <1>2, <1>5 DEF PendingOnce
  <2>3. \A i \in DOMAIN requests, j \in AnswersOnWire' : requests[i] # toClient'[j].to
    BY <1>2, <1>5 DEF PendingOnce
  <2>4. online
    BY <1>1, <1>5 DEF PendingOnce
  <2>5. QED
    BY <1>1, <1>5, <2>1, <2>2, <2>3, <2>4 DEF PendingOnce
<1>9. OwedIsExpected'
  <2>1. ASSUME NEW later, Expected(later)
        PROVE  Expected(later)'
    BY <1>1, <2>1 DEF Expected
  <2>2. QED
    BY <1>1, <1>2, <1>5, <2>1 DEF OwedIsExpected
<1>10. OwedEventsArrive'
  BY <1>4, <1>5, <1>6 DEF OwedEventsArrive
<1>11. ASSUME Idempotent
       PROVE  ServerIsOne' /\ ClientFollows'
  <2>1. ServerIsOne /\ ClientFollows
    BY <1>11 DEF AddressInv
  <2>2. ServerIsOne'
    BY <1>1, <2>1 DEF ServerIsOne, Fixed
  <2>3. ClientFollows'
    BY <1>1, <1>2, <2>1 DEF ClientFollows
  <2>4. QED
    BY <2>2, <2>3
<1>12. Idempotent' => Idempotent
  BY <1>1 DEF Idempotent, IsValid, Instance
<1>13. QED
  BY <1>7, <1>8, <1>9, <1>10, <1>11, <1>12 DEF AddressInv

(***************************************************************************)
(* What the server handles.                                                *)
(***************************************************************************)

\* The request o leaves its wire, and the answer to it enters the other one.
Answered(o, kind, ok) ==
  /\ o = Head(requests) /\ o \in Operation /\ o.kind = kind
  /\ requests' \in Seq(Operation) /\ toClient' \in Seq(Message)
  /\ 1 \in DOMAIN requests /\ requests[1] = o
  /\ \A i \in DOMAIN requests' : /\ i + 1 \in DOMAIN requests
                                 /\ requests'[i] = requests[i + 1]
                                 /\ requests'[i] \in operations /\ requests'[i] # o
  /\ \A i, j \in DOMAIN requests' : i + 1 = j + 1 => i = j
  /\ \E last : /\ last \notin DOMAIN toClient
               /\ DOMAIN toClient' = DOMAIN toClient \cup {last}
               /\ \A i \in DOMAIN toClient : toClient'[i] = toClient[i]
               /\ toClient'[last] = [type |-> "answer", to |-> o, ok |-> ok]
               /\ AnswersOnWire' = AnswersOnWire \cup {last}

\* Handling a request answers a call.
LEMMA HandleWires ==
  ASSUME AddressInv, NEW kind, NEW ok \in BOOLEAN, Handle(kind, ok)
  PROVE  \E o \in operations : Answered(o, kind, ok)
<1> DEFINE o == Head(requests)
           answer == [type |-> "answer", to |-> o, ok |-> ok]
<1>1. /\ requests # <<>> /\ o.kind = kind /\ requests' = Tail(requests)
      /\ toClient' = Append(toClient, answer)
  BY DEF Handle
<1>2. requests \in Seq(Operation) /\ toClient \in Seq(Message) /\ PendingOnce
  BY DEF AddressInv, TypeOK
<1>3. /\ 1 \in DOMAIN requests /\ o = requests[1] /\ o \in Operation
      /\ requests' \in Seq(Operation)
      /\ \A i \in DOMAIN requests' : /\ i + 1 \in DOMAIN requests /\ i + 1 # 1
                                     /\ requests'[i] = requests[i + 1]
      /\ \A i, j \in DOMAIN requests' : i + 1 = j + 1 => i = j
  BY <1>1, <1>2, Moved
<1>4. answer \in Message /\ answer.type = "answer"
  BY <1>3 DEF Message
<1> HIDE DEF o
<1>5. o \in operations
  BY <1>2, <1>3 DEF PendingOnce
<1>6. \A i \in DOMAIN requests' : requests'[i] \in operations /\ requests'[i] # o
  BY <1>2, <1>3 DEF PendingOnce
<1> HIDE DEF answer
<1>7. PICK last : /\ last \notin DOMAIN toClient
                  /\ DOMAIN toClient' = DOMAIN toClient \cup {last}
                  /\ \A i \in DOMAIN toClient : toClient'[i] = toClient[i]
                  /\ toClient'[last] = answer
                  /\ toClient' \in Seq(Message)
  BY <1>1, <1>2, <1>4, Queued
<1>8. AnswersOnWire' = AnswersOnWire \cup {last}
  BY <1>4, <1>7 DEF AnswersOnWire
<1>9. QED
  BY <1>1, <1>3, <1>5, <1>6, <1>7, <1>8 DEF Answered, o, answer

\* Whatever the server does to the channel, calls stay on one wire and no event that is
\* owed is affected.
LEMMA HandleKeeps ==
  ASSUME AddressInv, NEW kind, NEW ok \in BOOLEAN, Handle(kind, ok),
         members' \subseteq Keys, rooms' \subseteq Keys, joined' \subseteq Keys
  PROVE  TypeOK' /\ PendingOnce' /\ OwedIsExpected' /\ OwedEventsArrive'
<1>1. UNCHANGED <<schema, subscriptions, operations, calls, online,
                  deliveries, emissions, missed>>
  BY DEF Handle, client
<1>2. TypeOK /\ PendingOnce /\ OwedIsExpected /\ OwedEventsArrive
  BY DEF AddressInv
<1>3. PICK o \in operations : Answered(o, kind, ok)
  BY HandleWires
<1>4. PICK last : /\ last \notin DOMAIN toClient
                  /\ DOMAIN toClient' = DOMAIN toClient \cup {last}
                  /\ \A i \in DOMAIN toClient : toClient'[i] = toClient[i]
                  /\ toClient'[last].type = "answer" /\ toClient'[last].to = o
                  /\ AnswersOnWire' = AnswersOnWire \cup {last}
  BY <1>3 DEF Answered
<1>5. AnswersOnWire \subseteq DOMAIN toClient
  BY DEF AnswersOnWire
<1>6. TypeOK'
  BY <1>1, <1>2, <1>3 DEF TypeOK, Answered
<1>7. PendingOnce'
  <2>1. \A i \in AnswersOnWire' : toClient'[i].to \in operations
    BY <1>2, <1>4, <1>5 DEF PendingOnce
  <2>2. \A i, j \in DOMAIN requests' : requests'[i] = requests'[j] => i = j
    BY <1>2, <1>3 DEF PendingOnce, Answered
  <2>3. \A i \in AnswersOnWire : toClient[i].to # o
    BY <1>2, <1>3 DEF PendingOnce, Answered
  <2>4. \A i, j \in AnswersOnWire' : toClient'[i].to = toClient'[j].to => i = j
    BY <1>2, <1>4, <1>5, <2>3 DEF PendingOnce
  <2>5. \A i \in DOMAIN requests', j \in AnswersOnWire' : requests'[i] # toClient'[j].to
    BY <1>2, <1>3, <1>4, <1>5 DEF PendingOnce, Answered
  <2>6. online
    BY <1>2, <1>3 DEF PendingOnce, Answered
  <2>7. QED
    BY <1>1, <1>2, <1>3, <2>1, <2>2, <2>4, <2>5, <2>6 DEF PendingOnce, Answered
<1>8. OwedIsExpected'
  <2>1. ASSUME NEW event, Expected(event)
        PROVE  Expected(event)'
    BY <1>1, <2>1 DEF Expected
  <2>2. ASSUME NEW i \in DOMAIN toClient', toClient'[i].type = "event"
        PROVE  i \in DOMAIN toClient /\ toClient'[i] = toClient[i]
    BY <1>4, <2>2
  <2>3. QED
    BY <1>1, <1>2, <2>1, <2>2 DEF OwedIsExpected
<1>9. QED
  BY <1>1, <1>2, <1>6, <1>7, <1>8 DEF OwedEventsArrive

\* The answer makes up for what the server did to the channel of the request, if that
\* is all it did.
LEMMA HandleFollows ==
  ASSUME AddressInv, NEW kind, NEW ok \in BOOLEAN, Handle(kind, ok),
         ServerIsOne, ClientFollows,
         \A o \in operations : o = Head(requests) =>
           /\ \A key \in Keys : key # o.key => (key \in members' <=> key \in members)
           /\ o.key \in members' <=> (o.kind = "subscribe" <=> ok)
  PROVE  ClientFollows'
<1>1. UNCHANGED <<schema, subscriptions, operations, online>>
  BY DEF Handle, client
<1>2. TypeOK /\ PendingOnce
  BY DEF AddressInv
<1>3. PICK o \in operations : Answered(o, kind, ok)
  BY HandleWires
<1>4. PICK last : /\ last \notin DOMAIN toClient
                  /\ \A i \in DOMAIN toClient : toClient'[i] = toClient[i]
                  /\ toClient'[last].type = "answer" /\ toClient'[last].to = o
                  /\ toClient'[last].ok = ok
                  /\ AnswersOnWire' = AnswersOnWire \cup {last}
  BY <1>3 DEF Answered
<1>5. /\ \A key \in Keys : key # o.key => (key \in members' <=> key \in members)
      /\ o.key \in members' <=> (o.kind = "subscribe" <=> ok)
  BY <1>3 DEF Answered
<1>6. ASSUME NEW p \in operations, p # o
      PROVE  p.key # o.key /\ (p.key \in members' <=> p.key \in members)
  <2>1. p.key # o.key
    BY <1>2, <1>6 DEF PendingOnce
  <2>2. p.key \in Keys
    BY <1>2 DEF TypeOK, Operation
  <2>3. QED
    BY <1>5, <2>1, <2>2
<1>7. \A i \in DOMAIN requests' :
        LET p == requests'[i]
        IN  /\ p.key \in subscriptions <=> p.kind = "unsubscribe"
            /\ p.key \in members' <=> p.kind = "unsubscribe"
  BY <1>3, <1>6 DEF ClientFollows, Answered
<1>8. ASSUME NEW i \in AnswersOnWire'
      PROVE  LET p == toClient'[i].to
             IN  /\ p.key \in subscriptions <=> p.kind = "unsubscribe"
                 /\ p.key \in members' <=> (p.kind = "subscribe" <=> toClient'[i].ok)
  <2>1. CASE i = last
    <3>1. o.key \in subscriptions <=> o.kind = "unsubscribe"
      BY <1>3 DEF ClientFollows, Answered
    <3>2. QED
      BY <1>4, <1>5, <2>1, <3>1
  <2>2. CASE i # last
    <3>1. i \in AnswersOnWire /\ i \in DOMAIN toClient
      BY <1>4, <1>8, <2>2 DEF AnswersOnWire
    <3>2. toClient'[i] = toClient[i]
      BY <1>4, <3>1
    <3>3. toClient[i].to \in operations /\ toClient[i].to # o
      BY <1>2, <1>3, <3>1 DEF PendingOnce, Answered
    <3>4. toClient[i].to.key \in members' <=> toClient[i].to.key \in members
      BY <1>6, <3>3
    <3>5. QED
      BY <3>1, <3>2, <3>4 DEF ClientFollows
  <2>3. QED
    BY <2>1, <2>2
<1>9. ASSUME online, NEW key \in Keys, \A p \in operations : p.key # key
      PROVE  key \in subscriptions <=> key \in members'
  <2>1. key # o.key
    BY <1>9
  <2>2. QED
    BY <1>5, <1>9, <2>1 DEF ClientFollows
<1>10. QED
  BY <1>1, <1>7, <1>8, <1>9 DEF ClientFollows

\* A step that handles a request keeps the invariant, if with an idempotent schema the
\* parts of the server agree afterwards and only the channel of the request changed.
LEMMA HandleStep ==
  ASSUME AddressInv, NEW kind, NEW ok \in BOOLEAN, Handle(kind, ok),
         members' \subseteq Keys, rooms' \subseteq Keys, joined' \subseteq Keys,
         \A o \in operations :
           Idempotent /\ o = Head(requests) /\ o \in Operation /\ o.kind = kind /\ Fixed(o.key)
             => /\ \A key \in Keys : key # o.key => (key \in members' <=> key \in members)
                /\ o.key \in members' <=> (o.kind = "subscribe" <=> ok)
                /\ rooms' = members' /\ joined' = members'
  PROVE  AddressInv'
<1>1. TypeOK' /\ PendingOnce' /\ OwedIsExpected' /\ OwedEventsArrive'
  BY HandleKeeps
<1>2. UNCHANGED <<schema, subscriptions, operations, online>>
  BY DEF Handle, client
<1>3. ASSUME Idempotent
      PROVE  ServerIsOne' /\ ClientFollows'
  <2>1. ServerIsOne /\ ClientFollows /\ PendingOnce
    BY <1>3 DEF AddressInv
  <2>2. PICK o \in operations : Answered(o, kind, ok)
    BY HandleWires
  <2>3. /\ o = Head(requests) /\ o \in Operation /\ o.kind = kind /\ Fixed(o.key)
        /\ online
    BY <2>1, <2>2 DEF Answered, ServerIsOne, PendingOnce
  <2>4. /\ \A key \in Keys : key # o.key => (key \in members' <=> key \in members)
        /\ o.key \in members' <=> (o.kind = "subscribe" <=> ok)
        /\ rooms' = members' /\ joined' = members'
    BY <1>3, <2>3
  <2>5. ClientFollows'
    BY <2>1, <2>3, <2>4, HandleFollows
  <2>6. ServerIsOne'
    <3>1. \A p \in operations : Fixed(p.key)'
      BY <1>2, <2>1 DEF ServerIsOne, Fixed
    <3>2. ASSUME NEW key \in members'
          PROVE  Fixed(key)'
      <4>1. key = o.key \/ key \in members
        BY <2>4, <3>2
      <4>2. QED
        BY <1>2, <2>1, <2>3, <4>1 DEF ServerIsOne, Fixed
    <3>3. online'
      BY <1>2, <2>3
    <3>4. QED
      BY <1>2, <2>4, <3>1, <3>2, <3>3 DEF ServerIsOne
  <2>7. QED
    BY <2>5, <2>6
<1>4. Idempotent' => Idempotent
  BY <1>2 DEF Idempotent, IsValid, Instance
<1>5. QED
  BY <1>1, <1>3, <1>4 DEF AddressInv

\* What the socket is in before a request is handled, and the key that is asked for.
LEMMA ServerFacts ==
  ASSUME AddressInv, NEW kind, NEW ok, Handle(kind, ok)
  PROVE  /\ members \subseteq Keys /\ rooms \subseteq Keys /\ joined \subseteq Keys
         /\ Head(requests).key \in Keys /\ Head(requests).kind = kind
         /\ Idempotent => rooms = members /\ joined = members
<1>1. TypeOK /\ (Idempotent => ServerIsOne)
  BY DEF AddressInv
<1>2. Head(requests) \in Operation
  BY <1>1, Moved DEF Handle, TypeOK
<1>3. QED
  BY <1>1, <1>2 DEF TypeOK, Operation, Handle, ServerIsOne

\* The runtime admits the socket under the instance of the key.
LEMMA JoinStep ==
  ASSUME AddressInv, Join
  PROVE  AddressInv'
<1> DEFINE key == Instance(Head(requests).key)
<1>1. /\ Handle("subscribe", TRUE) /\ IsValid(Head(requests).key)
      /\ members' = members \cup {key}
      /\ rooms' = rooms \cup {key} /\ joined' = joined \cup {key}
  BY DEF Join
<1>2. PICK ok \in BOOLEAN : ok /\ Handle("subscribe", ok)
  BY <1>1
<1>3. /\ members \subseteq Keys /\ rooms \subseteq Keys /\ joined \subseteq Keys
      /\ Head(requests).key \in Keys
      /\ Idempotent => rooms = members /\ joined = members
  BY <1>2, ServerFacts
<1>4. TypeOK
  BY DEF AddressInv
<1>5. key \in Keys
  BY <1>1, <1>3, <1>4, InstanceFacts
<1>6. ASSUME NEW o \in operations, Idempotent, o = Head(requests), o \in Operation,
             o.kind = "subscribe", Fixed(o.key)
      PROVE  /\ \A k \in Keys : k # o.key => (k \in members' <=> k \in members)
             /\ o.key \in members' <=> (o.kind = "subscribe" <=> ok)
             /\ rooms' = members' /\ joined' = members'
  <2>1. key = o.key
    BY <1>3, <1>4, <1>6, FixedFacts
  <2>2. QED
    BY <1>1, <1>2, <1>3, <1>6, <2>1
<1> HIDE DEF key
<1>7. members' \subseteq Keys /\ rooms' \subseteq Keys /\ joined' \subseteq Keys
  BY <1>1, <1>3, <1>5
<1>8. QED
  BY <1>2, <1>6, <1>7, HandleStep

\* A refused join leaves the socket where it was.
LEMMA RefuseJoinStep ==
  ASSUME AddressInv, RefuseJoin
  PROVE  AddressInv'
<1>1. PICK ok \in BOOLEAN : ~ ok /\ Handle("subscribe", ok)
  BY DEF RefuseJoin
<1>2. UNCHANGED <<members, rooms, joined>>
  BY DEF RefuseJoin, server
<1>3. /\ members \subseteq Keys /\ rooms \subseteq Keys /\ joined \subseteq Keys
      /\ Idempotent => rooms = members /\ joined = members
  BY <1>1, ServerFacts
<1>4. ASSUME NEW o \in operations, Idempotent, o = Head(requests), o \in Operation,
             o.kind = "subscribe", Fixed(o.key)
      PROVE  /\ \A k \in Keys : k # o.key => (k \in members' <=> k \in members)
             /\ o.key \in members' <=> (o.kind = "subscribe" <=> ok)
             /\ rooms' = members' /\ joined' = members'
  <2>1. ClientFollows /\ requests # <<>> /\ requests \in Seq(Operation)
    BY <1>1, <1>4 DEF AddressInv, TypeOK, Handle
  <2>2. 1 \in DOMAIN requests /\ requests[1] = o
    BY <1>4, <2>1, Moved
  <2>3. o.key \notin members
    BY <1>4, <2>1, <2>2 DEF ClientFollows
  <2>4. QED
    BY <1>1, <1>2, <1>3, <1>4, <2>3
<1>5. QED
  BY <1>1, <1>2, <1>3, <1>4, HandleStep

\* The adapter leaves the room of its instance, the runtime the membership of its own.
LEMMA LeaveStep ==
  ASSUME AddressInv, Leave
  PROVE  AddressInv'
<1> DEFINE key == Head(requests).key
<1>1. PICK ok \in BOOLEAN : ok /\ Handle("unsubscribe", ok)
  BY DEF Leave
<1>2. /\ rooms' = rooms \ {Instance(key)}
      /\ members' = members \ {Instance(Instance(key))}
      /\ joined' = joined \ {Instance(key)}
  BY DEF Leave
<1>3. /\ members \subseteq Keys /\ rooms \subseteq Keys /\ joined \subseteq Keys
      /\ key \in Keys
      /\ Idempotent => rooms = members /\ joined = members
  BY <1>1, ServerFacts
<1>4. TypeOK
  BY DEF AddressInv
<1>5. ASSUME NEW o \in operations, Idempotent, o = Head(requests), o \in Operation,
             o.kind = "unsubscribe", Fixed(o.key)
      PROVE  /\ \A k \in Keys : k # o.key => (k \in members' <=> k \in members)
             /\ o.key \in members' <=> (o.kind = "subscribe" <=> ok)
             /\ rooms' = members' /\ joined' = members'
  <2>1. Instance(key) = o.key /\ Instance(Instance(key)) = o.key
    BY <1>3, <1>4, <1>5, FixedFacts
  <2>2. QED
    BY <1>1, <1>2, <1>3, <1>5, <2>1
<1> HIDE DEF key
<1>6. members' \subseteq Keys /\ rooms' \subseteq Keys /\ joined' \subseteq Keys
  BY <1>2, <1>3
<1>7. QED
  BY <1>1, <1>5, <1>6, HandleStep

\* A key that cannot be left: with an idempotent schema there is none.
LEMMA RefuseLeaveStep ==
  ASSUME AddressInv, RefuseLeave
  PROVE  AddressInv'
<1> DEFINE key == Head(requests).key
<1>1. PICK ok \in BOOLEAN : ~ ok /\ Handle("unsubscribe", ok)
  BY DEF RefuseLeave
<1>2. /\ ~ IsValid(key) \/ ~ IsValid(Instance(key))
      /\ rooms' \subseteq rooms /\ joined' \subseteq joined /\ UNCHANGED members
  BY DEF RefuseLeave
<1>3. /\ members \subseteq Keys /\ rooms \subseteq Keys /\ joined \subseteq Keys
      /\ key \in Keys
  BY <1>1, ServerFacts
<1>4. TypeOK
  BY DEF AddressInv
<1>5. ASSUME NEW o \in operations, o = Head(requests), Fixed(o.key)
      PROVE  FALSE
  <2>1. IsValid(key) /\ Instance(key) = key
    BY <1>3, <1>4, <1>5, FixedFacts
  <2>2. QED
    BY <1>2, <2>1
<1> HIDE DEF key
<1>6. members' \subseteq Keys /\ rooms' \subseteq Keys /\ joined' \subseteq Keys
  BY <1>2, <1>3
<1>7. QED
  BY <1>1, <1>5, <1>6, HandleStep

(***************************************************************************)
(* Events and the end of the connection.                                   *)
(***************************************************************************)

\* Reading an audience: an event is owed to a client that is subscribed and does not
\* call.
LEMMA RouteStep ==
  ASSUME AddressInv, NEW key \in Keys, Route(key)
  PROVE  AddressInv'
<1> DEFINE event == [channel |-> key,
                     owed |-> key \in subscriptions /\ \A o \in operations : o.key # key]
<1>1. /\ emissions < MaxEmissions /\ emissions' = emissions + 1
      /\ deliveries' = IF key \in members THEN deliveries \cup {event} ELSE deliveries
      /\ UNCHANGED <<schema, subscriptions, operations, calls, requests, toClient, online,
                     members, rooms, joined, missed>>
  BY DEF Route, client, server
<1>2. TypeOK /\ PendingOnce /\ OwedIsExpected /\ OwedEventsArrive
  BY DEF AddressInv
<1>3. event \in Event
  BY DEF Event
<1>4. Expected(event)
  BY DEF Expected
<1> HIDE DEF event
<1>5. TypeOK'
  <2>1. emissions' \in 0..MaxEmissions
    BY <1>1, <1>2, BoundsAssumption DEF TypeOK
  <2>2. QED
    BY <1>1, <1>2, <1>3, <2>1 DEF TypeOK
<1>6. PendingOnce'
  BY <1>1, <1>2 DEF PendingOnce, AnswersOnWire
<1>7. OwedIsExpected'
  <2>1. ASSUME NEW later, Expected(later)
        PROVE  Expected(later)'
    BY <1>1, <2>1 DEF Expected
  <2>2. ASSUME NEW later \in deliveries'
        PROVE  Expected(later)'
    <3>1. Expected(later)
      BY <1>1, <1>2, <1>4, <2>2 DEF OwedIsExpected
    <3>2. QED
      BY <2>1, <3>1
  <2>3. QED
    BY <1>1, <1>2, <2>1, <2>2 DEF OwedIsExpected
<1>8. ASSUME Idempotent
      PROVE  ServerIsOne' /\ ClientFollows'
  BY <1>1, <1>8 DEF AddressInv, ServerIsOne, ClientFollows, Fixed, AnswersOnWire
<1>9. Idempotent' => Idempotent
  BY <1>1 DEF Idempotent, IsValid, Instance
<1>10. QED
  BY <1>1, <1>2, <1>5, <1>6, <1>7, <1>8, <1>9 DEF AddressInv, OwedEventsArrive

\* A delivery goes on the wire, or nowhere.
LEMMA DeliverStep ==
  ASSUME AddressInv, Deliver
  PROVE  AddressInv'
<1>1. PICK event \in deliveries, allowed \in BOOLEAN :
        /\ deliveries' = deliveries \ {event}
        /\ toClient' = IF allowed /\ online
                       THEN Append(toClient, [type |-> "event", event |-> event])
                       ELSE toClient
  BY DEF Deliver
<1>2. UNCHANGED <<schema, subscriptions, operations, calls, requests, online,
                  members, rooms, joined, emissions, missed>>
  BY DEF Deliver, client, server
<1>3. TypeOK /\ PendingOnce /\ OwedIsExpected /\ OwedEventsArrive
  BY DEF AddressInv
<1> DEFINE message == [type |-> "event", event |-> event]
<1>4. message \in Message /\ message.type = "event" /\ message.event = event
  BY <1>3 DEF TypeOK, Message
<1> HIDE DEF message
<1>5. /\ toClient' \in Seq(Message)
      /\ AnswersOnWire' = AnswersOnWire
      /\ \A i \in AnswersOnWire : toClient'[i] = toClient[i]
      /\ \A i \in DOMAIN toClient' : \/ i \in DOMAIN toClient /\ toClient'[i] = toClient[i]
                                     \/ toClient'[i] = message
      /\ ~ online => toClient' = toClient
  <2>1. toClient \in Seq(Message)
    BY <1>3 DEF TypeOK
  <2>2. CASE allowed /\ online
    <3>1. toClient' = Append(toClient, message)
      BY <1>1, <2>2 DEF message
    <3>2. PICK last : /\ last \notin DOMAIN toClient
                      /\ DOMAIN toClient' = DOMAIN toClient \cup {last}
                      /\ \A i \in DOMAIN toClient : toClient'[i] = toClient[i]
                      /\ toClient'[last] = message
                      /\ toClient' \in Seq(Message)
      BY <1>4, <2>1, <3>1, Queued
    <3>3. QED
      BY <1>4, <2>2, <3>2 DEF AnswersOnWire
  <2>3. CASE ~ (allowed /\ online)
    BY <1>1, <2>1, <2>3 DEF AnswersOnWire
  <2>4. QED
    BY <2>2, <2>3
<1>6. TypeOK'
  BY <1>1, <1>2, <1>3, <1>5 DEF TypeOK
<1>7. PendingOnce'
  BY <1>2, <1>3, <1>5 DEF PendingOnce
<1>8. OwedIsExpected'
  <2>1. ASSUME NEW later, Expected(later)
        PROVE  Expected(later)'
    BY <1>2, <2>1 DEF Expected
  <2>2. Expected(event)
    BY <1>3 DEF OwedIsExpected
  <2>3. ASSUME NEW i \in DOMAIN toClient', toClient'[i].type = "event",
               NEW later, later = toClient'[i].event
        PROVE  Expected(later)'
    <3>1. later = event \/ (i \in DOMAIN toClient /\ toClient'[i] = toClient[i])
      BY <1>4, <1>5, <2>3
    <3>2. Expected(later)
      BY <1>3, <2>2, <2>3, <3>1 DEF OwedIsExpected
    <3>3. QED
      BY <2>1, <3>2
  <2>4. \A later \in deliveries' : Expected(later)'
    BY <1>1, <1>3, <2>1 DEF OwedIsExpected
  <2>5. QED
    BY <2>3, <2>4 DEF OwedIsExpected
<1>9. ASSUME Idempotent
      PROVE  ServerIsOne' /\ ClientFollows'
  BY <1>2, <1>5, <1>9 DEF AddressInv, ServerIsOne, ClientFollows, Fixed
<1>10. Idempotent' => Idempotent
  BY <1>2 DEF Idempotent, IsValid, Instance
<1>11. QED
  BY <1>2, <1>3, <1>6, <1>7, <1>8, <1>9, <1>10 DEF AddressInv, OwedEventsArrive

\* The connection breaks: the cleanup finds every membership through the record.
LEMMA DisconnectStep ==
  ASSUME AddressInv, Disconnect
  PROVE  AddressInv'
<1>1. /\ online' = FALSE
      /\ requests' = <<>> /\ toClient' = <<>> /\ operations' = {}
      /\ rooms' = {} /\ members' = members \ Cleaned /\ joined' = {}
      /\ UNCHANGED <<schema, subscriptions, calls, deliveries, emissions, missed>>
  BY DEF Disconnect
<1>2. TypeOK /\ PendingOnce /\ OwedIsExpected /\ OwedEventsArrive
  BY DEF AddressInv
<1>3. TypeOK'
  <2>1. online' \in BOOLEAN
    BY <1>1
  <2>2. members' \subseteq Keys
    BY <1>1, <1>2 DEF TypeOK
  <2>3. requests' \in Seq(Operation) /\ toClient' \in Seq(Message)
    BY <1>1
  <2>4. operations' \subseteq Operation /\ rooms' \subseteq Keys /\ joined' \subseteq Keys
    BY <1>1
  <2>5. QED
    BY <1>1, <1>2, <2>1, <2>2, <2>3, <2>4 DEF TypeOK
<1>4. DOMAIN requests' = {} /\ DOMAIN toClient' = {} /\ AnswersOnWire' = {}
  BY <1>1 DEF AnswersOnWire
<1>5. PendingOnce'
  BY <1>1, <1>4 DEF PendingOnce
<1>6. OwedIsExpected'
  <2>1. ASSUME NEW event, Expected(event)
        PROVE  Expected(event)'
    BY <1>1, <2>1 DEF Expected
  <2>2. QED
    BY <1>1, <1>2, <1>4, <2>1 DEF OwedIsExpected
<1>7. ASSUME Idempotent
      PROVE  ServerIsOne' /\ ClientFollows'
  <2>1. ServerIsOne
    BY <1>7 DEF AddressInv
  <2>2. \A key \in members : key \in joined /\ IsValid(key) /\ Instance(key) = key
    BY <1>2, <2>1, FixedFacts DEF ServerIsOne, TypeOK
  <2>3. members' = {}
    BY <1>1, <2>2 DEF Cleaned
  <2>4. QED
    BY <1>1, <1>4, <2>3 DEF ServerIsOne, ClientFollows
<1>8. Idempotent' => Idempotent
  BY <1>1 DEF Idempotent, IsValid, Instance
<1>9. QED
  BY <1>1, <1>2, <1>3, <1>5, <1>6, <1>7, <1>8 DEF AddressInv, OwedEventsArrive

(***************************************************************************)
(* The theorems.                                                           *)
(***************************************************************************)

\* At first nobody is anywhere and nothing is on its way.
LEMMA InitInv == Init => AddressInv
<1> SUFFICES ASSUME Init
             PROVE  AddressInv
  OBVIOUS
<1>1. /\ schema \in [Keys -> Keys \cup {Invalid}]
      /\ subscriptions = {} /\ operations = {} /\ calls = 0
      /\ requests = <<>> /\ toClient = <<>> /\ online = TRUE
      /\ members = {} /\ rooms = {} /\ joined = {}
      /\ deliveries = {} /\ emissions = 0 /\ missed = {}
  BY DEF Init
<1>2. DOMAIN requests = {} /\ DOMAIN toClient = {} /\ AnswersOnWire = {}
  BY <1>1 DEF AnswersOnWire
<1>3. TypeOK
  BY <1>1, BoundsAssumption DEF TypeOK
<1>4. PendingOnce /\ OwedIsExpected /\ OwedEventsArrive
  BY <1>1, <1>2 DEF PendingOnce, OwedIsExpected, OwedEventsArrive
<1>5. ServerIsOne /\ ClientFollows
  BY <1>1, <1>2 DEF ServerIsOne, ClientFollows
<1>6. QED
  BY <1>3, <1>4, <1>5 DEF AddressInv

\* Every step keeps the invariant.
LEMMA NextInv == AddressInv /\ [Next]_vars => AddressInv'
<1> SUFFICES ASSUME AddressInv, [Next]_vars
             PROVE  AddressInv'
  OBVIOUS
<1>1. CASE Next
  BY <1>1, SubscribeStep, UnsubscribeStep, RouteStep, ReceiveAnswerStep, ReceiveEventStep,
     JoinStep, RefuseJoinStep, LeaveStep, RefuseLeaveStep, DeliverStep, DisconnectStep
     DEF Next
<1>2. CASE UNCHANGED vars
  <2>1. UNCHANGED <<schema, subscriptions, operations, calls, requests, toClient, online,
                    members, rooms, joined, deliveries, emissions, missed>>
    BY <1>2 DEF vars, client, server
  <2>2. TypeOK' /\ PendingOnce' /\ OwedIsExpected' /\ OwedEventsArrive'
    BY <2>1 DEF AddressInv, TypeOK, PendingOnce, OwedIsExpected, OwedEventsArrive, Expected,
                AnswersOnWire
  <2>3. Idempotent' => ServerIsOne' /\ ClientFollows'
    BY <2>1 DEF AddressInv, Idempotent, IsValid, Instance, ServerIsOne, ClientFollows, Fixed,
                AnswersOnWire
  <2>4. QED
    BY <2>2, <2>3 DEF AddressInv
<1>3. QED
  BY <1>1, <1>2

\* What is known of wires, events and keys holds from the start and forever.
THEOREM AddressInvariance == Spec => []AddressInv
BY InitInv, NextInv, PTL DEF Spec

\* The variables keep their types, whatever the key schema does.
THEOREM TypeCorrect == Spec => []TypeOK
<1>1. AddressInv => TypeOK
  BY DEF AddressInv
<1>2. QED
  BY <1>1, AddressInvariance, PTL

\* While no call is under way all sides name the same channels, and after the
\* connection no membership is left, for every schema that is idempotent.
THEOREM OneChannel == Spec => []AddressesAgree
<1>1. ASSUME AddressInv
      PROVE  AddressesAgree
  <2>1. ASSUME Idempotent, online, operations = {}
        PROVE  subscriptions = members /\ members = rooms /\ rooms = joined
    <3>1. /\ ServerIsOne /\ ClientFollows
          /\ subscriptions \subseteq Keys /\ members \subseteq Keys
      BY <1>1, <2>1 DEF AddressInv, TypeOK
    <3>2. \A key \in Keys : key \in subscriptions <=> key \in members
      BY <2>1, <3>1 DEF ClientFollows
    <3>3. QED
      BY <3>1, <3>2 DEF ServerIsOne
  <2>2. Idempotent /\ ~ online => members = {}
    BY <1>1 DEF AddressInv, ServerIsOne
  <2>3. QED
    BY <2>1, <2>2 DEF AddressesAgree, SidesNameOneChannel, CleanupFindsMemberships
<1>2. QED
  BY <1>1, AddressInvariance, PTL

\* An event that is owed finds its subscription: the audience, the answers and the
\* events may overtake one another, and the schema may be any.
THEOREM OwedArrive == Spec => []OwedEventsArrive
<1>1. AddressInv => OwedEventsArrive
  BY DEF AddressInv
<1>2. QED
  BY <1>1, AddressInvariance, PTL

(***************************************************************************)
(* Policies: the paths to their parts.                                     *)
(***************************************************************************)

\* What andPolicy, orPolicy and notPolicy make has parts, and their scope.
LEMMA CompositionFacts ==
  ASSUME NEW S, NEW most \in Nat, NEW p \in Compositions(S, most)
  PROVE  /\ p.kind \in {"and", "or", "not"}
         /\ p.parts \in Seq(S) /\ Len(p.parts) \in 1..most
         /\ DOMAIN p.parts = 1..Len(p.parts)
         /\ p.kind = "not" => Len(p.parts) = 1
         /\ \A i \in DOMAIN p.parts : p.parts[i] \in S /\ p.parts[i].scope = p.scope
<1>1. PICK parts \in BoundedSeq(S, most) \ {<<>>} :
        /\ p.kind \in {"and", "or"} \cup (IF Len(parts) = 1 THEN {"not"} ELSE {})
        /\ p.parts = parts
        /\ p.scope \in {ScopeOf(parts, override) :
                          override \in {s \in Scopes : ScopesAgree(parts, s)}}
  BY DEF Compositions
<1>2. PICK m \in 0..most : parts \in [1..m -> S]
  BY DEF BoundedSeq, SeqOf
<1>3. m # 0
  BY <1>2
<1>4. parts \in Seq(S) /\ Len(parts) = m /\ DOMAIN parts = 1..m
  BY <1>2
<1>5. PICK override \in Scopes : ScopesAgree(parts, override) /\ p.scope = ScopeOf(parts, override)
  BY <1>1
<1>6. p.scope = parts[1].scope
  BY <1>5 DEF ScopesAgree, ScopeOf
<1>7. \A i \in 1..m : parts[i] \in S /\ parts[i].scope = p.scope
  BY <1>2, <1>4, <1>5, <1>6 DEF ScopesAgree
<1>8. p.kind \in {"and", "or", "not"} /\ (p.kind = "not" => Len(parts) = 1)
  BY <1>1
<1>9. QED
  BY <1>1, <1>3, <1>4, <1>7, <1>8

\* What a policy is, at every level.
IsComposition(p) ==
  /\ p.kind \in {"and", "or", "not"}
  /\ Len(p.parts) \in 1..Parts /\ DOMAIN p.parts = 1..Len(p.parts)
  /\ p.kind = "not" => Len(p.parts) = 1
  /\ \A i \in DOMAIN p.parts : p.parts[i].scope = p.scope

IsLeaf(p) == p.kind = "leaf" /\ p.parts = <<>> /\ DOMAIN p.parts = {}

\* The parts of a policy are policies, down to the leaves at the second level.
LEMMA LevelFacts ==
  ASSUME NEW p \in Policies
  PROVE  /\ IsLeaf(p) \/ IsComposition(p)
         /\ \A i \in DOMAIN p.parts :
              /\ p.parts[i] \in Policies
              /\ IsLeaf(p.parts[i]) \/ IsComposition(p.parts[i])
              /\ \A j \in DOMAIN p.parts[i].parts :
                   p.parts[i].parts[j] \in Policies /\ IsLeaf(p.parts[i].parts[j])
<1>1. \A q \in Leaves : IsLeaf(q)
  BY DEF Leaves, IsLeaf
<1>2. Width \in Nat /\ Parts \in Nat /\ Width <= Parts
  BY PartsAssumption
<1>3. \A q \in Compositions(Leaves, Width) :
        IsComposition(q) /\ \A i \in DOMAIN q.parts : q.parts[i] \in Leaves
  BY <1>2, CompositionFacts DEF IsComposition
<1>4. \A q \in Compositions(Shallow, Parts) :
        IsComposition(q) /\ \A i \in DOMAIN q.parts : q.parts[i] \in Shallow
  BY <1>2, CompositionFacts DEF IsComposition
<1>5. \A q \in Shallow : /\ IsLeaf(q) \/ IsComposition(q)
                         /\ \A i \in DOMAIN q.parts : q.parts[i] \in Leaves
  BY <1>1, <1>3 DEF Shallow, IsLeaf
<1>6. Leaves \subseteq Shallow /\ Shallow \subseteq Policies
  BY DEF Shallow, Policies
<1>7. /\ IsLeaf(p) \/ IsComposition(p)
      /\ \A i \in DOMAIN p.parts : p.parts[i] \in Shallow
  BY <1>4, <1>5, <1>6 DEF Policies
<1>8. QED
  BY <1>1, <1>5, <1>6, <1>7

\* The value of each kind of policy, from the values of its parts.
LEMMA CombinedFacts ==
  ASSUME NEW p, NEW own, NEW held \in [DOMAIN p.parts -> BOOLEAN],
         IsLeaf(p) \/ IsComposition(p), p.kind = "leaf" => own \in BOOLEAN
  PROVE  /\ Combined(p, own, held) \in BOOLEAN
         /\ p.kind = "leaf" => Combined(p, own, held) = own
         /\ p.kind = "and"  => (Combined(p, own, held) <=> \A i \in DOMAIN p.parts : held[i])
         /\ p.kind = "or"   => (Combined(p, own, held) <=> \E i \in DOMAIN p.parts : held[i])
         /\ p.kind = "not"  => (Combined(p, own, held) <=> ~held[1])
<1>1. p.kind = "leaf" => Combined(p, own, held) = own
  BY DEF Combined
<1>2. p.kind = "and" => Combined(p, own, held) = \A i \in DOMAIN p.parts : held[i]
  BY DEF Combined
<1>3. p.kind = "or"  => Combined(p, own, held) = \E i \in DOMAIN p.parts : held[i]
  BY DEF Combined
<1>4. p.kind = "not"  => Combined(p, own, held) = ~held[1]
  BY DEF Combined
<1>5. p.kind \in {"leaf", "and", "or", "not"}
  BY DEF IsLeaf, IsComposition
<1>6. QED
  BY <1>1, <1>2, <1>3, <1>4, <1>5

\* A path of at most two steps, lengthened by one.
LEMMA ShortPaths ==
  ASSUME NEW i, NEW j
  PROVE  /\ Append(<<>>, i) = <<i>> /\ Append(<<i>>, j) = <<i, j>>
         /\ Len(<<>>) = 0 /\ Len(<<i>>) = 1 /\ Len(<<i, j>>) = 2
         /\ <<i>>[1] = i /\ <<i, j>>[1] = i /\ <<i, j>>[2] = j
<1>1. Append(<<>>, i) = <<i>>
  OBVIOUS
<1>2. Append(<<i>>, j) = [k \in 1..2 |-> IF k = 2 THEN j ELSE i]
  OBVIOUS
<1>3. <<i, j>> = [k \in 1..2 |-> IF k = 2 THEN j ELSE i]
  OBVIOUS
<1>4. /\ Len(<<>>) = 0 /\ Len(<<i>>) = 1 /\ Len(<<i, j>>) = 2
      /\ <<i>>[1] = i /\ <<i, j>>[1] = i /\ <<i, j>>[2] = j
  OBVIOUS
<1>5. QED
  BY <1>1, <1>2, <1>3, <1>4

\* A path leads to a policy of the same scope, and on to each of its parts.
LEMMA PathFacts ==
  ASSUME NEW p \in Policies, NEW path \in PathsIn(p)
  PROVE  /\ path \in Seq(Nat) /\ Len(path) \in 0..2
         /\ PartAt(p, path) \in Policies
         /\ IsLeaf(PartAt(p, path)) \/ IsComposition(PartAt(p, path))
         /\ PartAt(p, path).scope = p.scope
         /\ Len(path) = 2 => IsLeaf(PartAt(p, path))
         /\ \A i \in DOMAIN PartAt(p, path).parts :
              /\ i \in 1..Parts
              /\ Append(path, i) \in PathsIn(p)
              /\ PartAt(p, Append(path, i)) = PartAt(p, path).parts[i]
<1>0. Parts \in Nat
  BY PartsAssumption
<1>1. /\ IsLeaf(p) \/ IsComposition(p)
      /\ \A i \in DOMAIN p.parts :
           /\ p.parts[i] \in Policies
           /\ IsLeaf(p.parts[i]) \/ IsComposition(p.parts[i])
           /\ \A j \in DOMAIN p.parts[i].parts :
                p.parts[i].parts[j] \in Policies /\ IsLeaf(p.parts[i].parts[j])
  BY LevelFacts
<1>2. \A q : IsLeaf(q) \/ IsComposition(q) =>
        \A i \in DOMAIN q.parts : i \in 1..Parts /\ i \in Nat /\ q.parts[i].scope = q.scope
  BY <1>0 DEF IsLeaf, IsComposition
<1>3. CASE path = <<>>
  <2>1. PartAt(p, path) = p
    BY <1>3 DEF PartAt
  <2>2. \A i \in DOMAIN p.parts :
          /\ Append(path, i) = <<i>> /\ <<i>> \in PathsIn(p)
          /\ PartAt(p, <<i>>) = p.parts[i]
    BY <1>3 DEF PathsIn, PartAt
  <2>3. path \in Seq(Nat) /\ Len(path) = 0
    BY <1>3
  <2>4. QED
    BY <1>1, <1>2, <2>1, <2>2, <2>3
<1>4. ASSUME NEW i \in DOMAIN p.parts, path = <<i>>
      PROVE  /\ path \in Seq(Nat) /\ Len(path) = 1
             /\ PartAt(p, path) = p.parts[i]
             /\ \A j \in DOMAIN p.parts[i].parts :
                  /\ Append(path, j) = <<i, j>> /\ <<i, j>> \in PathsIn(p)
                  /\ PartAt(p, <<i, j>>) = p.parts[i].parts[j]
  <2>1. i \in Nat
    BY <1>1, <1>2
  <2>2. PartAt(p, path) = p.parts[i] /\ path \in Seq(Nat) /\ Len(path) = 1
    BY <1>4, <2>1 DEF PartAt
  <2>3. ASSUME NEW j \in DOMAIN p.parts[i].parts
        PROVE  /\ Append(path, j) = <<i, j>> /\ <<i, j>> \in PathsIn(p)
               /\ PartAt(p, <<i, j>>) = p.parts[i].parts[j]
    <3>1. j \in Nat
      BY <1>1, <1>2
    <3>2. <<i, j>> \in PathsIn(p)
      BY DEF PathsIn
    <3>3. Append(<<i>>, j) = <<i, j>> /\ Len(<<i, j>>) = 2 /\ <<i, j>>[1] = i /\ <<i, j>>[2] = j
      BY ShortPaths
    <3>4. PartAt(p, <<i, j>>) = p.parts[i].parts[j]
      BY <3>3 DEF PartAt
    <3>5. QED
      BY <1>4, <3>2, <3>3, <3>4
  <2>4. QED
    BY <2>2, <2>3
<1>5. ASSUME NEW i \in DOMAIN p.parts, path = <<i>>
      PROVE  /\ path \in Seq(Nat) /\ Len(path) \in 0..2 /\ Len(path) # 2
             /\ PartAt(p, path) \in Policies
             /\ IsLeaf(PartAt(p, path)) \/ IsComposition(PartAt(p, path))
             /\ PartAt(p, path).scope = p.scope
             /\ \A j \in DOMAIN PartAt(p, path).parts :
                  /\ j \in 1..Parts
                  /\ Append(path, j) \in PathsIn(p)
                  /\ PartAt(p, Append(path, j)) = PartAt(p, path).parts[j]
  <2>1. /\ path \in Seq(Nat) /\ Len(path) = 1
        /\ PartAt(p, path) = p.parts[i]
        /\ \A j \in DOMAIN p.parts[i].parts :
             /\ Append(path, j) = <<i, j>> /\ <<i, j>> \in PathsIn(p)
             /\ PartAt(p, <<i, j>>) = p.parts[i].parts[j]
    BY <1>4, <1>5
  <2>2. \A j \in DOMAIN p.parts[i].parts : j \in 1..Parts
    BY <1>1, <1>2
  <2>3. /\ p.parts[i].scope = p.scope /\ p.parts[i] \in Policies
        /\ IsLeaf(p.parts[i]) \/ IsComposition(p.parts[i])
    BY <1>1, <1>2
  <2> DEFINE q == p.parts[i]
  <2>4. \A j \in DOMAIN q.parts : /\ Append(path, j) \in PathsIn(p)
                                  /\ PartAt(p, Append(path, j)) = q.parts[j]
    BY <2>1
  <2>5. PartAt(p, path) = q
    BY <2>1
  <2> HIDE DEF q
  <2>6. QED
    BY <2>1, <2>2, <2>3, <2>4, <2>5 DEF q
<1>6. ASSUME NEW i \in DOMAIN p.parts, NEW j \in DOMAIN p.parts[i].parts, path = <<i, j>>
      PROVE  /\ path \in Seq(Nat) /\ Len(path) = 2
             /\ PartAt(p, path) = p.parts[i].parts[j]
             /\ PartAt(p, path).scope = p.scope
             /\ IsLeaf(PartAt(p, path)) /\ PartAt(p, path) \in Policies
  <2>1. i \in Nat /\ j \in Nat /\ p.parts[i].parts[j].scope = p.scope
    BY <1>1, <1>2
  <2>2. PartAt(p, path) = p.parts[i].parts[j] /\ path \in Seq(Nat) /\ Len(path) = 2
    BY <1>6, <2>1 DEF PartAt
  <2>3. QED
    BY <1>1, <2>1, <2>2
<1>7. \/ path = <<>>
      \/ \E i \in DOMAIN p.parts : path = <<i>>
      \/ \E i \in DOMAIN p.parts : \E j \in DOMAIN p.parts[i].parts : path = <<i, j>>
  BY DEF PathsIn
<1>8. \A q : IsLeaf(q) => DOMAIN q.parts = {}
  BY DEF IsLeaf
<1>9. QED
  BY <1>3, <1>5, <1>6, <1>7, <1>8

\* The paths to the parts of a policy, written out.
LEMMA WrittenOut ==
  ASSUME NEW p \in Policies
  PROVE   /\ <<>> \in PathsIn(p) /\ PartAt(p, <<>>) = p
         /\ \A i \in DOMAIN p.parts :
              /\ Append(<<>>, i) = <<i>> /\ <<i>> \in PathsIn(p) /\ PartAt(p, <<i>>) = p.parts[i]
              /\ \A j \in DOMAIN p.parts[i].parts :
                   /\ Append(<<i>>, j) = <<i, j>> /\ <<i, j>> \in PathsIn(p)
                   /\ PartAt(p, <<i, j>>) = p.parts[i].parts[j]
<1>1. <<>> \in PathsIn(p) /\ PartAt(p, <<>>) = p
  BY DEF PathsIn, PartAt
<1>2. ASSUME NEW i \in DOMAIN p.parts
      PROVE  Append(<<>>, i) = <<i>> /\ <<i>> \in PathsIn(p) /\ PartAt(p, <<i>>) = p.parts[i]
  <2>1. /\ Append(<<>>, i) \in PathsIn(p)
        /\ PartAt(p, Append(<<>>, i)) = PartAt(p, <<>>).parts[i]
    BY <1>1, PathFacts
  <2>2. QED
    BY <1>1, <2>1, ShortPaths
<1>3. ASSUME NEW i \in DOMAIN p.parts, NEW j \in DOMAIN p.parts[i].parts
      PROVE  /\ Append(<<i>>, j) = <<i, j>> /\ <<i, j>> \in PathsIn(p)
             /\ PartAt(p, <<i, j>>) = p.parts[i].parts[j]
  <2>1. /\ Append(<<i>>, j) \in PathsIn(p)
        /\ PartAt(p, Append(<<i>>, j)) = PartAt(p, <<i>>).parts[j]
    BY <1>2, PathFacts
  <2>2. QED
    BY <1>2, <2>1, ShortPaths
<1>4. QED
  BY <1>1, <1>2, <1>3

\* The value of a part follows from the values of its own parts.
LEMMA HoldsFacts ==
  ASSUME NEW p \in Policies, NEW path \in PathsIn(p), NEW value \in [LeavesOf(p) -> BOOLEAN]
  PROVE  LET q == PartAt(p, path)
             held(i) == HoldsAt(p, Append(path, i), value)
         IN  /\ HoldsAt(p, path, value) \in BOOLEAN
             /\ q.kind = "leaf" => HoldsAt(p, path, value) = value[path]
             /\ q.kind = "and"  => (HoldsAt(p, path, value) <=> \A i \in DOMAIN q.parts : held(i))
             /\ q.kind = "or"   => (HoldsAt(p, path, value) <=> \E i \in DOMAIN q.parts : held(i))
             /\ q.kind = "not"  => (HoldsAt(p, path, value) <=> ~held(1))
<1> DEFINE first(i) == Combined(p.parts[i], value[<<i>>],
                                [j \in DOMAIN p.parts[i].parts |-> value[<<i, j>>]])
           top == Combined(p, value[<<>>], [i \in DOMAIN p.parts |-> first(i)])
<1>0. /\ \A way \in PathsIn(p) : PartAt(p, way).kind = "leaf" => value[way] \in BOOLEAN
      /\ IsLeaf(p) \/ IsComposition(p)
      /\ \A i \in DOMAIN p.parts :
           /\ IsLeaf(p.parts[i]) \/ IsComposition(p.parts[i])
           /\ \A j \in DOMAIN p.parts[i].parts : IsLeaf(p.parts[i].parts[j])
  BY LevelFacts DEF LeavesOf
<1>1. /\ <<>> \in PathsIn(p) /\ PartAt(p, <<>>) = p
      /\ \A i \in DOMAIN p.parts :
           /\ Append(<<>>, i) = <<i>> /\ <<i>> \in PathsIn(p) /\ PartAt(p, <<i>>) = p.parts[i]
           /\ \A j \in DOMAIN p.parts[i].parts :
                /\ Append(<<i>>, j) = <<i, j>> /\ <<i, j>> \in PathsIn(p)
                /\ PartAt(p, <<i, j>>) = p.parts[i].parts[j]
  BY WrittenOut
<1>2. HoldsAt(p, <<>>, value) = top
  BY DEF HoldsAt
<1>3. \A i : HoldsAt(p, <<i>>, value) = first(i)
  BY DEF HoldsAt
<1>4. \A i, j : HoldsAt(p, <<i, j>>, value) = value[<<i, j>>]
  BY DEF HoldsAt
<1>5. ASSUME NEW i \in DOMAIN p.parts
      PROVE  LET q == p.parts[i]
                 held(j) == HoldsAt(p, <<i, j>>, value)
             IN  /\ first(i) \in BOOLEAN
                 /\ q.kind = "leaf" => first(i) = value[<<i>>]
                 /\ q.kind = "and"  => (first(i) <=> \A j \in DOMAIN q.parts : held(j))
                 /\ q.kind = "or"   => (first(i) <=> \E j \in DOMAIN q.parts : held(j))
                 /\ q.kind = "not"  => (first(i) <=> ~held(1))
  <2> DEFINE q == p.parts[i]
             f == [j \in DOMAIN q.parts |-> value[<<i, j>>]]
  <2>1. \A j \in DOMAIN q.parts : value[<<i, j>>] \in BOOLEAN
    <3> TAKE j \in DOMAIN q.parts
    <3> DEFINE way == <<i, j>>
    <3>1. way \in PathsIn(p) /\ PartAt(p, way) = q.parts[j]
      BY <1>1
    <3>2. q.parts[j].kind = "leaf"
      BY <1>0 DEF IsLeaf
    <3> HIDE DEF way
    <3>3. value[way] \in BOOLEAN
      BY <1>0, <3>1, <3>2
    <3>4. QED
      BY <3>3 DEF way
  <2>2. f \in [DOMAIN q.parts -> BOOLEAN]
    BY <2>1
  <2>3. q.kind = "leaf" => value[<<i>>] \in BOOLEAN
    BY <1>0, <1>1
  <2>4. \A j \in DOMAIN q.parts : f[j] = HoldsAt(p, <<i, j>>, value)
    BY <1>4
  <2>5. q.kind = "not" => 1 \in DOMAIN q.parts
    BY <1>0 DEF IsLeaf, IsComposition
  <2>6. first(i) = Combined(q, value[<<i>>], f)
    OBVIOUS
  <2>7. IsLeaf(q) \/ IsComposition(q)
    BY <1>0
  <2> HIDE DEF f, q, first
  <2>8. /\ Combined(q, value[<<i>>], f) \in BOOLEAN
        /\ q.kind = "leaf" => Combined(q, value[<<i>>], f) = value[<<i>>]
        /\ q.kind = "and"  => (Combined(q, value[<<i>>], f) <=> \A j \in DOMAIN q.parts : f[j])
        /\ q.kind = "or"   => (Combined(q, value[<<i>>], f) <=> \E j \in DOMAIN q.parts : f[j])
        /\ q.kind = "not"  => (Combined(q, value[<<i>>], f) <=> ~f[1])
    BY <2>2, <2>3, <2>7, CombinedFacts
  <2>9. QED
    BY <2>4, <2>5, <2>6, <2>8 DEF q
<1>6. LET held(i) == HoldsAt(p, <<i>>, value)
      IN  /\ top \in BOOLEAN
          /\ p.kind = "leaf" => top = value[<<>>]
          /\ p.kind = "and"  => (top <=> \A i \in DOMAIN p.parts : held(i))
          /\ p.kind = "or"   => (top <=> \E i \in DOMAIN p.parts : held(i))
          /\ p.kind = "not"  => (top <=> ~held(1))
  <2> DEFINE f == [i \in DOMAIN p.parts |-> first(i)]
  <2>1. \A i \in DOMAIN p.parts : first(i) \in BOOLEAN
    BY <1>5
  <2>2. top = Combined(p, value[<<>>], f)
    OBVIOUS
  <2> HIDE DEF first, top
  <2>3. f \in [DOMAIN p.parts -> BOOLEAN]
    BY <2>1
  <2>4. p.kind = "leaf" => value[<<>>] \in BOOLEAN
    BY <1>0, <1>1
  <2>5. \A i \in DOMAIN p.parts : f[i] = HoldsAt(p, <<i>>, value)
    BY <1>3
  <2>6. p.kind = "not" => 1 \in DOMAIN p.parts
    BY <1>0 DEF IsLeaf, IsComposition
  <2> HIDE DEF f
  <2>7. /\ Combined(p, value[<<>>], f) \in BOOLEAN
        /\ p.kind = "leaf" => Combined(p, value[<<>>], f) = value[<<>>]
        /\ p.kind = "and"  => (Combined(p, value[<<>>], f) <=> \A i \in DOMAIN p.parts : f[i])
        /\ p.kind = "or"   => (Combined(p, value[<<>>], f) <=> \E i \in DOMAIN p.parts : f[i])
        /\ p.kind = "not"  => (Combined(p, value[<<>>], f) <=> ~f[1])
    BY <1>0, <2>3, <2>4, CombinedFacts
  <2>8. QED
    BY <2>2, <2>5, <2>6, <2>7
<1> HIDE DEF first, top
<1>7. CASE path = <<>>
  <2>1. p.kind = "not" => 1 \in DOMAIN p.parts
    BY <1>0 DEF IsLeaf, IsComposition
  <2>2. \A i \in DOMAIN p.parts : HoldsAt(p, Append(path, i), value) = HoldsAt(p, <<i>>, value)
    BY <1>1, <1>7
  <2>3. PartAt(p, path) = p /\ HoldsAt(p, path, value) = top
    BY <1>1, <1>2, <1>7
  <2>4. p.kind = "leaf" => top = value[path]
    BY <1>6, <1>7
  <2>5. QED
    BY <1>6, <2>1, <2>2, <2>3, <2>4
<1>8. ASSUME NEW i \in DOMAIN p.parts, path = <<i>>
      PROVE  LET q == PartAt(p, path)
                 held(j) == HoldsAt(p, Append(path, j), value)
             IN  /\ HoldsAt(p, path, value) \in BOOLEAN
                 /\ q.kind = "leaf" => HoldsAt(p, path, value) = value[path]
                 /\ q.kind = "and"  => (HoldsAt(p, path, value) <=> \A j \in DOMAIN q.parts : held(j))
                 /\ q.kind = "or"   => (HoldsAt(p, path, value) <=> \E j \in DOMAIN q.parts : held(j))
                 /\ q.kind = "not"  => (HoldsAt(p, path, value) <=> ~held(1))
  <2> DEFINE q == p.parts[i]
  <2>1. q.kind = "not" => 1 \in DOMAIN q.parts
    BY <1>0 DEF IsLeaf, IsComposition
  <2>2. \A j \in DOMAIN q.parts : HoldsAt(p, Append(path, j), value) = HoldsAt(p, <<i, j>>, value)
    BY <1>1, <1>8
  <2>3. PartAt(p, path) = q
    BY <1>1, <1>8
  <2>4. HoldsAt(p, path, value) = first(i)
    BY <1>3, <1>8
  <2>5. q.kind = "leaf" => first(i) = value[path]
    BY <1>5, <1>8
  <2>6. /\ first(i) \in BOOLEAN
        /\ q.kind = "and"  => (first(i) <=> \A j \in DOMAIN q.parts : HoldsAt(p, <<i, j>>, value))
        /\ q.kind = "or"   => (first(i) <=> \E j \in DOMAIN q.parts : HoldsAt(p, <<i, j>>, value))
        /\ q.kind = "not"  => (first(i) <=> ~HoldsAt(p, <<i, 1>>, value))
    BY <1>5
  <2> HIDE DEF q
  <2>7. QED
    BY <2>1, <2>2, <2>3, <2>4, <2>5, <2>6
<1>9. ASSUME NEW i \in DOMAIN p.parts, NEW j \in DOMAIN p.parts[i].parts, path = <<i, j>>
      PROVE  /\ HoldsAt(p, path, value) \in BOOLEAN
             /\ PartAt(p, path).kind = "leaf" /\ HoldsAt(p, path, value) = value[path]
  <2>1. path \in PathsIn(p) /\ PartAt(p, path) = p.parts[i].parts[j]
    BY <1>1, <1>9
  <2>2. p.parts[i].parts[j].kind = "leaf"
    BY <1>0 DEF IsLeaf
  <2>3. HoldsAt(p, path, value) = value[path]
    BY <1>4, <1>9
  <2>4. QED
    BY <1>0, <2>1, <2>2, <2>3
<1>10. \/ path = <<>>
       \/ \E i \in DOMAIN p.parts : path = <<i>>
       \/ \E i \in DOMAIN p.parts : \E j \in DOMAIN p.parts[i].parts : path = <<i, j>>
  BY DEF PathsIn
<1>11. QED
  BY <1>7, <1>8, <1>9, <1>10

\* What holds of a part whenever it holds of all its parts holds of every part.
LEMMA TreeInduction ==
  ASSUME NEW p \in Policies, NEW S,
         \A path \in PathsIn(p) :
           (\A i \in DOMAIN PartAt(p, path).parts : Append(path, i) \in S) => path \in S
  PROVE  \A path \in PathsIn(p) : path \in S
<1>1. ASSUME NEW path \in PathsIn(p), Len(path) = 2
      PROVE  path \in S
  BY <1>1, PathFacts DEF IsLeaf
<1>2. \A path \in PathsIn(p) : \A i \in DOMAIN PartAt(p, path).parts :
        Append(path, i) \in PathsIn(p) /\ Len(Append(path, i)) = Len(path) + 1
  <2> TAKE path \in PathsIn(p)
  <2> TAKE i \in DOMAIN PartAt(p, path).parts
  <2>1. path \in Seq(Nat) /\ i \in 1..Parts /\ Append(path, i) \in PathsIn(p)
    BY PathFacts
  <2>2. QED
    BY <2>1
<1>3. ASSUME NEW path \in PathsIn(p), Len(path) = 1
      PROVE  path \in S
  <2>1. \A i \in DOMAIN PartAt(p, path).parts :
          Append(path, i) \in PathsIn(p) /\ Len(Append(path, i)) = 2
    <3> TAKE i \in DOMAIN PartAt(p, path).parts
    <3>1. Append(path, i) \in PathsIn(p) /\ Len(Append(path, i)) = Len(path) + 1
      BY <1>2
    <3>2. QED
      BY <1>3, <3>1
  <2>2. QED
    BY <1>1, <2>1
<1>4. ASSUME NEW path \in PathsIn(p), Len(path) = 0
      PROVE  path \in S
  <2>1. \A i \in DOMAIN PartAt(p, path).parts :
          Append(path, i) \in PathsIn(p) /\ Len(Append(path, i)) = 1
    <3> TAKE i \in DOMAIN PartAt(p, path).parts
    <3>1. Append(path, i) \in PathsIn(p) /\ Len(Append(path, i)) = Len(path) + 1
      BY <1>2
    <3>2. QED
      BY <1>4, <3>1
  <2>2. QED
    BY <1>3, <2>1
<1>5. \A path \in PathsIn(p) : Len(path) \in 0..2
  BY PathFacts
<1>6. QED
  BY <1>1, <1>3, <1>4, <1>5

(***************************************************************************)
(* Ways through a policy.                                                  *)
(***************************************************************************)

\* What goes on from a path by way of part i.
LEMMA ContinuesLonger ==
  ASSUME NEW path \in Seq(Nat), NEW way \in Seq(Nat), NEW i \in Nat
  PROVE  Continues(way, Append(path, i)) <=>
           Continues(way, path) /\ Len(path) < Len(way) /\ way[Len(path) + 1] = i
<1> DEFINE longer == Append(path, i)
<1>1. /\ Len(path) \in Nat /\ Len(way) \in Nat
      /\ Len(longer) = Len(path) + 1
      /\ \A n \in 1..Len(path) : longer[n] = path[n]
      /\ longer[Len(path) + 1] = i
  OBVIOUS
<1> HIDE DEF longer
<1>2. 1..(Len(path) + 1) = (1..Len(path)) \cup {Len(path) + 1}
  BY <1>1
<1>3. Len(path) + 1 <= Len(way) <=> Len(path) < Len(way)
  BY <1>1
<1>4. Len(path) < Len(way) => Len(path) <= Len(way)
  BY <1>1
<1>5. Continues(way, longer) <=>
        Len(path) < Len(way) /\ \A n \in 1..(Len(path) + 1) : way[n] = longer[n]
  BY <1>1, <1>3 DEF Continues
<1>6. QED
  BY <1>1, <1>2, <1>4, <1>5 DEF Continues, longer

\* To go on from a path is reflexive and transitive.
LEMMA ContinuesThrough ==
  ASSUME NEW a \in Seq(Nat), NEW b \in Seq(Nat), NEW c \in Seq(Nat)
  PROVE  /\ Continues(a, a)
         /\ Continues(c, b) /\ Continues(b, a) => Continues(c, a)
<1>1. Len(a) \in Nat /\ Len(b) \in Nat /\ Len(c) \in Nat
  OBVIOUS
<1>2. QED
  BY <1>1 DEF Continues

\* A path that goes on from one of its own length is that path.
LEMMA SamePath ==
  ASSUME NEW a \in Seq(Nat), NEW b \in Seq(Nat), Continues(b, a), Len(a) = Len(b)
  PROVE  a = b
BY DEF Continues

\* A way from a part leads on to one of its parts, or ends.
LEMMA WayOn ==
  ASSUME NEW p \in Policies, NEW path \in PathsIn(p), NEW way \in PathsIn(p),
         Continues(way, path)
  PROVE  \/ way = path
         \/ \E i \in DOMAIN PartAt(p, path).parts : Continues(way, Append(path, i))
<1>1. /\ path \in Seq(Nat) /\ way \in Seq(Nat)
      /\ Len(path) \in 0..2 /\ Len(way) \in 0..2
  BY PathFacts
<1>2. CASE Len(path) = Len(way)
  BY <1>1, <1>2, SamePath
<1>3. CASE Len(path) < Len(way)
  <2> DEFINE i == way[Len(path) + 1]
  <2>1. SUFFICES i \in DOMAIN PartAt(p, path).parts /\ i \in Nat
    BY <1>1, <1>3, ContinuesLonger
  <2>2. ASSUME NEW a \in DOMAIN p.parts, way = <<a>>
        PROVE  i \in DOMAIN PartAt(p, path).parts
    <3>1. path = <<>> /\ i = a
      BY <1>1, <1>3, <2>2, ShortPaths
    <3>2. QED
      BY <3>1, WrittenOut
  <2>3. ASSUME NEW a \in DOMAIN p.parts, NEW b \in DOMAIN p.parts[a].parts, way = <<a, b>>
        PROVE  i \in DOMAIN PartAt(p, path).parts
    <3>1. CASE Len(path) = 0
      <4>1. path = <<>> /\ i = a
        BY <1>1, <2>3, <3>1, ShortPaths
      <4>2. QED
        BY <4>1, WrittenOut
    <3>2. CASE Len(path) = 1
      <4>1. i = b /\ path[1] = a
        BY <1>1, <2>3, <3>2, ShortPaths DEF Continues
      <4>2. path = <<a>>
        BY <1>1, <3>2, <4>1
      <4>3. QED
        BY <4>1, <4>2, WrittenOut
    <3>3. Len(way) = 2
      BY <2>3, ShortPaths
    <3>4. \A n, m : n \in 0..2 /\ n < m /\ m = 2 => n = 0 \/ n = 1
      OBVIOUS
    <3>5. Len(path) = 0 \/ Len(path) = 1
      BY <1>1, <1>3, <3>3, <3>4
    <3>6. QED
      BY <3>1, <3>2, <3>5
  <2>4. Len(way) # 0
    BY <1>1, <1>3
  <2>5. way # <<>>
    BY <2>4
  <2>6. i \in DOMAIN PartAt(p, path).parts
    BY <2>2, <2>3, <2>5 DEF PathsIn
  <2>7. QED
    BY <2>6, PathFacts
<1>4. Len(path) <= Len(way)
  BY DEF Continues
<1>5. QED
  BY <1>1, <1>2, <1>3, <1>4

\* Everything about a part at a path and the parts of it.
LEMMA Branches ==
  ASSUME NEW p \in Policies, NEW path \in PathsIn(p), NEW i \in DOMAIN PartAt(p, path).parts,
         NEW way \in PathsIn(p), Continues(way, Append(path, i))
  PROVE  /\ Continues(way, path)
         /\ \A j \in DOMAIN PartAt(p, path).parts : Continues(way, Append(path, j)) => j = i
<1>1. path \in Seq(Nat) /\ way \in Seq(Nat)
  BY PathFacts
<1>2. \A j \in DOMAIN PartAt(p, path).parts : j \in Nat
  BY PathFacts
<1>3. QED
  BY <1>1, <1>2, ContinuesLonger

\* The value of a part depends on the leaves below it only.
LEMMA Locality ==
  ASSUME NEW p \in Policies,
         NEW v \in [LeavesOf(p) -> BOOLEAN], NEW w \in [LeavesOf(p) -> BOOLEAN],
         NEW path \in PathsIn(p),
         \A leaf \in LeavesOf(p) : Continues(leaf, path) => v[leaf] = w[leaf]
  PROVE  HoldsAt(p, path, v) = HoldsAt(p, path, w)
<1> DEFINE Agree(way) == \A leaf \in LeavesOf(p) : Continues(leaf, way) => v[leaf] = w[leaf]
           S == {way \in PathsIn(p) : Agree(way) => HoldsAt(p, way, v) = HoldsAt(p, way, w)}
<1>1. ASSUME NEW way \in PathsIn(p),
             \A i \in DOMAIN PartAt(p, way).parts : Append(way, i) \in S,
             Agree(way)
      PROVE  HoldsAt(p, way, v) = HoldsAt(p, way, w)
  <2> DEFINE q == PartAt(p, way)
             hv(i) == HoldsAt(p, Append(way, i), v)
             hw(i) == HoldsAt(p, Append(way, i), w)
  <2>1. \A i \in DOMAIN q.parts : hv(i) = hw(i)
    <3> TAKE i \in DOMAIN q.parts
    <3>1. \A leaf \in LeavesOf(p) : Continues(leaf, Append(way, i)) => Continues(leaf, way)
      BY Branches DEF LeavesOf
    <3>2. Agree(Append(way, i))
      BY <1>1, <3>1
    <3>3. QED
      BY <1>1, <3>2
  <2>2. q.kind = "leaf" => v[way] = w[way]
    <3>1. way \in Seq(Nat)
      BY PathFacts
    <3>2. Continues(way, way)
      BY <3>1, ContinuesThrough
    <3>3. QED
      BY <1>1, <3>2 DEF LeavesOf
  <2>3. q.kind = "not" => 1 \in DOMAIN q.parts
    BY PathFacts DEF IsLeaf, IsComposition
  <2>4. q.kind \in {"leaf", "and", "or", "not"}
    BY PathFacts DEF IsLeaf, IsComposition
  <2>5. /\ HoldsAt(p, way, v) \in BOOLEAN
        /\ q.kind = "leaf" => HoldsAt(p, way, v) = v[way]
        /\ q.kind = "and"  => (HoldsAt(p, way, v) <=> \A i \in DOMAIN q.parts : hv(i))
        /\ q.kind = "or"   => (HoldsAt(p, way, v) <=> \E i \in DOMAIN q.parts : hv(i))
        /\ q.kind = "not"  => (HoldsAt(p, way, v) <=> ~hv(1))
    BY HoldsFacts
  <2>6. /\ HoldsAt(p, way, w) \in BOOLEAN
        /\ q.kind = "leaf" => HoldsAt(p, way, w) = w[way]
        /\ q.kind = "and"  => (HoldsAt(p, way, w) <=> \A i \in DOMAIN q.parts : hw(i))
        /\ q.kind = "or"   => (HoldsAt(p, way, w) <=> \E i \in DOMAIN q.parts : hw(i))
        /\ q.kind = "not"  => (HoldsAt(p, way, w) <=> ~hw(1))
    BY HoldsFacts
  <2> HIDE DEF q, hv, hw
  <2>7. QED
    BY <2>1, <2>2, <2>3, <2>4, <2>5, <2>6
<1>2. \A way \in PathsIn(p) :
        (\A i \in DOMAIN PartAt(p, way).parts : Append(way, i) \in S) => way \in S
  BY <1>1
<1> HIDE DEF S
<1>3. path \in S
  BY <1>2, TreeInduction
<1>4. QED
  BY <1>3 DEF S

(***************************************************************************)
(* The values that leaves can have.                                        *)
(***************************************************************************)

\* Leaves of the policy answered, each once.
OnceEach(p, given) ==
  /\ \A i \in DOMAIN given : given[i].leaf \in LeavesOf(p)
  /\ \A i, j \in DOMAIN given : given[i].leaf = given[j].leaf => i = j

\* Answers that were given once each leave the leaves some value.
LEMMA SomeValue ==
  ASSUME NEW p, NEW given, OnceEach(p, given)
  PROVE  \E v : v \in ValuesOf(p, given, {})
<1> DEFINE v == [leaf \in LeavesOf(p) |->
                   \E i \in DOMAIN given : given[i].leaf = leaf /\ given[i].said = "allow"]
<1>1. v \in [LeavesOf(p) -> BOOLEAN]
  OBVIOUS
<1>2. ASSUME NEW i \in DOMAIN given
      PROVE  v[given[i].leaf] = (given[i].said = "allow")
  <2>1. given[i].leaf \in LeavesOf(p)
    BY DEF OnceEach
  <2>2. v[given[i].leaf] = \E j \in DOMAIN given : given[j].leaf = given[i].leaf /\ given[j].said = "allow"
    BY <2>1
  <2>3. \A j \in DOMAIN given : given[j].leaf = given[i].leaf => j = i
    BY DEF OnceEach
  <2> HIDE DEF v
  <2>4. QED
    BY <2>2, <2>3
<1> HIDE DEF v
<1>3. QED
  BY <1>1, <1>2 DEF ValuesOf

\* A value agrees with the answers, but for those of the leaves left out.
LEMMA ValueFacts ==
  ASSUME NEW p, NEW given, NEW except, NEW v \in ValuesOf(p, given, except)
  PROVE  /\ v \in [LeavesOf(p) -> BOOLEAN]
         /\ \A i \in DOMAIN given : \/ given[i].said = "throw" \/ given[i].leaf \in except
                                    \/ v[given[i].leaf] = (given[i].said = "allow")
         /\ except = {} => \A other : v \in ValuesOf(p, given, other)
BY DEF ValuesOf

\* A value that disregards one answer differs from one that does not in that leaf only.
LEMMA Restored ==
  ASSUME NEW p, NEW given, OnceEach(p, given), NEW leaf \in LeavesOf(p),
         NEW v \in ValuesOf(p, given, {leaf})
  PROVE  \E w \in ValuesOf(p, given, {}) :
           \A other \in LeavesOf(p) : other # leaf => w[other] = v[other]
<1>0. /\ v \in [LeavesOf(p) -> BOOLEAN]
      /\ \A i \in DOMAIN given : \/ given[i].said = "throw" \/ given[i].leaf = leaf
                                 \/ v[given[i].leaf] = (given[i].said = "allow")
  BY ValueFacts
<1>1. CASE \E i \in DOMAIN given : given[i].leaf = leaf
  <2>1. PICK k \in DOMAIN given : given[k].leaf = leaf
    BY <1>1
  <2> DEFINE said == (given[k].said = "allow")
             w == [v EXCEPT ![leaf] = said]
  <2>2. /\ w \in [LeavesOf(p) -> BOOLEAN] /\ w[leaf] = said
        /\ \A other \in LeavesOf(p) : other # leaf => w[other] = v[other]
    BY <1>0
  <2>3. \A i \in DOMAIN given : given[i].leaf = leaf => i = k
    BY <2>1 DEF OnceEach
  <2>4. \A i \in DOMAIN given : given[i].leaf \in LeavesOf(p)
    BY DEF OnceEach
  <2>5. \A i \in DOMAIN given : given[i].said = "throw" \/ w[given[i].leaf] = (given[i].said = "allow")
    <3> TAKE i \in DOMAIN given
    <3> HIDE DEF w
    <3>1. CASE given[i].leaf = leaf
      BY <2>2, <2>3, <3>1
    <3>2. CASE given[i].leaf # leaf
      BY <1>0, <2>2, <2>4, <3>2
    <3>3. QED
      BY <3>1, <3>2
  <2> HIDE DEF w
  <2>6. QED
    BY <2>2, <2>5 DEF ValuesOf
<1>2. CASE ~ \E i \in DOMAIN given : given[i].leaf = leaf
  BY <1>0, <1>2 DEF ValuesOf
<1>3. QED
  BY <1>1, <1>2

\* What is known of a part stays so when an answer is disregarded elsewhere.
LEMMA KnownElsewhere ==
  ASSUME NEW p \in Policies, NEW given, OnceEach(p, given), NEW leaf \in LeavesOf(p),
         NEW path \in PathsIn(p), NEW holds, Known(p, given, path, holds),
         ~Continues(leaf, path), NEW v \in ValuesOf(p, given, {leaf})
  PROVE  HoldsAt(p, path, v) = holds
<1>1. PICK w \in ValuesOf(p, given, {}) :
        \A other \in LeavesOf(p) : other # leaf => w[other] = v[other]
  BY Restored
<1>2. v \in [LeavesOf(p) -> BOOLEAN] /\ w \in [LeavesOf(p) -> BOOLEAN]
  BY ValueFacts
<1>3. \A other \in LeavesOf(p) : Continues(other, path) => w[other] = v[other]
  BY <1>1
<1>4. HoldsAt(p, path, w) = HoldsAt(p, path, v)
  BY <1>2, <1>3, Locality
<1>5. QED
  BY <1>1, <1>4 DEF Known

\* The parts of a part share no leaves: values chosen for each of them can be joined.
LEMMA Joined ==
  ASSUME NEW p \in Policies, NEW path \in PathsIn(p), NEW given, OnceEach(p, given), NEW except,
         NEW f \in [DOMAIN PartAt(p, path).parts -> ValuesOf(p, given, except)],
         NEW base \in ValuesOf(p, given, except)
  PROVE  \E v \in ValuesOf(p, given, except) :
           \A i \in DOMAIN PartAt(p, path).parts :
             /\ HoldsAt(p, Append(path, i), v) = HoldsAt(p, Append(path, i), f[i])
             /\ \A leaf \in LeavesOf(p) : Continues(leaf, Append(path, i)) => v[leaf] = f[i][leaf]
<1> DEFINE I == DOMAIN PartAt(p, path).parts
           below(leaf, i) == Continues(leaf, Append(path, i))
           source(leaf) == IF \E i \in I : below(leaf, i)
                           THEN f[CHOOSE i \in I : below(leaf, i)] ELSE base
           v == [leaf \in LeavesOf(p) |-> source(leaf)[leaf]]
<1>1. \A leaf \in LeavesOf(p) : source(leaf) \in ValuesOf(p, given, except)
  OBVIOUS
<1>2. \A leaf \in LeavesOf(p) : \A i \in I : below(leaf, i) => source(leaf) = f[i]
  <2> TAKE leaf \in LeavesOf(p)
  <2> TAKE i \in I
  <2> HAVE below(leaf, i)
  <2>1. \A j \in I : below(leaf, j) => j = i
    BY Branches DEF LeavesOf
  <2> HIDE DEF below, I
  <2>2. (CHOOSE j \in I : below(leaf, j)) = i
    BY <2>1
  <2>3. QED
    BY <2>2
<1> HIDE DEF source
<1>3. v \in [LeavesOf(p) -> BOOLEAN]
  BY <1>1, ValueFacts
<1>4. \A leaf \in LeavesOf(p) : v[leaf] = source(leaf)[leaf]
  OBVIOUS
<1> HIDE DEF v
<1>5. v \in ValuesOf(p, given, except)
  <2>1. ASSUME NEW i \in DOMAIN given, given[i].said # "throw", given[i].leaf \notin except
        PROVE  v[given[i].leaf] = (given[i].said = "allow")
    <3>1. given[i].leaf \in LeavesOf(p)
      BY DEF OnceEach
    <3>2. QED
      BY <1>1, <1>4, <2>1, <3>1, ValueFacts
  <2>2. QED
    BY <1>3, <2>1 DEF ValuesOf
<1>6. ASSUME NEW i \in I
      PROVE  /\ HoldsAt(p, Append(path, i), v) = HoldsAt(p, Append(path, i), f[i])
             /\ \A leaf \in LeavesOf(p) : below(leaf, i) => v[leaf] = f[i][leaf]
  <2>1. \A leaf \in LeavesOf(p) : below(leaf, i) => v[leaf] = f[i][leaf]
    BY <1>2, <1>4
  <2>2. f[i] \in [LeavesOf(p) -> BOOLEAN] /\ Append(path, i) \in PathsIn(p)
    BY ValueFacts, PathFacts
  <2>3. QED
    BY <1>3, <2>1, <2>2, Locality
<1>7. QED
  BY <1>5, <1>6

\* A part whose value the answers leave open.
Open(p, given, path) ==
  \A holds \in BOOLEAN : \E v \in ValuesOf(p, given, {}) : HoldsAt(p, path, v) = holds

\* A part of which some parts are known not to decide it, and the others open, is open.
LEMMA OpenAbove ==
  ASSUME NEW p \in Policies, NEW given, OnceEach(p, given),
         NEW path \in PathsIn(p), NEW at \in DOMAIN PartAt(p, path).parts,
         \A i \in DOMAIN PartAt(p, path).parts :
           i < at => Known(p, given, Append(path, i), PartAt(p, path).kind = "and"),
         \A i \in DOMAIN PartAt(p, path).parts : ~(i < at) => Open(p, given, Append(path, i))
  PROVE  Open(p, given, path)
<1> DEFINE q == PartAt(p, path)
           neutral == q.kind = "and"
           H(i, v) == HoldsAt(p, Append(path, i), v)
<1>1. q.kind \in {"and", "or", "not"} /\ (q.kind = "not" => DOMAIN q.parts = {1})
  <2>1. IsLeaf(q) \/ IsComposition(q)
    BY PathFacts
  <2>2. 1..1 = {1}
    OBVIOUS
  <2>3. QED
    BY <2>1, <2>2 DEF IsLeaf, IsComposition
<1>2. SUFFICES ASSUME NEW holds \in BOOLEAN
               PROVE  \E v \in ValuesOf(p, given, {}) : HoldsAt(p, path, v) = holds
  BY DEF Open
<1>3. PICK wanted \in BOOLEAN : wanted = IF q.kind = "not" THEN ~holds ELSE holds
  OBVIOUS
<1>4. PICK base : base \in ValuesOf(p, given, {})
  BY SomeValue
<1>5. ASSUME NEW i \in DOMAIN q.parts
      PROVE  \E v \in ValuesOf(p, given, {}) : /\ i = at => H(i, v) = wanted
                                               /\ i # at => H(i, v) = neutral
  <2>1. CASE i = at
    <3>1. Open(p, given, Append(path, at))
      BY PathFacts
    <3>2. QED
      BY <2>1, <3>1 DEF Open
  <2>2. CASE i # at /\ i < at
    BY <1>4, <2>2 DEF Known
  <2>3. CASE i # at /\ ~(i < at)
    BY <2>3 DEF Open
  <2>4. QED
    BY <2>1, <2>2, <2>3
<1> DEFINE f == [i \in DOMAIN q.parts |->
                   CHOOSE v \in ValuesOf(p, given, {}) : /\ i = at => H(i, v) = wanted
                                                         /\ i # at => H(i, v) = neutral]
<1>6. \A i \in DOMAIN q.parts :
        /\ f[i] \in ValuesOf(p, given, {})
        /\ i = at => H(i, f[i]) = wanted
        /\ i # at => H(i, f[i]) = neutral
  BY <1>5
<1>7. f \in [DOMAIN q.parts -> ValuesOf(p, given, {})]
  BY <1>6
<1> HIDE DEF f
<1>8. PICK v \in ValuesOf(p, given, {}) : \A i \in DOMAIN q.parts : H(i, v) = H(i, f[i])
  BY <1>4, <1>7, Joined
<1>9. v \in [LeavesOf(p) -> BOOLEAN]
  BY ValueFacts
<1>10. /\ HoldsAt(p, path, v) \in BOOLEAN
       /\ q.kind = "and"  => (HoldsAt(p, path, v) <=> \A i \in DOMAIN q.parts : H(i, v))
       /\ q.kind = "or"   => (HoldsAt(p, path, v) <=> \E i \in DOMAIN q.parts : H(i, v))
       /\ q.kind = "not"  => (HoldsAt(p, path, v) <=> ~H(1, v))
  BY <1>9, HoldsFacts
<1>11. \A i \in DOMAIN q.parts : /\ i = at => H(i, v) = wanted
                                 /\ i # at => H(i, v) = neutral
  BY <1>6, <1>8
<1>12. at \in DOMAIN q.parts
  OBVIOUS
<1> HIDE DEF q, H
<1>13. CASE q.kind = "and"
  BY <1>3, <1>10, <1>11, <1>12, <1>13
<1>14. CASE q.kind = "or"
  BY <1>3, <1>10, <1>11, <1>12, <1>14
<1>15. CASE q.kind = "not"
  BY <1>1, <1>3, <1>10, <1>11, <1>12, <1>15
<1>16. QED
  BY <1>1, <1>13, <1>14, <1>15

\* A part none of whose leaves has answered is open.
LEMMA OpenUntouched ==
  ASSUME NEW p \in Policies, NEW given, OnceEach(p, given), NEW path \in PathsIn(p),
         \A i \in DOMAIN given : ~Continues(given[i].leaf, path)
  PROVE  Open(p, given, path)
<1> DEFINE Untouched(way) == \A i \in DOMAIN given : ~Continues(given[i].leaf, way)
           S == {way \in PathsIn(p) : Untouched(way) => Open(p, given, way)}
<1>1. ASSUME NEW way \in PathsIn(p),
             \A i \in DOMAIN PartAt(p, way).parts : Append(way, i) \in S,
             Untouched(way)
      PROVE  Open(p, given, way)
  <2> DEFINE q == PartAt(p, way)
  <2>1. CASE IsLeaf(q)
    <3>1. PICK base : base \in ValuesOf(p, given, {})
      BY SomeValue
    <3>2. base \in [LeavesOf(p) -> BOOLEAN] /\ way \in LeavesOf(p)
      BY <2>1, <3>1, ValueFacts DEF LeavesOf, IsLeaf
    <3>3. \A i \in DOMAIN given : given[i].leaf # way
      <4>1. Continues(way, way)
        BY PathFacts, ContinuesThrough
      <4>2. QED
        BY <1>1, <4>1
    <3>4. ASSUME NEW holds \in BOOLEAN
          PROVE  \E v \in ValuesOf(p, given, {}) : HoldsAt(p, way, v) = holds
      <4> DEFINE v == [base EXCEPT ![way] = holds]
      <4>1. /\ v \in [LeavesOf(p) -> BOOLEAN] /\ v[way] = holds
            /\ \A other \in LeavesOf(p) : other # way => v[other] = base[other]
        BY <3>2
      <4> HIDE DEF v
      <4>2. \A i \in DOMAIN given : given[i].said = "throw" \/ v[given[i].leaf] = (given[i].said = "allow")
        BY <3>1, <3>3, <4>1, ValueFacts DEF OnceEach
      <4>3. v \in ValuesOf(p, given, {})
        BY <4>1, <4>2 DEF ValuesOf
      <4>4. HoldsAt(p, way, v) = holds
        BY <2>1, <4>1, HoldsFacts DEF IsLeaf
      <4>5. QED
        BY <4>3, <4>4
    <3>5. QED
      BY <3>4 DEF Open
  <2>2. CASE IsComposition(q)
    <3>1. 1 \in DOMAIN q.parts /\ \A i \in DOMAIN q.parts : ~(i < 1)
      BY <2>2 DEF IsComposition
    <3>2. \A i \in DOMAIN q.parts : Open(p, given, Append(way, i))
      <4> TAKE i \in DOMAIN q.parts
      <4>1. \A k \in DOMAIN given : given[k].leaf \in PathsIn(p)
        BY DEF OnceEach, LeavesOf
      <4>2. Untouched(Append(way, i))
        BY <1>1, <4>1, Branches
      <4>3. QED
        BY <1>1, <4>2
    <3>3. QED
      BY <3>1, <3>2, OpenAbove
  <2>3. QED
    BY <2>1, <2>2, PathFacts
<1>2. \A way \in PathsIn(p) :
        (\A i \in DOMAIN PartAt(p, way).parts : Append(way, i) \in S) => way \in S
  BY <1>1
<1> HIDE DEF S
<1>3. path \in S
  BY <1>2, TreeInduction
<1>4. QED
  BY <1>3 DEF S

(***************************************************************************)
(* Reasons.                                                                *)
(***************************************************************************)

\* The way from a part to a leaf is plain if the part is no notPolicy and the way on is plain.
LEMMA PlainBelow ==
  ASSUME NEW p \in Policies, NEW path \in PathsIn(p), NEW k \in DOMAIN PartAt(p, path).parts,
         NEW leaf \in LeavesOf(p), Continues(leaf, Append(path, k))
  PROVE  IsPlain(p, path, leaf) <=>
           PartAt(p, path).kind # "not" /\ IsPlain(p, Append(path, k), leaf)
<1>1. /\ path \in Seq(Nat) /\ leaf \in Seq(Nat) /\ Append(path, k) \in PathsIn(p)
      /\ leaf \in PathsIn(p)
  BY PathFacts DEF LeavesOf
<1>2. Continues(path, path) /\ Continues(leaf, path)
  BY <1>1, Branches, ContinuesThrough
<1>3. ASSUME IsPlain(p, path, leaf)
      PROVE  PartAt(p, path).kind # "not" /\ IsPlain(p, Append(path, k), leaf)
  <2>1. \A way \in PathsIn(p) : Continues(way, Append(path, k)) => Continues(way, path)
    BY Branches
  <2>2. QED
    BY <1>2, <1>3, <2>1 DEF IsPlain
<1>4. ASSUME PartAt(p, path).kind # "not", IsPlain(p, Append(path, k), leaf)
      PROVE  IsPlain(p, path, leaf)
  <2>1. ASSUME NEW way \in PathsIn(p), Continues(way, path), Continues(leaf, way), way # path
        PROVE  Continues(way, Append(path, k))
    <3>1. PICK j \in DOMAIN PartAt(p, path).parts : Continues(way, Append(path, j))
      BY <2>1, WayOn
    <3>2. way \in Seq(Nat) /\ Append(path, j) \in Seq(Nat)
      BY PathFacts
    <3>3. Continues(leaf, Append(path, j))
      BY <1>1, <2>1, <3>1, <3>2, ContinuesThrough
    <3>4. j = k
      BY <1>1, <3>3, Branches
    <3>5. QED
      BY <3>1, <3>4
  <2>2. QED
    BY <1>4, <2>1 DEF IsPlain
<1>5. QED
  BY <1>3, <1>4

\* What a cause is, by its definition.
LEMMA CauseFacts ==
  ASSUME NEW p, NEW given, NEW path, NEW i
  PROVE  i \in CausesAt(p, given, path) <=>
           /\ i \in DOMAIN given /\ given[i].said = "deny"
           /\ Continues(given[i].leaf, path) /\ IsPlain(p, path, given[i].leaf)
           /\ \E v \in ValuesOf(p, given, {given[i].leaf}) :
                v[given[i].leaf] /\ HoldsAt(p, path, v)
BY DEF CausesAt

\* The first part of an and that refuses decides it alone.
LEMMA AndCauses ==
  ASSUME NEW p \in Policies, NEW given, OnceEach(p, given), NEW path \in PathsIn(p),
         PartAt(p, path).kind = "and", NEW k \in DOMAIN PartAt(p, path).parts,
         Known(p, given, Append(path, k), FALSE),
         \A i \in DOMAIN PartAt(p, path).parts :
           /\ i < k => Known(p, given, Append(path, i), TRUE)
           /\ i # k /\ ~(i < k) => Open(p, given, Append(path, i))
  PROVE  CausesAt(p, given, path) = CausesAt(p, given, Append(path, k))
<1> DEFINE q == PartAt(p, path)
<1>1. IsComposition(q)
  BY PathFacts DEF IsLeaf
<1>2. Append(path, k) \in PathsIn(p)
  BY PathFacts
<1>3. ASSUME NEW i \in CausesAt(p, given, path)
      PROVE  i \in CausesAt(p, given, Append(path, k))
  <2> DEFINE leaf == given[i].leaf
  <2>1. /\ i \in DOMAIN given /\ given[i].said = "deny" /\ IsPlain(p, path, leaf)
        /\ \E v \in ValuesOf(p, given, {leaf}) : v[leaf] /\ HoldsAt(p, path, v)
    BY CauseFacts
  <2>2. PICK v \in ValuesOf(p, given, {leaf}) : v[leaf] /\ HoldsAt(p, path, v)
    BY <2>1
  <2>3. leaf \in LeavesOf(p)
    BY <2>1 DEF OnceEach
  <2>4. HoldsAt(p, Append(path, k), v)
    BY <2>2, ValueFacts, HoldsFacts
  <2>5. Continues(leaf, Append(path, k))
    BY <1>2, <2>3, <2>4, KnownElsewhere
  <2>6. IsPlain(p, Append(path, k), leaf)
    BY <2>1, <2>3, <2>5, PlainBelow
  <2>7. QED
    BY <2>1, <2>2, <2>4, <2>5, <2>6, CauseFacts
<1>4. ASSUME NEW i \in CausesAt(p, given, Append(path, k))
      PROVE  i \in CausesAt(p, given, path)
  <2> DEFINE leaf == given[i].leaf
  <2>1. /\ i \in DOMAIN given /\ given[i].said = "deny"
        /\ Continues(leaf, Append(path, k)) /\ IsPlain(p, Append(path, k), leaf)
        /\ \E v \in ValuesOf(p, given, {leaf}) : v[leaf] /\ HoldsAt(p, Append(path, k), v)
    BY CauseFacts
  <2>2. PICK v \in ValuesOf(p, given, {leaf}) : v[leaf] /\ HoldsAt(p, Append(path, k), v)
    BY <2>1
  <2>3. leaf \in LeavesOf(p) /\ leaf \in PathsIn(p)
    BY <2>1 DEF OnceEach, LeavesOf
  <2>4. Continues(leaf, path) /\ IsPlain(p, path, leaf)
    BY <2>1, <2>3, Branches, PlainBelow
  <2>5. ASSUME NEW j \in DOMAIN q.parts, j # k
        PROVE  \E w \in ValuesOf(p, given, {leaf}) : HoldsAt(p, Append(path, j), w)
    <3>1. CASE j < k
      <4>1. ~Continues(leaf, Append(path, j))
        BY <2>1, <2>3, <2>5, Branches
      <4>2. Append(path, j) \in PathsIn(p)
        BY PathFacts
      <4>3. Known(p, given, Append(path, j), TRUE)
        BY <3>1
      <4>4. HoldsAt(p, Append(path, j), v) = TRUE
        BY <2>2, <2>3, <4>1, <4>2, <4>3, KnownElsewhere
      <4>5. QED
        BY <2>2, <4>4
    <3>2. CASE ~(j < k)
      <4>1. PICK w \in ValuesOf(p, given, {}) : HoldsAt(p, Append(path, j), w) = TRUE
        BY <2>5, <3>2 DEF Open
      <4>2. w \in ValuesOf(p, given, {leaf})
        BY ValueFacts
      <4>3. QED
        BY <4>1, <4>2
    <3>3. QED
      BY <3>1, <3>2
  <2> DEFINE f == [j \in DOMAIN q.parts |->
                     IF j = k THEN v
                     ELSE CHOOSE w \in ValuesOf(p, given, {leaf}) : HoldsAt(p, Append(path, j), w)]
  <2>6. \A j \in DOMAIN q.parts : f[j] \in ValuesOf(p, given, {leaf}) /\ HoldsAt(p, Append(path, j), f[j])
    BY <2>2, <2>5
  <2>7. f \in [DOMAIN q.parts -> ValuesOf(p, given, {leaf})] /\ f[k] = v
    BY <2>6
  <2> HIDE DEF f
  <2>8. PICK w \in ValuesOf(p, given, {leaf}) :
          \A j \in DOMAIN q.parts :
            /\ HoldsAt(p, Append(path, j), w) = HoldsAt(p, Append(path, j), f[j])
            /\ \A other \in LeavesOf(p) : Continues(other, Append(path, j)) => w[other] = f[j][other]
    <3> DEFINE except == {leaf}
    <3>1. v \in ValuesOf(p, given, except) /\ f \in [DOMAIN q.parts -> ValuesOf(p, given, except)]
      BY <2>2, <2>7
    <3> HIDE DEF except
    <3>2. \E w \in ValuesOf(p, given, except) :
            \A j \in DOMAIN q.parts :
              /\ HoldsAt(p, Append(path, j), w) = HoldsAt(p, Append(path, j), f[j])
              /\ \A other \in LeavesOf(p) : Continues(other, Append(path, j)) => w[other] = f[j][other]
      BY <3>1, Joined
    <3>3. QED
      BY <3>2 DEF except
  <2>9. w[leaf]
    BY <2>1, <2>2, <2>3, <2>7, <2>8
  <2>10. HoldsAt(p, path, w)
    <3>1. \A j \in DOMAIN q.parts : HoldsAt(p, Append(path, j), w)
      BY <2>6, <2>8
    <3>2. QED
      BY <3>1, ValueFacts, HoldsFacts
  <2>11. QED
    BY <2>1, <2>4, <2>9, <2>10, CauseFacts
<1>5. QED
  BY <1>3, <1>4

\* Whatever stands against a part of an or that refuses stands against the or.
LEMMA OrCauses ==
  ASSUME NEW p \in Policies, NEW given, OnceEach(p, given), NEW path \in PathsIn(p),
         PartAt(p, path).kind = "or",
         \A i \in DOMAIN PartAt(p, path).parts : Known(p, given, Append(path, i), FALSE)
  PROVE  CausesAt(p, given, path) =
           UNION {CausesAt(p, given, Append(path, i)) : i \in DOMAIN PartAt(p, path).parts}
<1> DEFINE q == PartAt(p, path)
<1>1. IsComposition(q)
  BY PathFacts DEF IsLeaf
<1>2. ASSUME NEW i \in CausesAt(p, given, path)
      PROVE  \E k \in DOMAIN q.parts : i \in CausesAt(p, given, Append(path, k))
  <2> DEFINE leaf == given[i].leaf
  <2>1. /\ i \in DOMAIN given /\ given[i].said = "deny" /\ IsPlain(p, path, leaf)
        /\ \E v \in ValuesOf(p, given, {leaf}) : v[leaf] /\ HoldsAt(p, path, v)
    BY CauseFacts
  <2>2. PICK v \in ValuesOf(p, given, {leaf}) : v[leaf] /\ HoldsAt(p, path, v)
    BY <2>1
  <2>3. leaf \in LeavesOf(p)
    BY <2>1 DEF OnceEach
  <2>4. PICK k \in DOMAIN q.parts : HoldsAt(p, Append(path, k), v)
    BY <2>2, ValueFacts, HoldsFacts
  <2>5. Append(path, k) \in PathsIn(p)
    BY PathFacts
  <2>6. Continues(leaf, Append(path, k))
    BY <2>3, <2>4, <2>5, KnownElsewhere
  <2>7. IsPlain(p, Append(path, k), leaf)
    BY <2>1, <2>3, <2>6, PlainBelow
  <2>8. QED
    BY <2>1, <2>2, <2>4, <2>6, <2>7, CauseFacts
<1>3. ASSUME NEW k \in DOMAIN q.parts, NEW i \in CausesAt(p, given, Append(path, k))
      PROVE  i \in CausesAt(p, given, path)
  <2> DEFINE leaf == given[i].leaf
  <2>1. /\ i \in DOMAIN given /\ given[i].said = "deny"
        /\ Continues(leaf, Append(path, k)) /\ IsPlain(p, Append(path, k), leaf)
        /\ \E v \in ValuesOf(p, given, {leaf}) : v[leaf] /\ HoldsAt(p, Append(path, k), v)
    BY CauseFacts
  <2>2. PICK v \in ValuesOf(p, given, {leaf}) : v[leaf] /\ HoldsAt(p, Append(path, k), v)
    BY <2>1
  <2>3. leaf \in LeavesOf(p) /\ leaf \in PathsIn(p)
    BY <2>1 DEF OnceEach, LeavesOf
  <2>4. Continues(leaf, path) /\ IsPlain(p, path, leaf)
    BY <2>1, <2>3, Branches, PlainBelow
  <2>5. HoldsAt(p, path, v)
    BY <2>2, ValueFacts, HoldsFacts
  <2>6. QED
    BY <2>1, <2>2, <2>4, <2>5, CauseFacts
<1>4. QED
  BY <1>2, <1>3

\* A notPolicy passes no reason on.
LEMMA NotCauses ==
  ASSUME NEW p \in Policies, NEW given, OnceEach(p, given), NEW path \in PathsIn(p),
         PartAt(p, path).kind = "not"
  PROVE  CausesAt(p, given, path) = {}
<1>1. Continues(path, path)
  BY PathFacts, ContinuesThrough
<1>2. QED
  BY <1>1, CauseFacts DEF IsPlain

(***************************************************************************)
(* The order of the leaves, and a further answer.                          *)
(***************************************************************************)

\* To turn off earlier is a strict order, and holds for all that goes on from the later path.
LEMMA PrecedesFacts ==
  ASSUME NEW a \in Seq(Nat), NEW b \in Seq(Nat), Precedes(a, b)
  PROVE  /\ ~Precedes(b, a) /\ ~Continues(a, b) /\ ~Continues(b, a) /\ a # b
         /\ \A c \in Seq(Nat) : Continues(c, b) => Precedes(a, c)
<1>1. PICK n \in (1..Len(a)) \cap (1..Len(b)) :
        a[n] < b[n] /\ \A m \in 1..(n - 1) : a[m] = b[m]
  BY DEF Precedes
<1>2. n \in Nat /\ a[n] \in Nat /\ b[n] \in Nat /\ Len(a) \in Nat /\ Len(b) \in Nat
  BY <1>1
<1>3. a[n] # b[n] /\ ~(b[n] < a[n])
  BY <1>1, <1>2
<1>4. ~Precedes(b, a)
  <2>1. SUFFICES ASSUME NEW k \in (1..Len(b)) \cap (1..Len(a)), b[k] < a[k],
                        \A m \in 1..(k - 1) : b[m] = a[m]
                 PROVE  FALSE
    BY DEF Precedes
  <2>2. k \in Nat /\ b[k] \in Nat /\ a[k] \in Nat
    BY <1>2, <2>1
  <2>3. b[k] # a[k]
    BY <2>1, <2>2
  <2>4. CASE k < n
    BY <1>1, <1>2, <2>2, <2>3, <2>4
  <2>5. CASE n < k
    BY <1>1, <1>2, <1>3, <2>1, <2>2, <2>5
  <2>6. CASE n = k
    BY <1>3, <2>1, <2>6
  <2>7. QED
    BY <1>2, <2>2, <2>4, <2>5, <2>6
<1>5. ~Continues(a, b) /\ ~Continues(b, a)
  BY <1>1, <1>3 DEF Continues
<1>6. ASSUME NEW c \in Seq(Nat), Continues(c, b)
      PROVE  Precedes(a, c)
  <2>1. Len(c) \in Nat /\ Len(b) <= Len(c) /\ \A m \in 1..Len(b) : c[m] = b[m]
    BY <1>6 DEF Continues
  <2>2. n \in 1..Len(c) /\ c[n] = b[n] /\ \A m \in 1..(n - 1) : m \in 1..Len(b)
    BY <1>1, <1>2, <2>1
  <2>3. \A m \in 1..(n - 1) : a[m] = c[m]
    BY <1>1, <2>1, <2>2
  <2>4. QED
    BY <1>1, <2>2, <2>3 DEF Precedes
<1>7. QED
  BY <1>3, <1>4, <1>5, <1>6

\* What lies below one part, or before it, turns off before all later parts.
LEMMA EarlierPart ==
  ASSUME NEW path \in Seq(Nat), NEW i \in Nat, NEW j \in Nat, i < j, NEW a \in Seq(Nat)
  PROVE  /\ Continues(a, Append(path, i)) => Precedes(a, Append(path, j))
         /\ Precedes(a, Append(path, i)) => Precedes(a, Append(path, j))
<1> DEFINE n == Len(path) + 1
<1>1. /\ Len(path) \in Nat /\ n \in Nat /\ Len(a) \in Nat /\ \A m : m \in 1..(n - 1) <=> m \in 1..Len(path)
      /\ n \in 1..n
      /\ \A m \in 1..n : m = n \/ m \in 1..Len(path)
  OBVIOUS
<1>2. \A k \in Nat : /\ Len(Append(path, k)) = n /\ Append(path, k)[n] = k
                     /\ \A m \in 1..Len(path) : Append(path, k)[m] = path[m]
  OBVIOUS
<1> HIDE DEF n
<1>3. ASSUME Continues(a, Append(path, i))
      PROVE  Precedes(a, Append(path, j))
  <2>1. Len(path) < Len(a) /\ a[n] = i /\ \A m \in 1..Len(path) : a[m] = path[m]
    <3>1. Continues(a, path) /\ Len(path) < Len(a) /\ a[Len(path) + 1] = i
      BY <1>3, ContinuesLonger
    <3>2. QED
      BY <3>1 DEF Continues, n
  <2>2. n \in (1..Len(a)) \cap (1..Len(Append(path, j)))
    BY <1>1, <1>2, <2>1 DEF n
  <2>3. \A m \in 1..(n - 1) : a[m] = Append(path, j)[m]
    BY <1>1, <1>2, <2>1
  <2>4. a[n] < Append(path, j)[n]
    BY <1>2, <2>1
  <2>5. QED
    BY <2>2, <2>3, <2>4 DEF Precedes
<1>4. ASSUME Precedes(a, Append(path, i))
      PROVE  Precedes(a, Append(path, j))
  <2>1. PICK k \in (1..Len(a)) \cap (1..n) :
          a[k] < Append(path, i)[k] /\ \A m \in 1..(k - 1) : a[m] = Append(path, i)[m]
    BY <1>2, <1>4 DEF Precedes
  <2>2. k \in Nat /\ a[k] \in Nat /\ k <= n
    BY <1>1, <2>1
  <2>3. \A m \in 1..(k - 1) : m \in 1..Len(path)
    BY <1>1, <2>2
  <2>4. \A m \in 1..(k - 1) : a[m] = Append(path, j)[m]
    BY <1>2, <2>1, <2>3
  <2>5. a[k] < Append(path, j)[k]
    <3>1. CASE k = n
      BY <1>2, <2>1, <2>2, <3>1
    <3>2. CASE k \in 1..Len(path)
      BY <1>2, <2>1, <3>2
    <3>3. QED
      BY <1>1, <2>1, <3>1, <3>2
  <2>6. QED
    BY <1>2, <2>1, <2>4, <2>5 DEF Precedes
<1>5. QED
  BY <1>3, <1>4

\* One answer more: the earlier ones keep their places.
LEMMA Further ==
  ASSUME NEW S, NEW given \in Seq(S), NEW a \in S
  PROVE  /\ Append(given, a) \in Seq(S)
         /\ Len(given) \in Nat /\ DOMAIN given = 1..Len(given)
         /\ Len(given) + 1 \notin DOMAIN given
         /\ DOMAIN Append(given, a) = DOMAIN given \cup {Len(given) + 1}
         /\ \A i \in DOMAIN given : Append(given, a)[i] = given[i] /\ i < Len(given) + 1
         /\ Append(given, a)[Len(given) + 1] = a
<1>1. /\ Append(given, a) \in Seq(S)
      /\ Len(given) \in Nat /\ DOMAIN given = 1..Len(given)
      /\ DOMAIN Append(given, a) = 1..(Len(given) + 1)
      /\ \A i \in 1..Len(given) : Append(given, a)[i] = given[i]
      /\ Append(given, a)[Len(given) + 1] = a
  OBVIOUS
<1>2. /\ 1..(Len(given) + 1) = (1..Len(given)) \cup {Len(given) + 1}
      /\ Len(given) + 1 \notin 1..Len(given)
      /\ \A i \in 1..Len(given) : i < Len(given) + 1
  BY <1>1
<1>3. QED
  BY <1>1, <1>2

\* What is known stays known when another leaf answers.
LEMMA KnownStays ==
  ASSUME NEW S, NEW given \in Seq(S), NEW a \in S, NEW p, NEW path, NEW holds,
         Known(p, given, path, holds)
  PROVE  Known(p, Append(given, a), path, holds)
<1>1. \A v \in ValuesOf(p, Append(given, a), {}) : v \in ValuesOf(p, given, {})
  BY Further DEF ValuesOf
<1>2. QED
  BY <1>1 DEF Known

\* Who answers elsewhere changes nothing about the causes at a path.
LEMMA CausesStay ==
  ASSUME NEW S, NEW given \in Seq(S), NEW a \in S, NEW p \in Policies,
         OnceEach(p, Append(given, a)), NEW path \in PathsIn(p), ~Continues(a.leaf, path)
  PROVE  CausesAt(p, Append(given, a), path) = CausesAt(p, given, path)
<1> DEFINE n == Len(given) + 1
           more == Append(given, a)
<1>1. /\ DOMAIN more = DOMAIN given \cup {n} /\ n \notin DOMAIN given
      /\ \A i \in DOMAIN given : more[i] = given[i]
      /\ more[n] = a
  BY Further
<1> HIDE DEF n, more
<1>2. /\ OnceEach(p, more)
      /\ a.leaf \in LeavesOf(p) /\ \A i \in DOMAIN given : given[i].leaf # a.leaf
      /\ \A i \in DOMAIN given : given[i].leaf \in LeavesOf(p)
  <2>1. OnceEach(p, more)
    BY DEF more
  <2>2. QED
    BY <1>1, <2>1 DEF OnceEach
<1>3. ASSUME NEW i \in CausesAt(p, more, path)
      PROVE  i \in CausesAt(p, given, path)
  <2>1. /\ i \in DOMAIN more /\ more[i].said = "deny"
        /\ Continues(more[i].leaf, path) /\ IsPlain(p, path, more[i].leaf)
        /\ \E v \in ValuesOf(p, more, {more[i].leaf}) : v[more[i].leaf] /\ HoldsAt(p, path, v)
    BY CauseFacts
  <2>2. i \in DOMAIN given /\ more[i] = given[i]
    BY <1>1, <2>1
  <2>3. \A leaf : \A v \in ValuesOf(p, more, {leaf}) : v \in ValuesOf(p, given, {leaf})
    BY <1>1 DEF ValuesOf
  <2>4. QED
    BY <2>1, <2>2, <2>3, CauseFacts
<1>4. ASSUME NEW i \in CausesAt(p, given, path)
      PROVE  i \in CausesAt(p, more, path)
  <2> DEFINE leaf == given[i].leaf
  <2>1. /\ i \in DOMAIN given /\ given[i].said = "deny"
        /\ Continues(leaf, path) /\ IsPlain(p, path, leaf)
        /\ \E v \in ValuesOf(p, given, {leaf}) : v[leaf] /\ HoldsAt(p, path, v)
    BY CauseFacts
  <2>2. PICK v \in ValuesOf(p, given, {leaf}) : v[leaf] /\ HoldsAt(p, path, v)
    BY <2>1
  <2>3. /\ v \in [LeavesOf(p) -> BOOLEAN]
        /\ \A j \in DOMAIN given : \/ given[j].said = "throw" \/ given[j].leaf = leaf
                                   \/ v[given[j].leaf] = (given[j].said = "allow")
    BY ValueFacts
  <2> DEFINE said == (a.said = "allow")
             w == [v EXCEPT ![a.leaf] = said]
  <2>4. /\ w \in [LeavesOf(p) -> BOOLEAN] /\ w[a.leaf] = said
        /\ \A other \in LeavesOf(p) : other # a.leaf => w[other] = v[other]
    BY <1>2, <2>3
  <2> HIDE DEF w
  <2>5. w \in ValuesOf(p, more, {leaf})
    <3>1. ASSUME NEW j \in DOMAIN more, more[j].said # "throw", more[j].leaf # leaf
          PROVE  w[more[j].leaf] = (more[j].said = "allow")
      <4>1. CASE j = n
        BY <1>1, <2>4, <4>1
      <4>2. CASE j \in DOMAIN given
        BY <1>1, <1>2, <2>3, <2>4, <3>1, <4>2
      <4>3. QED
        BY <1>1, <4>1, <4>2
    <3>2. QED
      BY <2>4, <3>1 DEF ValuesOf
  <2>6. leaf \in LeavesOf(p) /\ w[leaf] = v[leaf]
    BY <1>2, <2>1, <2>4
  <2>7. HoldsAt(p, path, w) = HoldsAt(p, path, v)
    <3>1. \A other \in LeavesOf(p) : Continues(other, path) => w[other] = v[other]
      BY <2>4
    <3>2. QED
      BY <2>3, <2>4, <3>1, Locality
  <2>8. i \in DOMAIN more /\ more[i] = given[i]
    BY <1>1, <2>1
  <2>9. QED
    BY <2>1, <2>2, <2>5, <2>6, <2>7, <2>8, CauseFacts
<1>5. CausesAt(p, more, path) = CausesAt(p, given, path)
  BY <1>3, <1>4
<1>6. QED
  BY <1>5 DEF more

\* A set of causes has a first one.
LEMMA LeastCause ==
  ASSUME NEW C \in SUBSET Nat, C # {}
  PROVE  Min(C) \in C /\ \A c \in C : Min(C) <= c
BY SmallestNat DEF Min

\* Another answer does not change the first reason among earlier ones.
LEMMA FirstStays ==
  ASSUME NEW S, NEW given \in Seq(S), NEW a \in S, NEW C \in SUBSET DOMAIN given
  PROVE  FirstReason(Append(given, a), C) = FirstReason(given, C)
<1>1. CASE C # {}
  <2>1. C \in SUBSET Nat
    OBVIOUS
  <2>2. Min(C) \in DOMAIN given
    BY <1>1, <2>1, LeastCause
  <2>3. Append(given, a)[Min(C)] = given[Min(C)]
    BY <2>2, Further
  <2>4. QED
    BY <1>1, <2>3 DEF FirstReason
<1>2. QED
  BY <1>1 DEF FirstReason

\* The first reason of earlier and later causes is that of the earlier ones, if there is one.
LEMMA FirstOfTwo ==
  ASSUME NEW given, NEW C \in SUBSET Nat, NEW D \in SUBSET Nat,
         \A c \in C, d \in D : c < d
  PROVE  FirstReason(given, C \cup D) =
           IF FirstReason(given, C) = {} THEN FirstReason(given, D) ELSE FirstReason(given, C)
<1>1. CASE C = {}
  BY <1>1 DEF FirstReason
<1>2. CASE C # {}
  <2>1. Min(C) \in C /\ \A c \in C : Min(C) <= c
    BY <1>2, LeastCause
  <2>2. Min(C \cup D) \in C \cup D /\ \A c \in C \cup D : Min(C \cup D) <= c
    BY <1>2, LeastCause
  <2>3. Min(C) \in Nat /\ Min(C \cup D) \in Nat
    BY <2>1, <2>2
  <2>4. Min(C \cup D) = Min(C)
    <3>1. Min(C \cup D) <= Min(C)
      BY <2>1, <2>2
    <3>2. Min(C) <= Min(C \cup D)
      BY <2>1, <2>2, <2>3, <3>1
    <3>3. QED
      BY <2>3, <3>1, <3>2
  <2>5. QED
    BY <1>2, <2>4 DEF FirstReason
<1>3. QED
  BY <1>1, <1>2

(***************************************************************************)
(* Evaluations under way.                                                  *)
(***************************************************************************)

\* The paths of a policy lie within the bounds.
LEMMA PathsAreTyped ==
  ASSUME NEW p \in Policies, NEW path \in PathsIn(p)
  PROVE  path \in Paths
<1>1. \A i \in DOMAIN p.parts : /\ i \in 1..Parts
                                /\ \A j \in DOMAIN p.parts[i].parts : j \in 1..Parts
  BY LevelFacts, PartsAssumption DEF IsLeaf, IsComposition
<1>2. <<>> \in [1..0 -> 1..Parts]
  OBVIOUS
<1>3. \A i \in 1..Parts : <<i>> \in [1..1 -> 1..Parts]
  OBVIOUS
<1>4. \A i, j \in 1..Parts : <<i, j>> \in [1..2 -> 1..Parts]
  OBVIOUS
<1>5. \/ path \in [1..0 -> 1..Parts] \/ path \in [1..1 -> 1..Parts]
      \/ path \in [1..2 -> 1..Parts]
  <2>1. ASSUME NEW i \in DOMAIN p.parts, path = <<i>>
        PROVE  path \in [1..1 -> 1..Parts]
    BY <1>1, <1>3, <2>1
  <2>2. ASSUME NEW i \in DOMAIN p.parts, NEW j \in DOMAIN p.parts[i].parts, path = <<i, j>>
        PROVE  path \in [1..2 -> 1..Parts]
    BY <1>1, <1>4, <2>2
  <2>3. \/ path = <<>>
        \/ \E i \in DOMAIN p.parts : path = <<i>>
        \/ \E i \in DOMAIN p.parts : \E j \in DOMAIN p.parts[i].parts : path = <<i, j>>
    BY DEF PathsIn
  <2>4. path = <<>> => path \in [1..0 -> 1..Parts]
    BY <1>2
  <2>5. QED
    BY <2>1, <2>2, <2>3, <2>4
<1>6. QED
  BY <1>5 DEF Paths

\* The path to an evaluation goes on from those to the evaluations that await it.
LEMMA WayFacts ==
  ASSUME NEW s \in Seq(Evaluation), NEW k \in 1..(Len(s) + 1)
  PROVE  /\ WayTo(s, k) \in Seq(Nat) /\ Len(WayTo(s, k)) = k - 1
         /\ k = 1 => WayTo(s, k) = <<>>
         /\ k # Len(s) + 1 => WayTo(s, k + 1) = Append(WayTo(s, k), s[k].at)
         /\ \A m \in 1..k : Continues(WayTo(s, k), WayTo(s, m))
<1>1. \A m \in 1..Len(s) : s[m].at \in Nat
  <2>1. \A frame \in Evaluation : frame.at \in 1..Parts
    BY DEF Evaluation
  <2>2. 1..Parts \subseteq Nat
    BY PartsAssumption
  <2>3. \A m \in 1..Len(s) : s[m] \in Evaluation
    OBVIOUS
  <2>4. QED
    BY <2>1, <2>2, <2>3
<1>2. Len(s) \in Nat /\ k \in Nat
  OBVIOUS
<1>3. \A m \in 1..(Len(s) + 1) : WayTo(s, m) \in Seq(Nat) /\ Len(WayTo(s, m)) = m - 1
  BY <1>1, <1>2 DEF WayTo
<1>4. k = 1 => WayTo(s, k) = <<>>
  BY DEF WayTo
<1>5. ASSUME k # Len(s) + 1
      PROVE  WayTo(s, k + 1) = Append(WayTo(s, k), s[k].at)
  <2>1. k \in 1..Len(s) /\ k + 1 \in 1..(Len(s) + 1) /\ (k + 1) - 1 = k
    BY <1>2, <1>5
  <2>2. s[k].at \in Nat
    BY <1>1, <2>1
  <2> DEFINE a == WayTo(s, k)
             b == WayTo(s, k + 1)
  <2>3. a \in Seq(Nat) /\ Len(a) = k - 1
    BY <1>3
  <2>4. b \in Seq(Nat) /\ Len(b) = k
    BY <1>3, <2>1
  <2>5. \A m \in 1..(k - 1) : a[m] = s[m].at
    BY DEF WayTo
  <2>6. \A m \in 1..k : b[m] = s[m].at
    BY <2>1 DEF WayTo
  <2> HIDE DEF a, b
  <2>7. Append(a, s[k].at) \in Seq(Nat) /\ Len(Append(a, s[k].at)) = k
    BY <1>2, <2>2, <2>3
  <2>8. \A m \in 1..k : Append(a, s[k].at)[m] = s[m].at
    BY <1>2, <2>2, <2>3, <2>5
  <2>9. b = Append(a, s[k].at)
    BY <2>4, <2>6, <2>7, <2>8
  <2>10. QED
    BY <2>9 DEF a, b
<1>6. ASSUME NEW m \in 1..k
      PROVE  Continues(WayTo(s, k), WayTo(s, m))
  <2>1. m \in 1..(Len(s) + 1) /\ m - 1 <= k - 1 /\ \A n \in 1..(m - 1) : n \in 1..(k - 1)
    BY <1>2
  <2>2. \A n \in 1..(m - 1) : WayTo(s, k)[n] = WayTo(s, m)[n]
    BY <2>1 DEF WayTo
  <2>3. QED
    BY <1>3, <2>1, <2>2 DEF Continues
<1>7. QED
  BY <1>3, <1>4, <1>5, <1>6

\* A stack without its last evaluation.
LEMMA FrontFacts ==
  ASSUME NEW s \in Seq(Evaluation), s # <<>>
  PROVE  /\ Len(s) \in Nat \ {0} /\ DOMAIN s = 1..Len(s)
         /\ Last(s) = s[Len(s)] /\ Last(s) \in Evaluation
         /\ Front(s) \in Seq(Evaluation) /\ Len(Front(s)) = Len(s) - 1
         /\ DOMAIN Front(s) = 1..(Len(s) - 1)
         /\ Len(s) - 1 \in Nat
         /\ \A k \in 1..(Len(s) - 1) : Front(s)[k] = s[k] /\ k \in DOMAIN s
<1>1. /\ Len(s) \in Nat \ {0} /\ DOMAIN s = 1..Len(s)
      /\ Last(s) = s[Len(s)] /\ Last(s) \in Evaluation
  BY DEF Last
<1>2. /\ Front(s) \in Seq(Evaluation) /\ Len(Front(s)) = Len(s) - 1
      /\ \A k \in 1..(Len(s) - 1) : Front(s)[k] = s[k]
  BY WithoutLast DEF Front
<1>3. DOMAIN Front(s) = 1..(Len(s) - 1)
  BY <1>2
<1>4. QED
  BY <1>1, <1>2, <1>3

\* The evaluations under way, seen from the last one.
LEMMA StackFacts ==
  ASSUME PolicyTypeOK, FramesAreRight, stack # <<>>
  PROVE  /\ Here \in PathsIn(policy) /\ Top \in Evaluation
         /\ FrameIsRight(policy, answers, Here, Top)
         /\ Awaited \in PathsIn(policy) /\ PartAt(policy, Awaited) \in Policies
         /\ Top.of = PartAt(policy, Here) /\ Top.of \in Policies
         /\ Top.of.kind = "leaf" => Awaited = Here
         /\ Top.of.kind # "leaf" =>
              /\ IsComposition(Top.of) /\ Top.at \in DOMAIN Top.of.parts
              /\ Awaited = Append(Here, Top.at)
              /\ PartAt(policy, Awaited) = Top.of.parts[Top.at]
<1>1. /\ Len(stack) \in Nat \ {0} /\ DOMAIN stack = 1..Len(stack)
      /\ Top = stack[Len(stack)] /\ Top \in Evaluation
  BY FrontFacts DEF PolicyTypeOK, Top
<1>2. FrameIsRight(policy, answers, Here, Top)
  BY <1>1 DEF FramesAreRight, Here
<1>3. policy \in Policies
  BY DEF PolicyTypeOK
<1>4. Here \in PathsIn(policy) /\ Top.of = PartAt(policy, Here)
  BY <1>2 DEF FrameIsRight
<1>5. Top.of \in Policies /\ (IsLeaf(Top.of) \/ IsComposition(Top.of))
  BY <1>3, <1>4, PathFacts
<1>6. CASE Top.of.kind = "leaf"
  <2>1. Awaited = Here
    BY <1>6 DEF Awaited
  <2>2. QED
    BY <1>1, <1>2, <1>4, <1>5, <1>6, <2>1
<1>7. CASE Top.of.kind # "leaf"
  <2>1. Awaited = Append(Here, Top.at)
    BY <1>7 DEF Awaited
  <2>2. IsComposition(Top.of) /\ Top.at \in DOMAIN Top.of.parts
    BY <1>2, <1>5, <1>7 DEF FrameIsRight, IsLeaf
  <2>3. Awaited \in PathsIn(policy) /\ PartAt(policy, Awaited) = Top.of.parts[Top.at]
    BY <1>3, <1>4, <2>1, <2>2, PathFacts
  <2>4. PartAt(policy, Awaited) \in Policies
    BY <1>3, <2>3, PathFacts
  <2>5. QED
    BY <1>1, <1>2, <1>4, <1>5, <1>7, <2>1, <2>2, <2>3, <2>4
<1>8. QED
  BY <1>6, <1>7

\* Leaves that are asked in their order are asked once each.
LEMMA AnsweredOnce ==
  ASSUME PolicyTypeOK, AskedInOrder
  PROVE  OnceEach(policy, answers)
<1>1. \A i \in DOMAIN answers : answers[i].leaf \in Seq(Nat) /\ i \in Nat
  BY PathFacts DEF PolicyTypeOK, AskedInOrder, LeavesOf
<1>2. \A i, j \in DOMAIN answers : i < j => answers[i].leaf # answers[j].leaf
  BY <1>1, PrecedesFacts DEF AskedInOrder
<1>3. \A i, j \in DOMAIN answers : i < j \/ j < i \/ i = j
  BY <1>1
<1>4. QED
  BY <1>2, <1>3 DEF OnceEach, AskedInOrder

\* What turns off before a part turns off before its composition, or lies below it.
LEMMA TurnsOff ==
  ASSUME NEW path \in Seq(Nat), NEW i \in Nat, NEW a \in Seq(Nat), Precedes(a, Append(path, i))
  PROVE  Precedes(a, path) \/ Continues(a, path)
<1> DEFINE longer == Append(path, i)
<1>1. /\ Len(path) \in Nat /\ Len(a) \in Nat /\ Len(longer) = Len(path) + 1
      /\ \A m \in 1..Len(path) : longer[m] = path[m]
  OBVIOUS
<1> HIDE DEF longer
<1>2. PICK k \in (1..Len(a)) \cap (1..Len(longer)) :
        a[k] < longer[k] /\ \A m \in 1..(k - 1) : a[m] = longer[m]
  BY DEF Precedes, longer
<1>3. k \in Nat
  OBVIOUS
<1>4. CASE k <= Len(path)
  <2>1. k \in (1..Len(a)) \cap (1..Len(path)) /\ \A m \in 1..(k - 1) : m \in 1..Len(path)
    BY <1>1, <1>3, <1>4
  <2>2. QED
    BY <1>1, <1>2, <2>1 DEF Precedes
<1>5. CASE k = Len(path) + 1
  <2>1. Len(path) <= Len(a) /\ k - 1 = Len(path)
    BY <1>1, <1>3, <1>5
  <2>2. QED
    BY <1>1, <1>2, <2>1 DEF Continues
<1>6. QED
  BY <1>1, <1>2, <1>3, <1>4, <1>5

(***************************************************************************)
(* The steps.                                                              *)
(***************************************************************************)

\* A number and the one before it.
LEMMA OneLess ==
  ASSUME NEW n \in Nat \ {0}
  PROVE  /\ n - 1 \in Nat /\ (n - 1) + 1 = n /\ n \in 1..n /\ n \in 1..(n + 1)
         /\ n # 1 => /\ n - 1 \in 1..n /\ n - 1 \in 1..(n - 1) /\ n - 1 \in 1..(n + 1)
                     /\ n - 1 # n + 1 /\ n - 1 # 0
         /\ \A k \in 1..n : k # n => k \in 1..(n - 1)
         /\ \A k \in 1..(n - 1) : k \in 1..n /\ k # n /\ k + 1 \in 1..n /\ k \in 1..(n + 1) /\ k # n + 1
OBVIOUS

\* What every step keeps but for the stack, the result and the answers.
Undecided ==
  /\ policy' = policy
  /\ outcome' = outcome /\ outcome.verdict = "open"

\* The innermost evaluation ends with a result that is right.
LEMMA Returning ==
  ASSUME EvaluationInv, stack # <<>>, Undecided,
         NEW result \in Result, Return(result),
         answers' \in Seq([leaf : Paths, said : Answers]), AskedInOrder',
         \A i \in DOMAIN answers' : answers'[i].said # "throw",
         \A i \in DOMAIN answers' :
           Precedes(answers'[i].leaf, Here) \/ Continues(answers'[i].leaf, Here),
         \A k \in 1..(Len(stack) - 1) :
           FrameIsRight(policy, answers', WayTo(stack, k), stack[k]),
         Known(policy, answers', Here, result.allowed),
         result.reason = IF result.allowed THEN {}
                         ELSE FirstReason(answers', CausesAt(policy, answers', Here))
  PROVE  EvaluationInv'
<1>1. PolicyTypeOK /\ FramesAreRight
  BY DEF EvaluationInv
<1>2. /\ policy' = policy /\ outcome' = outcome /\ outcome.verdict = "open"
      /\ stack' = Front(stack) /\ returned' = {result}
  BY DEF Undecided, Return
<1>3. /\ Len(stack) \in Nat \ {0} /\ DOMAIN stack = 1..Len(stack)
      /\ stack' \in Seq(Evaluation) /\ Len(stack') = Len(stack) - 1
      /\ DOMAIN stack' = 1..(Len(stack) - 1)
      /\ Len(stack) - 1 \in Nat
      /\ \A k \in 1..(Len(stack) - 1) : stack'[k] = stack[k] /\ k \in DOMAIN stack
  BY <1>1, <1>2, FrontFacts DEF PolicyTypeOK
<1>4. PolicyTypeOK'
  BY <1>1, <1>2, <1>3 DEF PolicyTypeOK
<1>5. \A k \in 1..Len(stack) : WayTo(stack', k) = WayTo(stack, k)
  <2> TAKE k \in 1..Len(stack)
  <2>1. k \in Nat /\ \A m \in 1..(k - 1) : m \in 1..(Len(stack) - 1)
    BY <1>3
  <2>2. \A m \in 1..(k - 1) : stack'[m] = stack[m]
    BY <1>3, <2>1
  <2>3. QED
    BY <2>1, <2>2 DEF WayTo
<1>6. \A k \in 1..(Len(stack) - 1) : stack[k].of.kind # "leaf" /\ k \in 1..Len(stack)
  BY <1>1, <1>3 DEF FramesAreRight
<1>7. FramesAreRight'
  <2>1. \A k \in DOMAIN stack' : FrameIsRight(policy', answers', WayTo(stack', k), stack'[k])
    BY <1>2, <1>3, <1>5, <1>6
  <2>2. \A k \in 1..(Len(stack') - 1) : stack'[k].of.kind # "leaf"
    BY <1>3, <1>6
  <2>3. QED
    BY <2>1, <2>2 DEF FramesAreRight
<1>8. Awaited' = Here /\ (stack' # <<>> => Top'.of.kind # "leaf")
  <2>1. CASE Len(stack) = 1
    <3>1. stack' = <<>>
      BY <1>3, <2>1
    <3>2. Here = <<>>
      BY <1>1, <2>1, WayFacts DEF Here, PolicyTypeOK
    <3>3. QED
      BY <3>1, <3>2 DEF Awaited
  <2>2. CASE Len(stack) # 1
    <3> DEFINE n == Len(stack) - 1
    <3>1. /\ n \in 1..Len(stack) /\ n # Len(stack) + 1 /\ n + 1 = Len(stack)
          /\ n \in 1..(Len(stack) - 1) /\ n \in 1..(Len(stack) + 1) /\ n # 0
      BY <1>3, <2>2, OneLess
    <3>2. stack' # <<>>
      <4>1. Len(stack') # 0
        BY <1>3, <3>1
      <4>2. QED
        BY <4>1
    <3>3. Top' = stack[n] /\ Top'.of.kind # "leaf"
      BY <1>3, <1>6, <3>1 DEF Top, Last
    <3>4. Here' = WayTo(stack, n)
      BY <1>3, <1>5, <3>1 DEF Here
    <3>5. WayTo(stack, n + 1) = Append(WayTo(stack, n), stack[n].at)
      <4> HIDE DEF n
      <4>1. QED
        BY <1>1, <3>1, WayFacts DEF PolicyTypeOK
    <3>6. Here = Append(WayTo(stack, n), stack[n].at)
      BY <3>1, <3>5 DEF Here
    <3>7. Awaited' = Append(Here', Top'.at)
      BY <3>2, <3>3 DEF Awaited
    <3>8. QED
      BY <3>3, <3>4, <3>6, <3>7
  <2>3. QED
    BY <2>1, <2>2
<1>9. AskedSoFar'
  <2>1. returned' # {}
    BY <1>2
  <2>2. QED
    BY <1>8, <2>1 DEF AskedSoFar
<1>10. ReturnedIsRight'
  <2>1. \A r \in returned' : r = result
    BY <1>2
  <2>2. Known(policy', answers', Awaited', result.allowed)
    BY <1>2, <1>8
  <2>3. result.reason = IF result.allowed THEN {}
                        ELSE FirstReason(answers', CausesAt(policy', answers', Awaited'))
    BY <1>2, <1>8
  <2>4. QED
    BY <1>2, <1>8, <2>1, <2>2, <2>3 DEF ReturnedIsRight
<1>11. VerdictIsSound' /\ ReasonIsTheFirstCause'
  BY <1>2 DEF VerdictIsSound, ReasonIsTheFirstCause
<1>12. outcome'.verdict = "open" <=> (stack' # <<>> \/ returned' # {})
  BY <1>2
<1>13. QED
  BY <1>4, <1>7, <1>9, <1>10, <1>11, <1>12 DEF EvaluationInv

\* A composition goes on to its next part.
LEMMA GoingOn ==
  ASSUME EvaluationInv, stack # <<>>, Undecided, answers' = answers, Top.of.kind # "leaf",
         NEW frame \in Evaluation, frame.of = Top.of, frame.at = Top.at + 1,
         FrameIsRight(policy, answers, Here, frame),
         stack' = Append(Front(stack), frame), returned' = {}
  PROVE  EvaluationInv'
<1>1. PolicyTypeOK /\ FramesAreRight /\ AskedInOrder /\ AskedSoFar
      /\ \A i \in DOMAIN answers : answers[i].said # "throw"
  BY DEF EvaluationInv, Undecided
<1>2. /\ policy' = policy /\ outcome' = outcome /\ outcome.verdict = "open"
  BY DEF Undecided
<1>3. /\ Len(stack) \in Nat \ {0} /\ DOMAIN stack = 1..Len(stack)
      /\ Front(stack) \in Seq(Evaluation) /\ Len(Front(stack)) = Len(stack) - 1
      /\ \A k \in 1..(Len(stack) - 1) : Front(stack)[k] = stack[k] /\ k \in DOMAIN stack
  BY <1>1, FrontFacts DEF PolicyTypeOK
<1>4. /\ stack' \in Seq(Evaluation) /\ Len(stack') = Len(stack)
      /\ \A k \in 1..(Len(stack) - 1) : stack'[k] = stack[k]
      /\ stack'[Len(stack)] = frame
      /\ DOMAIN stack' = 1..Len(stack) /\ stack' # <<>>
  <2> DEFINE front == Front(stack)
             n == Len(stack)
  <2>0. n \in Nat \ {0} /\ Len(front) = n - 1 /\ (n - 1) + 1 = n
    BY <1>3, OneLess
  <2>1. /\ stack' \in Seq(Evaluation) /\ DOMAIN stack' = DOMAIN front \cup {Len(front) + 1}
        /\ \A k \in DOMAIN front : stack'[k] = front[k]
        /\ stack'[Len(front) + 1] = frame
        /\ DOMAIN front = 1..Len(front)
    BY <1>3, Further
  <2>2. DOMAIN stack' = 1..n
    <3>1. (1..(n - 1)) \cup {n} = 1..n
      BY <2>0
    <3>2. QED
      BY <2>0, <2>1, <3>1
  <2>3. Len(stack') = n
    <3>1. DOMAIN stack' = 1..Len(stack') /\ Len(stack') \in Nat
      BY <2>1
    <3> HIDE DEF n
    <3>2. QED
      BY <2>0, <2>2, <3>1
  <2>4. \A k \in 1..(n - 1) : front[k] = stack[k]
    BY <1>3
  <2>5. stack' # <<>>
    BY <2>0, <2>3
  <2> HIDE DEF front
  <2>6. \A k \in 1..(n - 1) : stack'[k] = stack[k]
    BY <2>0, <2>1, <2>4
  <2>7. QED
    BY <2>0, <2>1, <2>2, <2>3, <2>5, <2>6
<1>5. PolicyTypeOK'
  BY <1>1, <1>2, <1>4 DEF PolicyTypeOK
<1>6. \A k \in 1..Len(stack) : WayTo(stack', k) = WayTo(stack, k)
  <2> TAKE k \in 1..Len(stack)
  <2>1. k \in Nat /\ \A m \in 1..(k - 1) : m \in 1..(Len(stack) - 1)
    BY <1>3
  <2>2. \A m \in 1..(k - 1) : stack'[m] = stack[m]
    BY <1>4, <2>1
  <2>3. QED
    BY <2>1, <2>2 DEF WayTo
<1>7. FramesAreRight'
  <2>1. ASSUME NEW k \in 1..Len(stack)
        PROVE  FrameIsRight(policy, answers, WayTo(stack, k), stack'[k])
    <3>1. CASE k = Len(stack)
      BY <1>4, <3>1 DEF Here
    <3>2. CASE k # Len(stack)
      <4>1. k \in 1..(Len(stack) - 1)
        BY <1>3, <3>2, OneLess
      <4>2. QED
        BY <1>1, <1>3, <1>4, <4>1 DEF FramesAreRight
    <3>3. QED
      BY <3>1, <3>2
  <2>2. \A k \in 1..(Len(stack') - 1) : stack'[k].of.kind # "leaf"
    BY <1>1, <1>4 DEF FramesAreRight
  <2>3. \A k \in DOMAIN stack' : FrameIsRight(policy', answers', WayTo(stack', k), stack'[k])
    BY <1>2, <1>4, <1>6, <2>1
  <2>4. QED
    BY <2>2, <2>3 DEF FramesAreRight
<1>8. Awaited' = Append(Here, Top.at + 1)
  <2>1. Top' = frame
    BY <1>4 DEF Top, Last
  <2>2. Here' = Here
    <3>1. Len(stack) \in 1..Len(stack)
      BY <1>3, OneLess
    <3>2. QED
      BY <1>4, <1>6, <3>1 DEF Here
  <2>3. QED
    BY <1>4, <2>1, <2>2 DEF Awaited
<1>9. AskedSoFar'
  <2>1. Awaited = Append(Here, Top.at) /\ Top.at \in DOMAIN Top.of.parts /\ Here \in PathsIn(policy)
        /\ Top.of = PartAt(policy, Here)
    BY <1>1, StackFacts
  <2>2. Here \in Seq(Nat) /\ Top.at \in 1..Parts
    BY <1>1, <2>1, PathFacts DEF PolicyTypeOK
  <2>3. Top.at \in Nat /\ Top.at + 1 \in Nat /\ Top.at < Top.at + 1
    BY <2>2, PartsAssumption
  <2>4. \A i \in DOMAIN answers : answers[i].leaf \in Seq(Nat)
    BY <1>1, PathFacts DEF PolicyTypeOK, AskedInOrder, LeavesOf
  <2>5. \A i \in DOMAIN answers : Precedes(answers[i].leaf, Append(Here, Top.at + 1))
    BY <1>1, <2>1, <2>2, <2>3, <2>4, EarlierPart DEF AskedSoFar
  <2>6. QED
    BY <1>8, <2>5 DEF AskedSoFar
<1>10. ReturnedIsRight'
  BY DEF ReturnedIsRight
<1>11. VerdictIsSound' /\ ReasonIsTheFirstCause'
  BY <1>2 DEF VerdictIsSound, ReasonIsTheFirstCause
<1>12. AskedInOrder'
  BY <1>1, <1>2 DEF AskedInOrder
<1>13. QED
  BY <1>1, <1>2, <1>4, <1>5, <1>7, <1>9, <1>10, <1>11, <1>12 DEF EvaluationInv

\* The value and the first reason of a composition whose part has returned.
Returned(result) ==
  /\ EvaluationInv /\ Undecided /\ answers' = answers
  /\ stack # <<>> /\ result \in Result /\ returned = {result} /\ Top.of.kind # "leaf"

\* What is known when a part has returned.
LEMMA ReturnedFacts ==
  ASSUME NEW result, Returned(result)
  PROVE  /\ PolicyTypeOK /\ FramesAreRight /\ AskedInOrder /\ AskedSoFar
         /\ policy \in Policies /\ OnceEach(policy, answers)
         /\ Here \in PathsIn(policy) /\ Top.of = PartAt(policy, Here) /\ Top \in Evaluation
         /\ IsComposition(Top.of) /\ Top.at \in DOMAIN Top.of.parts
         /\ FrameIsRight(policy, answers, Here, Top)
         /\ Known(policy, answers, Append(Here, Top.at), result.allowed)
         /\ result.allowed \in BOOLEAN
         /\ result.reason =
              IF result.allowed THEN {}
              ELSE FirstReason(answers, CausesAt(policy, answers, Append(Here, Top.at)))
         /\ \A i \in DOMAIN answers : answers[i].said # "throw"
<1>1. /\ PolicyTypeOK /\ FramesAreRight /\ AskedInOrder /\ AskedSoFar /\ ReturnedIsRight
      /\ stack # <<>> /\ result \in Result /\ returned = {result} /\ Top.of.kind # "leaf"
      /\ \A i \in DOMAIN answers : answers[i].said # "throw"
  BY DEF Returned, EvaluationInv, Undecided
<1>2. policy \in Policies /\ OnceEach(policy, answers)
  BY <1>1, AnsweredOnce DEF PolicyTypeOK
<1>3. /\ Here \in PathsIn(policy) /\ Top.of = PartAt(policy, Here) /\ Top \in Evaluation
      /\ IsComposition(Top.of) /\ Top.at \in DOMAIN Top.of.parts
      /\ FrameIsRight(policy, answers, Here, Top)
      /\ Awaited = Append(Here, Top.at)
  BY <1>1, StackFacts
<1>4. /\ Known(policy, answers, Awaited, result.allowed)
      /\ result.reason = IF result.allowed THEN {}
                         ELSE FirstReason(answers, CausesAt(policy, answers, Awaited))
  BY <1>1 DEF ReturnedIsRight
<1>5. result.allowed \in BOOLEAN
  BY <1>1 DEF Result
<1>6. QED
  BY <1>1, <1>2, <1>3, <1>4, <1>5

\* A composition returns a result that is right.
LEMMA CompositionReturns ==
  ASSUME NEW result, Returned(result), NEW other \in Result, Return(other),
         Known(policy, answers, Here, other.allowed),
         other.reason = IF other.allowed THEN {}
                        ELSE FirstReason(answers, CausesAt(policy, answers, Here))
  PROVE  EvaluationInv'
<1>1. /\ EvaluationInv /\ stack # <<>> /\ Undecided /\ answers' = answers
      /\ returned # {} /\ Top.of.kind # "leaf"
  BY DEF Returned
<1>2. /\ PolicyTypeOK /\ FramesAreRight /\ AskedInOrder /\ AskedSoFar
      /\ Here \in PathsIn(policy) /\ Top.at \in DOMAIN Top.of.parts /\ policy \in Policies
      /\ Top.of = PartAt(policy, Here)
      /\ \A i \in DOMAIN answers : answers[i].said # "throw"
  BY ReturnedFacts
<1>3. Awaited = Append(Here, Top.at)
  BY <1>1, <1>2, StackFacts
<1>4. policy' = policy
  BY <1>1 DEF Undecided
<1>5. AskedInOrder' /\ answers' \in Seq([leaf : Paths, said : Answers])
  BY <1>1, <1>2, <1>4 DEF AskedInOrder, PolicyTypeOK
<1>6. \A i \in DOMAIN answers :
        Precedes(answers[i].leaf, Here) \/ Continues(answers[i].leaf, Here)
  <2> TAKE i \in DOMAIN answers
  <2>1. answers[i].leaf \in PathsIn(policy)
    BY <1>2 DEF AskedInOrder, LeavesOf
  <2>2. answers[i].leaf \in Seq(Nat) /\ Here \in Seq(Nat) /\ Top.at \in Nat
    BY <1>2, <2>1, PathFacts
  <2>3. \/ Precedes(answers[i].leaf, Append(Here, Top.at))
        \/ Continues(answers[i].leaf, Append(Here, Top.at))
    BY <1>2, <1>3 DEF AskedSoFar
  <2>4. QED
    BY <2>2, <2>3, TurnsOff, ContinuesLonger
<1>7. \A k \in 1..(Len(stack) - 1) : FrameIsRight(policy, answers, WayTo(stack, k), stack[k])
  BY <1>1, <1>2, FrontFacts DEF FramesAreRight, PolicyTypeOK
<1>8. QED
  BY <1>1, <1>2, <1>5, <1>6, <1>7, Returning

\* andPolicy: to go on, to end with the last part and to end with a refusal.
LEMMA AndStepKeeps ==
  ASSUME EvaluationInv, AndStep, outcome.verdict = "open"
  PROVE  EvaluationInv'
<1>1. PICK result \in Result :
        /\ stack # <<>> /\ Top.of.kind = "and" /\ returned = {result}
        /\ IF result.allowed
           THEN GoOnOrReturn(Top, [allowed |-> TRUE, reason |-> {}])
           ELSE Return(result)
  BY DEF AndStep, PartReturned
<1>2. Returned(result)
  BY <1>1 DEF AndStep, Returned, Undecided
<1> DEFINE q == PartAt(policy, Here)
           k == Top.at
<1>3. /\ policy \in Policies /\ OnceEach(policy, answers)
      /\ Here \in PathsIn(policy) /\ Top.of = q /\ q.kind = "and" /\ Top \in Evaluation
      /\ DOMAIN q.parts = 1..Len(q.parts) /\ Len(q.parts) \in 1..Parts /\ k \in DOMAIN q.parts
      /\ FrameIsRight(policy, answers, Here, Top)
      /\ Known(policy, answers, Append(Here, k), result.allowed) /\ result.allowed \in BOOLEAN
      /\ result.reason =
           IF result.allowed THEN {}
           ELSE FirstReason(answers, CausesAt(policy, answers, Append(Here, k)))
  BY <1>1, <1>2, ReturnedFacts DEF IsComposition
<1>4. k \in Nat /\ Len(q.parts) \in Nat
  BY <1>3, PartsAssumption
<1>5. /\ \A i \in 1..(k - 1) : Known(policy, answers, Append(Here, i), TRUE)
      /\ Top.firstDeny = {}
  BY <1>3 DEF FrameIsRight
<1>6. CASE result.allowed
  <2>1. \A i \in 1..k : Known(policy, answers, Append(Here, i), TRUE)
    <3>1. \A i \in 1..k : i = k \/ i \in 1..(k - 1)
      BY <1>4
    <3>2. Known(policy, answers, Append(Here, k), TRUE)
      BY <1>3, <1>6
    <3>3. QED
      BY <1>5, <3>1, <3>2
  <2>2. CASE k < Len(q.parts)
    <3> DEFINE frame == [Top EXCEPT !.at = @ + 1]
    <3>1. stack' = Append(Front(stack), frame) /\ returned' = {}
      BY <1>1, <1>3, <1>6, <2>2 DEF GoOnOrReturn
    <3>2. /\ frame.of = Top.of /\ frame.at = k + 1 /\ frame.firstDeny = {}
          /\ frame \in Evaluation
      <4>1. k + 1 \in 1..Parts
        BY <1>3, <1>4, <2>2, PartsAssumption
      <4>2. QED
        BY <1>3, <1>5, <4>1 DEF Evaluation
    <3>3. k + 1 \in DOMAIN q.parts /\ (k + 1) - 1 = k
      BY <1>3, <1>4, <2>2
    <3> HIDE DEF frame
    <3>4. FrameIsRight(policy, answers, Here, frame)
      BY <1>3, <2>1, <3>2, <3>3 DEF FrameIsRight
    <3>5. EvaluationInv /\ stack # <<>> /\ Undecided /\ answers' = answers /\ Top.of.kind # "leaf"
      BY <1>2 DEF Returned
    <3>6. QED
      BY <3>1, <3>2, <3>4, <3>5, GoingOn
  <2>3. CASE ~(k < Len(q.parts))
    <3> DEFINE other == [allowed |-> TRUE, reason |-> {}]
    <3>1. Return(other) /\ other.allowed = TRUE /\ other.reason = {}
      BY <1>1, <1>3, <1>6, <2>3 DEF GoOnOrReturn
    <3>2. other \in Result
      BY DEF Result, Reasons
    <3>3. k = Len(q.parts)
      BY <1>3, <1>4, <2>3
    <3>4. \A i \in DOMAIN q.parts : Known(policy, answers, Append(Here, i), TRUE)
      BY <1>3, <2>1, <3>3
    <3>5. Known(policy, answers, Here, TRUE)
      <4>1. ASSUME NEW v \in ValuesOf(policy, answers, {})
            PROVE  HoldsAt(policy, Here, v) = TRUE
        <5>1. \A i \in DOMAIN q.parts : HoldsAt(policy, Append(Here, i), v) = TRUE
          BY <3>4 DEF Known
        <5>2. v \in [LeavesOf(policy) -> BOOLEAN]
          BY ValueFacts
        <5>3. QED
          BY <1>3, <5>1, <5>2, HoldsFacts
      <4>2. QED
        BY <4>1 DEF Known
    <3> HIDE DEF other
    <3>6. QED
      BY <1>2, <3>1, <3>2, <3>5, CompositionReturns
  <2>4. QED
    BY <2>2, <2>3
<1>7. CASE ~result.allowed
  <2>1. Return(result) /\ result.allowed = FALSE
    BY <1>1, <1>3, <1>7
  <2>2. Known(policy, answers, Append(Here, k), FALSE)
    BY <1>3, <2>1
  <2>3. Known(policy, answers, Here, FALSE)
    <3>1. ASSUME NEW v \in ValuesOf(policy, answers, {})
          PROVE  HoldsAt(policy, Here, v) = FALSE
      <4>1. HoldsAt(policy, Append(Here, k), v) = FALSE
        BY <2>2 DEF Known
      <4>2. v \in [LeavesOf(policy) -> BOOLEAN]
        BY ValueFacts
      <4>3. QED
        BY <1>3, <4>1, <4>2, HoldsFacts
    <3>2. QED
      BY <3>1 DEF Known
  <2>4. ASSUME NEW i \in DOMAIN q.parts, i # k, ~(i < k)
        PROVE  Open(policy, answers, Append(Here, i))
    <3>1. k < i /\ i \in Nat
      BY <1>3, <1>4, <2>4
    <3>2. Append(Here, i) \in PathsIn(policy) /\ Here \in Seq(Nat) /\ Append(Here, i) \in Seq(Nat)
      BY <1>3, PathFacts
    <3>3. ASSUME NEW j \in DOMAIN answers
          PROVE  ~Continues(answers[j].leaf, Append(Here, i))
      <4>1. AskedSoFar /\ AskedInOrder /\ Awaited = Append(Here, k)
        BY <1>2, ReturnedFacts, StackFacts DEF Returned
      <4>2. answers[j].leaf \in Seq(Nat)
        BY <1>3, <4>1, PathFacts DEF AskedInOrder, LeavesOf
      <4>3. \/ Precedes(answers[j].leaf, Append(Here, k))
            \/ Continues(answers[j].leaf, Append(Here, k))
        BY <4>1 DEF AskedSoFar
      <4>4. Precedes(answers[j].leaf, Append(Here, i))
        BY <1>4, <3>1, <3>2, <4>2, <4>3, EarlierPart
      <4>5. QED
        BY <3>2, <4>2, <4>4, PrecedesFacts
    <3>4. QED
      BY <1>3, <3>2, <3>3, OpenUntouched
  <2>5. \A i \in DOMAIN q.parts : i < k => Known(policy, answers, Append(Here, i), TRUE)
    <3>1. \A i \in DOMAIN q.parts : i < k => i \in 1..(k - 1)
      BY <1>3, <1>4
    <3>2. QED
      BY <1>5, <3>1
  <2>6. CausesAt(policy, answers, Here) = CausesAt(policy, answers, Append(Here, k))
    BY <1>3, <2>2, <2>4, <2>5, AndCauses
  <2>7. result.reason = FirstReason(answers, CausesAt(policy, answers, Here))
    BY <1>3, <2>1, <2>6
  <2>8. QED
    BY <1>1, <1>2, <2>1, <2>3, <2>7, CompositionReturns
<1>8. QED
  BY <1>6, <1>7

\* notPolicy inverts the value, and has no reason since no cause is below it.
LEMMA NotStepKeeps ==
  ASSUME EvaluationInv, NotStep, outcome.verdict = "open"
  PROVE  EvaluationInv'
<1>1. PICK result \in Result :
        /\ stack # <<>> /\ Top.of.kind = "not" /\ returned = {result}
        /\ Return([allowed |-> ~result.allowed, reason |-> {}])
  BY DEF NotStep, PartReturned
<1>2. Returned(result)
  BY <1>1 DEF NotStep, Returned, Undecided
<1> DEFINE q == PartAt(policy, Here)
           other == [allowed |-> ~result.allowed, reason |-> {}]
<1>3. /\ policy \in Policies /\ OnceEach(policy, answers)
      /\ Here \in PathsIn(policy) /\ Top.of = q /\ q.kind = "not"
      /\ DOMAIN q.parts = 1..Len(q.parts) /\ Len(q.parts) = 1 /\ Top.at \in DOMAIN q.parts
      /\ Known(policy, answers, Append(Here, Top.at), result.allowed)
      /\ result.allowed \in BOOLEAN
  BY <1>1, <1>2, ReturnedFacts DEF IsComposition
<1>4. Top.at = 1
  BY <1>3
<1>5. Return(other) /\ other.allowed = ~result.allowed /\ other.reason = {} /\ other \in Result
  BY <1>1, <1>3 DEF Result, Reasons
<1>6. Known(policy, answers, Here, ~result.allowed)
  <2>1. ASSUME NEW v \in ValuesOf(policy, answers, {})
        PROVE  HoldsAt(policy, Here, v) = ~result.allowed
    <3>1. HoldsAt(policy, Append(Here, 1), v) = result.allowed
      BY <1>3, <1>4 DEF Known
    <3>2. v \in [LeavesOf(policy) -> BOOLEAN]
      BY ValueFacts
    <3>3. HoldsAt(policy, Here, v) \in BOOLEAN
          /\ (HoldsAt(policy, Here, v) <=> ~HoldsAt(policy, Append(Here, 1), v))
      BY <1>3, <3>2, HoldsFacts
    <3>4. QED
      BY <1>3, <3>1, <3>3
  <2>2. QED
    BY <2>1 DEF Known
<1>7. FirstReason(answers, CausesAt(policy, answers, Here)) = {}
  BY <1>3, NotCauses DEF FirstReason
<1> HIDE DEF other
<1>8. QED
  BY <1>2, <1>5, <1>6, <1>7, CompositionReturns

\* orPolicy: to end with a part that allows, to go on with the first denial and to end with it.
LEMMA OrStepKeeps ==
  ASSUME EvaluationInv, OrStep, outcome.verdict = "open"
  PROVE  EvaluationInv'
<1>1. PICK result \in Result :
        /\ stack # <<>> /\ Top.of.kind = "or" /\ returned = {result}
        /\ IF result.allowed
           THEN Return([allowed |-> TRUE, reason |-> {}])
           ELSE GoOnOrReturn([Top EXCEPT !.firstDeny = Denial(Top, result)],
                             [allowed |-> FALSE, reason |-> Denial(Top, result)])
  BY DEF OrStep, PartReturned
<1>2. Returned(result)
  BY <1>1 DEF OrStep, Returned, Undecided
<1> DEFINE q == PartAt(policy, Here)
           k == Top.at
           causes(i) == CausesAt(policy, answers, Append(Here, i))
<1>3. /\ policy \in Policies /\ OnceEach(policy, answers)
      /\ Here \in PathsIn(policy) /\ Top.of = q /\ q.kind = "or" /\ Top \in Evaluation
      /\ DOMAIN q.parts = 1..Len(q.parts) /\ Len(q.parts) \in 1..Parts /\ k \in DOMAIN q.parts
      /\ FrameIsRight(policy, answers, Here, Top)
      /\ Known(policy, answers, Append(Here, k), result.allowed) /\ result.allowed \in BOOLEAN
      /\ result.reason = IF result.allowed THEN {} ELSE FirstReason(answers, causes(k))
  BY <1>1, <1>2, ReturnedFacts DEF IsComposition
<1>4. k \in Nat /\ Len(q.parts) \in Nat
  BY <1>3, PartsAssumption
<1>5. /\ \A i \in 1..(k - 1) : Known(policy, answers, Append(Here, i), FALSE)
      /\ Top.firstDeny = FirstReason(answers, UNION {causes(i) : i \in 1..(k - 1)})
  BY <1>3 DEF FrameIsRight
<1>6. CASE result.allowed
  <2> DEFINE other == [allowed |-> TRUE, reason |-> {}]
  <2>1. Return(other) /\ other.allowed = TRUE /\ other.reason = {}
    BY <1>1, <1>6
  <2>2. other \in Result
    BY DEF Result, Reasons
  <2>3. Known(policy, answers, Append(Here, k), TRUE)
    BY <1>3, <1>6
  <2>4. Known(policy, answers, Here, TRUE)
    <3>1. ASSUME NEW v \in ValuesOf(policy, answers, {})
          PROVE  HoldsAt(policy, Here, v) = TRUE
      <4>1. HoldsAt(policy, Append(Here, k), v) = TRUE
        BY <2>3 DEF Known
      <4>2. v \in [LeavesOf(policy) -> BOOLEAN]
        BY ValueFacts
      <4>3. QED
        BY <1>3, <4>1, <4>2, HoldsFacts
    <3>2. QED
      BY <3>1 DEF Known
  <2> HIDE DEF other
  <2>5. QED
    BY <1>2, <2>1, <2>2, <2>4, CompositionReturns
<1>7. CASE ~result.allowed
  <2> DEFINE denial == Denial(Top, result)
             C == UNION {causes(i) : i \in 1..(k - 1)}
             all == UNION {causes(i) : i \in 1..k}
  <2>1. GoOnOrReturn([Top EXCEPT !.firstDeny = denial], [allowed |-> FALSE, reason |-> denial])
    BY <1>1, <1>7
  <2>2. \A i \in 1..k : Known(policy, answers, Append(Here, i), FALSE)
    <3>1. \A i \in 1..k : i = k \/ i \in 1..(k - 1)
      BY <1>4
    <3>2. Known(policy, answers, Append(Here, k), FALSE)
      BY <1>3, <1>7
    <3>3. QED
      BY <1>5, <3>1, <3>2
  <2>3. denial = FirstReason(answers, all)
    <3>1. all = C \cup causes(k)
      <4>1. /\ \A i \in 1..k : i = k \/ i \in 1..(k - 1)
            /\ k \in 1..k
            /\ \A i \in 1..(k - 1) : i \in 1..k
        <5>1. k \in 1..Parts
          BY <1>3 DEF Evaluation
        <5> HIDE DEF k
        <5>2. QED
          BY <5>1, PartsAssumption
      <4> HIDE DEF causes, k
      <4>2. \A x : x \in all <=> \E i \in 1..k : x \in causes(i)
        OBVIOUS
      <4>3. \A x : x \in C <=> \E i \in 1..(k - 1) : x \in causes(i)
        OBVIOUS
      <4> HIDE DEF all, C
      <4>4. \A x : x \in all <=> x \in C \/ x \in causes(k)
        BY <4>1, <4>2, <4>3
      <4>5. QED
        BY <4>4
    <3>2. \A i : causes(i) \subseteq DOMAIN answers
      BY CauseFacts
    <3>3. answers \in Seq([leaf : Paths, said : Answers]) /\ AskedInOrder
      BY <1>2, ReturnedFacts DEF PolicyTypeOK
    <3>4. DOMAIN answers \subseteq Nat
      BY <3>3
    <3>5. C \in SUBSET Nat /\ causes(k) \in SUBSET Nat
      BY <3>2, <3>4
    <3>6. \A c \in C, d \in causes(k) : c < d
      <4>1. SUFFICES ASSUME NEW i \in 1..(k - 1), NEW c \in causes(i), NEW d \in causes(k)
                     PROVE  c < d
        OBVIOUS
      <4>2. /\ c \in DOMAIN answers /\ d \in DOMAIN answers
            /\ Continues(answers[c].leaf, Append(Here, i))
            /\ Continues(answers[d].leaf, Append(Here, k))
        BY CauseFacts
      <4>3. /\ answers[c].leaf \in Seq(Nat) /\ answers[d].leaf \in Seq(Nat)
            /\ Here \in Seq(Nat) /\ Append(Here, k) \in Seq(Nat)
        BY <1>3, <3>3, <4>2, PathFacts DEF AskedInOrder, LeavesOf
      <4>4. i \in Nat /\ i < k
        BY <1>4
      <4>5. Precedes(answers[c].leaf, Append(Here, k))
        <5> DEFINE leaf == answers[c].leaf
                   way == Here
        <5>1. /\ leaf \in Seq(Nat) /\ way \in Seq(Nat) /\ i \in Nat /\ k \in Nat /\ i < k
              /\ Continues(leaf, Append(way, i))
          BY <1>4, <4>2, <4>3, <4>4
        <5> HIDE DEF leaf, way, k
        <5>2. Precedes(leaf, Append(way, k))
          BY <5>1, EarlierPart
        <5>3. QED
          BY <5>2 DEF leaf, way
      <4>6. Precedes(answers[c].leaf, answers[d].leaf)
        <5> DEFINE leaf == answers[c].leaf
                   later == answers[d].leaf
                   way == Append(Here, k)
        <5>1. /\ leaf \in Seq(Nat) /\ way \in Seq(Nat) /\ later \in Seq(Nat)
              /\ Precedes(leaf, way) /\ Continues(later, way)
          BY <4>2, <4>3, <4>5
        <5> HIDE DEF leaf, way, later
        <5>2. Precedes(leaf, later)
          BY <5>1, PrecedesFacts
        <5>3. QED
          BY <5>2 DEF leaf, later
      <4>7. ~Precedes(answers[d].leaf, answers[c].leaf) /\ answers[c].leaf # answers[d].leaf
        BY <4>3, <4>6, PrecedesFacts
      <4>8. ~(d < c) /\ c # d /\ c \in Nat /\ d \in Nat
        BY <3>3, <3>4, <4>2, <4>7 DEF AskedInOrder
      <4>9. QED
        BY <4>8
    <3>7. Top.firstDeny = FirstReason(answers, C) /\ result.reason = FirstReason(answers, causes(k))
      BY <1>3, <1>5, <1>7
    <3> HIDE DEF C, all, causes
    <3>8. QED
      BY <3>1, <3>5, <3>6, <3>7, FirstOfTwo DEF Denial
  <2>4. denial \in Reasons
    BY <1>1, <1>3 DEF Denial, Evaluation, Result
  <2> HIDE DEF denial
  <2>5. CASE k < Len(q.parts)
    <3> DEFINE noted == [Top EXCEPT !.firstDeny = denial]
               frame == [noted EXCEPT !.at = @ + 1]
    <3>1. /\ noted.of = Top.of /\ noted.at = k /\ noted.firstDeny = denial /\ noted \in Evaluation
      BY <1>3, <2>4 DEF Evaluation
    <3>2. stack' = Append(Front(stack), frame) /\ returned' = {}
      BY <1>3, <2>1, <2>5, <3>1 DEF GoOnOrReturn
    <3> HIDE DEF noted
    <3>3. /\ frame.of = Top.of /\ frame.at = k + 1 /\ frame.firstDeny = denial
          /\ frame \in Evaluation
      <4>1. k + 1 \in 1..Parts
        BY <1>3, <1>4, <2>5, PartsAssumption
      <4>2. QED
        BY <3>1, <4>1 DEF Evaluation
    <3>4. k + 1 \in DOMAIN q.parts /\ (k + 1) - 1 = k
      BY <1>3, <1>4, <2>5
    <3> HIDE DEF frame
    <3>5. FrameIsRight(policy, answers, Here, frame)
      BY <1>3, <2>2, <2>3, <3>3, <3>4 DEF FrameIsRight
    <3>6. EvaluationInv /\ stack # <<>> /\ Undecided /\ answers' = answers /\ Top.of.kind # "leaf"
      BY <1>2 DEF Returned
    <3>7. QED
      BY <3>2, <3>3, <3>5, <3>6, GoingOn
  <2>6. CASE ~(k < Len(q.parts))
    <3> DEFINE other == [allowed |-> FALSE, reason |-> denial]
    <3>1. Return(other)
      <4>1. [Top EXCEPT !.firstDeny = denial].at = k /\ [Top EXCEPT !.firstDeny = denial].of = q
        BY <1>3 DEF Evaluation
      <4>2. QED
        BY <2>1, <2>6, <4>1 DEF GoOnOrReturn
    <3>2. other \in Result /\ other.allowed = FALSE /\ other.reason = denial
      BY <2>4 DEF Result
    <3>3. k = Len(q.parts)
      BY <1>3, <1>4, <2>6
    <3>4. \A i \in DOMAIN q.parts : Known(policy, answers, Append(Here, i), FALSE)
      BY <1>3, <2>2, <3>3
    <3>5. Known(policy, answers, Here, FALSE)
      <4>1. ASSUME NEW v \in ValuesOf(policy, answers, {})
            PROVE  HoldsAt(policy, Here, v) = FALSE
        <5>1. \A i \in DOMAIN q.parts : HoldsAt(policy, Append(Here, i), v) = FALSE
          BY <3>4 DEF Known
        <5>2. v \in [LeavesOf(policy) -> BOOLEAN]
          BY ValueFacts
        <5>3. QED
          BY <1>3, <5>1, <5>2, HoldsFacts
      <4>2. QED
        BY <4>1 DEF Known
    <3>6. CausesAt(policy, answers, Here) = all
      BY <1>3, <3>3, <3>4, OrCauses
    <3> HIDE DEF other
    <3>7. QED
      BY <1>2, <2>3, <3>1, <3>2, <3>5, <3>6, CompositionReturns
  <2>7. QED
    BY <2>5, <2>6
<1>8. QED
  BY <1>6, <1>7


\* AskPart starts an evaluation that has passed no part yet.
LEMMA AskPartKeeps ==
  ASSUME EvaluationInv, AskPart
  PROVE  EvaluationInv'
<1>1. /\ PolicyTypeOK /\ FramesAreRight /\ AskedInOrder /\ AskedSoFar
      /\ outcome.verdict = "open"
      /\ \A i \in DOMAIN answers : answers[i].said # "throw"
  BY DEF EvaluationInv, AskPart
<1>2. /\ policy' = policy /\ outcome' = outcome /\ answers' = answers
      /\ stack # <<>> /\ returned = {} /\ returned' = {} /\ Top.of.kind # "leaf"
      /\ stack' = Append(stack, Frame(Top.of.parts[Top.at]))
  BY DEF AskPart
<1>3. /\ Here \in PathsIn(policy) /\ Awaited \in PathsIn(policy)
      /\ Awaited = Append(Here, Top.at)
      /\ PartAt(policy, Awaited) \in Policies
      /\ PartAt(policy, Awaited) = Top.of.parts[Top.at]
      /\ Top = stack[Len(stack)] /\ Len(stack) \in Nat \ {0} /\ DOMAIN stack = 1..Len(stack)
  BY <1>1, <1>2, StackFacts, FrontFacts DEF Top, PolicyTypeOK
<1> DEFINE part == PartAt(policy, Awaited)
           frame == Frame(part)
           n == Len(stack)
<1>4. /\ frame.of = part /\ frame.at = 1 /\ frame.firstDeny = {} /\ frame \in Evaluation
  <2>1. 1 \in 1..Parts
    BY PartsAssumption
  <2>2. QED
    BY <1>3, <2>1 DEF Frame, Evaluation, Reasons
<1>5. IsLeaf(part) \/ (IsComposition(part) /\ 1 \in DOMAIN part.parts)
  <2>1. policy \in Policies
    BY <1>1 DEF PolicyTypeOK
  <2>2. IsLeaf(part) \/ IsComposition(part)
    BY <1>3, <2>1, PathFacts
  <2>3. IsComposition(part) => 1 \in DOMAIN part.parts
    BY PartsAssumption DEF IsComposition
  <2>4. QED
    BY <2>2, <2>3
<1>6. stack' = Append(stack, frame)
  BY <1>2, <1>3
<1> HIDE DEF frame
<1>7. /\ stack' \in Seq(Evaluation) /\ DOMAIN stack' = 1..(n + 1) /\ Len(stack') = n + 1
      /\ \A k \in 1..n : stack'[k] = stack[k]
      /\ stack'[n + 1] = frame
      /\ stack' # <<>>
  <2>1. stack \in Seq(Evaluation)
    BY <1>1 DEF PolicyTypeOK
  <2>2. stack' \in Seq(Evaluation)
    BY <1>4, <1>6, <2>1, Further
  <2>3. Len(stack') = n + 1 /\ \A k \in 1..n : stack'[k] = stack[k]
    BY <1>4, <1>6, <2>1
  <2>4. stack'[n + 1] = frame
    BY <1>4, <1>6, <2>1
  <2>5. DOMAIN stack' = 1..(n + 1)
    BY <2>2, <2>3
  <2>6. Len(stack') # 0
    BY <1>3, <2>3
  <2>7. stack' # <<>>
    BY <2>6
  <2>8. QED
    BY <2>2, <2>3, <2>4, <2>5, <2>7
<1>8. \A k \in 1..(n + 1) : WayTo(stack', k) = WayTo(stack, k)
  <2> TAKE k \in 1..(n + 1)
  <2>1. \A m \in 1..(k - 1) : m \in 1..n
    BY <1>3
  <2>2. QED
    BY <1>7, <2>1 DEF WayTo
<1>9. WayTo(stack, n + 1) = Awaited
  <2>1. n \in 1..(n + 1) /\ n # n + 1
    <3>1. n \in Nat \ {0}
      BY <1>3
    <3> HIDE DEF n
    <3>2. QED
      BY <3>1
  <2>2. stack \in Seq(Evaluation)
    BY <1>1 DEF PolicyTypeOK
  <2>3. WayTo(stack, n + 1) = Append(WayTo(stack, n), stack[n].at)
    BY <2>1, <2>2, WayFacts
  <2>4. QED
    BY <1>3, <2>3 DEF Here
<1>10. Top' = frame /\ Here' = Awaited
  <2>1. n + 1 \in 1..(n + 1)
    BY <1>3
  <2>2. QED
    BY <1>7, <1>8, <1>9, <2>1 DEF Top, Last, Here
<1>11. PolicyTypeOK'
  BY <1>1, <1>2, <1>7 DEF PolicyTypeOK
<1>12. FrameIsRight(policy, answers, Awaited, frame)
  <2>1. \A i \in 1..(frame.at - 1) : FALSE
    BY <1>4
  <2>2. UNION {CausesAt(policy, answers, Append(Awaited, i)) : i \in 1..(frame.at - 1)} = {}
    BY <2>1
  <2>3. frame.at \in DOMAIN frame.of.parts \/ (frame.of.kind = "leaf" /\ frame.at = 1)
    BY <1>4, <1>5 DEF IsLeaf
  <2>4. QED
    BY <1>3, <1>4, <2>1, <2>2, <2>3 DEF FrameIsRight, FirstReason
<1>13. FramesAreRight'
  <2>1. ASSUME NEW k \in 1..(n + 1)
        PROVE  FrameIsRight(policy, answers, WayTo(stack, k), stack'[k])
    <3>1. CASE k = n + 1
      BY <1>7, <1>9, <1>12, <3>1
    <3>2. CASE k # n + 1
      <4>1. k \in 1..n
        BY <1>3, <3>2
      <4>2. QED
        BY <1>1, <1>3, <1>7, <4>1 DEF FramesAreRight
    <3>3. QED
      BY <3>1, <3>2
  <2>2. \A k \in DOMAIN stack' : FrameIsRight(policy', answers', WayTo(stack', k), stack'[k])
    BY <1>2, <1>7, <1>8, <2>1
  <2>3. \A k \in 1..((n + 1) - 1) : stack[k].of.kind # "leaf"
    <3>1. \A k \in 1..((n + 1) - 1) : k = n \/ k \in 1..(n - 1)
      <4>1. n \in Nat
        BY <1>3
      <4> HIDE DEF n
      <4>2. QED
        BY <4>1
    <3>2. QED
      BY <1>1, <1>2, <1>3, <3>1 DEF FramesAreRight
  <2>4. \A k \in 1..(Len(stack') - 1) : stack'[k].of.kind # "leaf"
    <3>1. \A k \in 1..((n + 1) - 1) : k \in 1..n
      BY <1>3
    <3>2. QED
      BY <1>7, <2>3, <3>1
  <2>5. QED
    BY <2>2, <2>4 DEF FramesAreRight
<1>14. AskedSoFar'
  <2>1. \A i \in DOMAIN answers : Precedes(answers[i].leaf, Awaited)
    BY <1>1, <1>2 DEF AskedSoFar
  <2>2. Awaited' = IF part.kind = "leaf" THEN Awaited ELSE Append(Awaited, 1)
    BY <1>4, <1>7, <1>10 DEF Awaited
  <2>3. ASSUME NEW i \in DOMAIN answers
        PROVE  Precedes(answers[i].leaf, Append(Awaited, 1))
    <3> DEFINE leaf == answers[i].leaf
               way == Awaited
    <3>1. leaf \in Seq(Nat) /\ way \in Seq(Nat) /\ Precedes(leaf, way)
      BY <1>1, <1>3, <2>1, PathFacts DEF PolicyTypeOK, AskedInOrder, LeavesOf
    <3> HIDE DEF leaf, way
    <3>2. Append(way, 1) \in Seq(Nat) /\ 1 \in Nat
      BY <3>1
    <3>3. Continues(Append(way, 1), way)
      BY <3>1, <3>2, ContinuesLonger, ContinuesThrough
    <3>4. Precedes(leaf, Append(way, 1))
      BY <3>1, <3>2, <3>3, PrecedesFacts
    <3>5. QED
      BY <3>4 DEF leaf, way
  <2>4. \A i \in DOMAIN answers : Precedes(answers[i].leaf, Awaited')
    BY <2>1, <2>2, <2>3
  <2>5. QED
    BY <1>2, <2>4 DEF AskedSoFar
<1>15. ReturnedIsRight'
  BY <1>2 DEF ReturnedIsRight
<1>16. VerdictIsSound' /\ ReasonIsTheFirstCause'
  BY <1>1, <1>2 DEF VerdictIsSound, ReasonIsTheFirstCause
<1>17. AskedInOrder'
  BY <1>1, <1>2 DEF AskedInOrder
<1>18. QED
  BY <1>1, <1>2, <1>7, <1>11, <1>13, <1>14, <1>15, <1>16, <1>17 DEF EvaluationInv


\* The answers once the leaf that is awaited has answered.
WithAnswer(said) == Append(answers, [leaf |-> Here, said |-> said])

\* A leaf answers in its turn, and once.
LEMMA AnsweredInTurn ==
  ASSUME EvaluationInv, LeafAsked, NEW said \in Answers
  PROVE  LET more == WithAnswer(said)
             n == Len(answers) + 1
         IN  /\ Here \in LeavesOf(policy) /\ Here \in PathsIn(policy) /\ Here \in Seq(Nat)
             /\ Here \in Paths /\ Awaited = Here
             /\ \A i \in DOMAIN answers : Precedes(answers[i].leaf, Here)
             /\ more \in Seq([leaf : Paths, said : Answers])
             /\ DOMAIN more = DOMAIN answers \cup {n} /\ n \notin DOMAIN answers
             /\ n \in Nat /\ DOMAIN answers \subseteq Nat
             /\ \A i \in DOMAIN answers : more[i] = answers[i] /\ i < n
             /\ more[n].leaf = Here /\ more[n].said = said
             /\ \A i \in DOMAIN more : more[i].leaf \in LeavesOf(policy)
             /\ \A i, j \in DOMAIN more : i < j => Precedes(more[i].leaf, more[j].leaf)
             /\ OnceEach(policy, more)
<1> DEFINE more == WithAnswer(said)
           n == Len(answers) + 1
           answer == [leaf |-> Here, said |-> said]
<1>1. /\ PolicyTypeOK /\ FramesAreRight /\ AskedInOrder /\ AskedSoFar
      /\ policy \in Policies /\ answers \in Seq([leaf : Paths, said : Answers])
      /\ stack # <<>> /\ returned = {} /\ Top.of.kind = "leaf"
  BY DEF EvaluationInv, LeafAsked, PolicyTypeOK
<1>2. Here \in PathsIn(policy) /\ Top.of = PartAt(policy, Here) /\ Awaited = Here
  BY <1>1, StackFacts
<1>3. Here \in LeavesOf(policy) /\ Here \in Seq(Nat) /\ Here \in Paths
  BY <1>1, <1>2, PathFacts, PathsAreTyped DEF LeavesOf
<1>4. \A i \in DOMAIN answers : Precedes(answers[i].leaf, Here)
  BY <1>1, <1>2 DEF AskedSoFar
<1>5. answer \in [leaf : Paths, said : Answers] /\ more = Append(answers, answer)
  BY <1>3 DEF WithAnswer
<1>6. /\ more \in Seq([leaf : Paths, said : Answers])
      /\ DOMAIN more = DOMAIN answers \cup {n} /\ n \notin DOMAIN answers
      /\ n \in Nat /\ DOMAIN answers \subseteq Nat
      /\ \A i \in DOMAIN answers : more[i] = answers[i] /\ i < n
      /\ more[n] = answer
  <2> HIDE DEF answer, more
  <2>1. /\ more \in Seq([leaf : Paths, said : Answers])
        /\ DOMAIN more = DOMAIN answers \cup {n} /\ n \notin DOMAIN answers
        /\ \A i \in DOMAIN answers : more[i] = answers[i] /\ i < n
        /\ more[n] = answer
    BY <1>1, <1>5, Further
  <2>2. n \in Nat /\ DOMAIN answers \subseteq Nat
    BY <1>1
  <2>3. QED
    BY <2>1, <2>2
<1> HIDE DEF more, n
<1>7. more[n].leaf = Here /\ more[n].said = said
  BY <1>6
<1>8. \A i \in DOMAIN more : more[i].leaf \in LeavesOf(policy)
  BY <1>1, <1>3, <1>6, <1>7 DEF AskedInOrder
<1>9. \A i, j \in DOMAIN more : i < j => Precedes(more[i].leaf, more[j].leaf)
  <2> TAKE i, j \in DOMAIN more
  <2> HAVE i < j
  <2>1. CASE j \in DOMAIN answers
    <3>1. i # n
      BY <1>6, <2>1
    <3>2. QED
      BY <1>1, <1>6, <2>1, <3>1 DEF AskedInOrder
  <2>2. CASE j = n
    <3>1. i \in DOMAIN answers
      BY <1>6, <2>2
    <3>2. QED
      BY <1>4, <1>6, <1>7, <2>2, <3>1
  <2>3. QED
    BY <1>6, <2>1, <2>2
<1>10. OnceEach(policy, more)
  <2>1. ASSUME NEW i \in DOMAIN more, NEW j \in DOMAIN more, more[i].leaf = more[j].leaf
        PROVE  i = j
    <3>1. more[i].leaf \in Seq(Nat) /\ more[j].leaf \in Seq(Nat)
      BY <1>1, <1>8, PathFacts DEF LeavesOf
    <3>2. ~(i < j) /\ ~(j < i)
      BY <1>9, <2>1, <3>1, PrecedesFacts
    <3>3. i \in Nat /\ j \in Nat
      BY <1>6
    <3>4. QED
      BY <3>2, <3>3
  <2>2. QED
    BY <1>8, <2>1 DEF OnceEach
<1>11. QED
  BY <1>2, <1>3, <1>4, <1>6, <1>7, <1>8, <1>9, <1>10 DEF more, n

\* What the evaluations that await the leaf have found stands.
LEMMA FramesStay ==
  ASSUME EvaluationInv, LeafAsked, NEW said \in Answers, NEW k \in 1..(Len(stack) - 1)
  PROVE  FrameIsRight(policy, WithAnswer(said), WayTo(stack, k), stack[k])
<1> DEFINE S == [leaf : Paths, said : Answers]
           answer == [leaf |-> Here, said |-> said]
           more == Append(answers, answer)
           path == WayTo(stack, k)
           frame == stack[k]
           q == PartAt(policy, path)
           causes(i) == CausesAt(policy, answers, Append(path, i))
           after(i) == CausesAt(policy, more, Append(path, i))
<1>1. /\ PolicyTypeOK /\ FramesAreRight /\ AskedInOrder
      /\ policy \in Policies /\ answers \in Seq(S) /\ stack \in Seq(Evaluation) /\ stack # <<>>
  BY DEF EvaluationInv, LeafAsked, PolicyTypeOK
<1>2. /\ Here \in PathsIn(policy) /\ answer \in S /\ OnceEach(policy, more)
  BY AnsweredInTurn DEF WithAnswer
<1>3. /\ Len(stack) \in Nat \ {0} /\ DOMAIN stack = 1..Len(stack)
      /\ k \in DOMAIN stack /\ k + 1 \in 1..Len(stack) /\ k \in 1..(Len(stack) + 1)
      /\ k # Len(stack) + 1 /\ Len(stack) \in 1..(Len(stack) + 1)
  BY <1>1, FrontFacts, OneLess
<1>4. /\ FrameIsRight(policy, answers, path, frame) /\ frame.of.kind # "leaf"
  BY <1>1, <1>3 DEF FramesAreRight
<1>5. /\ path \in PathsIn(policy) /\ frame.of = q /\ frame.at \in DOMAIN q.parts
      /\ \A i \in 1..(frame.at - 1) : Known(policy, answers, Append(path, i), frame.of.kind = "and")
      /\ frame.firstDeny =
           IF frame.of.kind = "or"
           THEN FirstReason(answers, UNION {causes(i) : i \in 1..(frame.at - 1)})
           ELSE {}
  BY <1>4 DEF FrameIsRight
<1>6. Continues(Here, Append(path, frame.at))
  <2>1. Continues(WayTo(stack, Len(stack)), WayTo(stack, k + 1))
    BY <1>1, <1>3, WayFacts
  <2>2. WayTo(stack, k + 1) = Append(path, frame.at)
    BY <1>1, <1>3, WayFacts
  <2>3. QED
    BY <2>1, <2>2 DEF Here
<1> HIDE DEF path, frame, answer
<1>7. ASSUME NEW i \in 1..(frame.at - 1)
      PROVE  i \in DOMAIN q.parts /\ i # frame.at
  <2>1. IsComposition(q)
    BY <1>1, <1>4, <1>5, PathFacts DEF IsLeaf
  <2>2. DOMAIN q.parts = 1..Len(q.parts) /\ Len(q.parts) \in Nat
    BY <2>1, PartsAssumption DEF IsComposition
  <2>3. QED
    BY <1>5, <2>2
<1>8. \A i \in 1..(frame.at - 1) : Known(policy, more, Append(path, i), frame.of.kind = "and")
  BY <1>1, <1>2, <1>5, KnownStays
<1>9. ASSUME NEW i \in 1..(frame.at - 1)
      PROVE  after(i) = causes(i)
  <2>1. Append(path, i) \in PathsIn(policy)
    BY <1>1, <1>5, <1>7, PathFacts
  <2>2. ~Continues(Here, Append(path, i))
    BY <1>1, <1>2, <1>5, <1>6, <1>7, Branches
  <2>3. answer.leaf = Here
    BY DEF answer
  <2>4. QED
    BY <1>1, <1>2, <2>1, <2>2, <2>3, CausesStay
<1>10. UNION {after(i) : i \in 1..(frame.at - 1)} = UNION {causes(i) : i \in 1..(frame.at - 1)}
  <2> HIDE DEF after, causes
  <2>1. QED
    BY <1>9
<1>11. UNION {causes(i) : i \in 1..(frame.at - 1)} \in SUBSET DOMAIN answers
  <2>1. \A i : causes(i) \subseteq DOMAIN answers
    BY CauseFacts
  <2> HIDE DEF causes
  <2>2. QED
    BY <2>1
<1>12. FirstReason(more, UNION {after(i) : i \in 1..(frame.at - 1)})
         = FirstReason(answers, UNION {causes(i) : i \in 1..(frame.at - 1)})
  <2> DEFINE A == UNION {after(i) : i \in 1..(frame.at - 1)}
             C == UNION {causes(i) : i \in 1..(frame.at - 1)}
  <2>1. A = C /\ C \in SUBSET DOMAIN answers
    BY <1>10, <1>11
  <2> HIDE DEF A, C, S
  <2>2. FirstReason(more, C) = FirstReason(answers, C)
    BY <1>1, <1>2, <2>1, FirstStays
  <2>3. FirstReason(more, A) = FirstReason(answers, C)
    BY <2>1, <2>2
  <2>4. QED
    BY <2>3 DEF A, C
<1>13. FrameIsRight(policy, more, path, frame)
  BY <1>4, <1>5, <1>8, <1>12 DEF FrameIsRight
<1>14. QED
  BY <1>13 DEF WithAnswer, path, frame, answer


\* What a leaf answers is its value, and its own denial the reason against it.
LEMMA OwnAnswer ==
  ASSUME EvaluationInv, LeafAsked, NEW said \in Answers \ {"throw"}
  PROVE  /\ Known(policy, WithAnswer(said), Here, said = "allow")
         /\ FirstReason(WithAnswer(said), CausesAt(policy, WithAnswer(said), Here))
              = IF said = "deny" THEN {Here} ELSE {}
<1> DEFINE more == WithAnswer(said)
           n == Len(answers) + 1
           causes == CausesAt(policy, more, Here)
<1>1. /\ Here \in LeavesOf(policy) /\ Here \in PathsIn(policy) /\ Here \in Seq(Nat)
      /\ \A i \in DOMAIN answers : Precedes(answers[i].leaf, Here)
      /\ \A i \in DOMAIN answers : more[i] = answers[i] /\ i < n
      /\ DOMAIN more = DOMAIN answers \cup {n} /\ n \in Nat /\ n \notin DOMAIN answers
      /\ more[n].leaf = Here /\ more[n].said = said
      /\ \A i \in DOMAIN more : more[i].leaf \in LeavesOf(policy)
      /\ OnceEach(policy, more)
  BY AnsweredInTurn
<1>2. policy \in Policies /\ PartAt(policy, Here).kind = "leaf"
  BY <1>1 DEF EvaluationInv, PolicyTypeOK, LeavesOf
<1> HIDE DEF more, n
<1>3. \A v \in [LeavesOf(policy) -> BOOLEAN] : HoldsAt(policy, Here, v) = v[Here]
  BY <1>1, <1>2, HoldsFacts
<1>4. Known(policy, more, Here, said = "allow")
  <2>1. ASSUME NEW v \in ValuesOf(policy, more, {})
        PROVE  HoldsAt(policy, Here, v) = (said = "allow")
    <3>1. v \in [LeavesOf(policy) -> BOOLEAN] /\ v[Here] = (said = "allow")
      BY <1>1, ValueFacts
    <3>2. QED
      BY <1>3, <3>1
  <2>2. QED
    BY <2>1 DEF Known
<1>5. \A i \in causes : i = n /\ said = "deny"
  <2> TAKE i \in causes
  <2>1. i \in DOMAIN more /\ more[i].said = "deny" /\ Continues(more[i].leaf, Here)
    BY CauseFacts
  <2>2. ASSUME i \in DOMAIN answers
        PROVE  FALSE
    <3>1. answers[i].leaf \in Seq(Nat)
      BY <1>1, <1>2, <2>1, <2>2, PathFacts DEF LeavesOf
    <3>2. ~Continues(answers[i].leaf, Here)
      BY <1>1, <2>2, <3>1, PrecedesFacts
    <3>3. QED
      BY <1>1, <2>1, <2>2, <3>2
  <2>3. QED
    BY <1>1, <2>1, <2>2
<1>6. said = "deny" => n \in causes
  <2> HAVE said = "deny"
  <2>1. Continues(Here, Here)
    BY <1>1, ContinuesThrough
  <2>2. IsPlain(policy, Here, Here)
    <3>1. ASSUME NEW way \in PathsIn(policy), Continues(way, Here), Continues(Here, way)
          PROVE  way = Here
      <4> DEFINE here == Here
      <4>1. way \in Seq(Nat) /\ here \in Seq(Nat) /\ Continues(way, here) /\ Continues(here, way)
        BY <1>1, <1>2, <3>1, PathFacts
      <4> HIDE DEF here
      <4>2. Len(way) \in Nat /\ Len(here) \in Nat
        BY <4>1
      <4>3. Len(here) = Len(way)
        BY <4>1, <4>2 DEF Continues
      <4>4. here = way
        BY <4>1, <4>3, SamePath
      <4>5. QED
        BY <4>4 DEF here
    <3>2. QED
      BY <1>2, <3>1 DEF IsPlain
  <2>3. PICK base : base \in ValuesOf(policy, more, {})
    BY <1>1, SomeValue
  <2> DEFINE v == [base EXCEPT ![Here] = TRUE]
  <2>4. base \in [LeavesOf(policy) -> BOOLEAN]
        /\ \A i \in DOMAIN more : more[i].said = "throw" \/ base[more[i].leaf] = (more[i].said = "allow")
    BY <2>3, ValueFacts
  <2>5. /\ v \in [LeavesOf(policy) -> BOOLEAN] /\ v[Here]
        /\ \A leaf \in LeavesOf(policy) : leaf # Here => v[leaf] = base[leaf]
    BY <1>1, <2>4
  <2> HIDE DEF v
  <2>6. v \in ValuesOf(policy, more, {Here})
    BY <1>1, <2>4, <2>5 DEF ValuesOf
  <2>7. HoldsAt(policy, Here, v)
    BY <1>3, <2>5
  <2>8. QED
    BY <1>1, <2>1, <2>2, <2>5, <2>6, <2>7, CauseFacts
<1>7. FirstReason(more, causes) = IF said = "deny" THEN {Here} ELSE {}
  <2> HIDE DEF causes
  <2>1. CASE said = "deny"
    <3>1. causes \in SUBSET Nat /\ causes # {}
      BY <1>1, <1>5, <1>6, <2>1
    <3>2. Min(causes) = n
      BY <1>5, <3>1, LeastCause
    <3>3. QED
      BY <1>1, <2>1, <3>1, <3>2 DEF FirstReason
  <2>2. CASE said # "deny"
    <3>1. causes = {}
      BY <1>5, <2>2
    <3>2. QED
      BY <2>2, <3>1 DEF FirstReason
  <2>3. QED
    BY <2>1, <2>2
<1>8. QED
  BY <1>4, <1>7 DEF more

\* A leaf that settles returns its own value and reason.
LEMMA LeafAnswersKeeps ==
  ASSUME EvaluationInv, LeafAnswers
  PROVE  EvaluationInv'
<1>1. PICK said \in Answers \ {"throw"} :
        /\ answers' = WithAnswer(said)
        /\ Return([allowed |-> said = "allow", reason |-> IF said = "deny" THEN {Here} ELSE {}])
  BY DEF LeafAnswers, WithAnswer
<1>2. /\ LeafAsked /\ stack # <<>> /\ Undecided
      /\ \A i \in DOMAIN answers : answers[i].said # "throw"
  BY DEF EvaluationInv, LeafAnswers, LeafAsked, Undecided
<1> DEFINE result == [allowed |-> said = "allow", reason |-> IF said = "deny" THEN {Here} ELSE {}]
           more == WithAnswer(said)
           n == Len(answers) + 1
<1>3. /\ Here \in PathsIn(policy) /\ Here \in Seq(Nat) /\ Here \in Paths
      /\ \A i \in DOMAIN answers : Precedes(answers[i].leaf, Here)
      /\ \A i \in DOMAIN answers : more[i] = answers[i] /\ i < n
      /\ more \in Seq([leaf : Paths, said : Answers])
      /\ DOMAIN more = DOMAIN answers \cup {n}
      /\ more[n].leaf = Here /\ more[n].said = said
      /\ \A i \in DOMAIN more : more[i].leaf \in LeavesOf(policy)
      /\ \A i, j \in DOMAIN more : i < j => Precedes(more[i].leaf, more[j].leaf)
  BY <1>2, AnsweredInTurn
<1>4. result \in Result
  BY <1>3 DEF Result, Reasons
<1>5. /\ Known(policy, more, Here, result.allowed)
      /\ result.reason = IF result.allowed THEN {}
                         ELSE FirstReason(more, CausesAt(policy, more, Here))
  BY <1>2, OwnAnswer
<1>6. \A k \in 1..(Len(stack) - 1) : FrameIsRight(policy, more, WayTo(stack, k), stack[k])
  BY <1>2, FramesStay
<1> HIDE DEF more, n, result
<1>7. answers' = more /\ Return(result) /\ policy' = policy
  BY <1>1, <1>2 DEF more, result, Undecided
<1>8. AskedInOrder'
  BY <1>3, <1>7 DEF AskedInOrder
<1>9. \A i \in DOMAIN more : more[i].said # "throw"
  BY <1>2, <1>3
<1>10. \A i \in DOMAIN more : Precedes(more[i].leaf, Here) \/ Continues(more[i].leaf, Here)
  BY <1>3, ContinuesThrough
<1>11. QED
  BY <1>2, <1>3, <1>4, <1>5, <1>6, <1>7, <1>8, <1>9, <1>10, Returning


\* A throw ends all evaluations without a verdict of the policy.
LEMMA LeafThrowsKeeps ==
  ASSUME EvaluationInv, LeafThrows
  PROVE  EvaluationInv'
<1> DEFINE more == WithAnswer("throw")
           n == Len(answers) + 1
<1>1. /\ LeafAsked /\ stack' = <<>> /\ returned' = {} /\ policy' = policy
      /\ answers' = more /\ outcome' = [verdict |-> "internal-error", reason |-> {}]
  BY DEF LeafThrows, LeafAsked, WithAnswer
<1>2. /\ more \in Seq([leaf : Paths, said : Answers])
      /\ \A i \in DOMAIN more : more[i].leaf \in LeavesOf(policy)
      /\ \A i, j \in DOMAIN more : i < j => Precedes(more[i].leaf, more[j].leaf)
  <2>1. "throw" \in Answers
    BY DEF Answers
  <2>2. QED
    BY <1>1, <2>1, AnsweredInTurn
<1> HIDE DEF more, n
<1>3. outcome'.verdict = "internal-error"
  BY <1>1
<1>4. PolicyTypeOK'
  <2>1. policy \in Policies
    BY DEF EvaluationInv, PolicyTypeOK
  <2>2. <<>> \in Seq(Evaluation)
    OBVIOUS
  <2>3. [verdict |-> "internal-error", reason |-> {}]
          \in [verdict : {"open", "allowed", "rejected", "internal-error"}, reason : Reasons]
    BY DEF Reasons
  <2>4. QED
    BY <1>1, <1>2, <2>1, <2>2, <2>3 DEF PolicyTypeOK
<1>5. AskedInOrder'
  BY <1>1, <1>2 DEF AskedInOrder
<1>6. FramesAreRight'
  <2>1. DOMAIN stack' = {} /\ Len(stack') = 0
    BY <1>1
  <2>2. \A k \in 1..(0 - 1) : FALSE
    OBVIOUS
  <2>3. QED
    BY <2>1, <2>2 DEF FramesAreRight
<1>7. VerdictIsSound' /\ ReasonIsTheFirstCause'
  BY <1>3 DEF VerdictIsSound, ReasonIsTheFirstCause
<1>8. QED
  BY <1>1, <1>3, <1>4, <1>5, <1>6, <1>7 DEF EvaluationInv

\* The runtime takes its verdict from the result for the whole policy.
LEMMA DecideKeeps ==
  ASSUME EvaluationInv, Decide
  PROVE  EvaluationInv'
<1>1. PICK result \in returned : outcome' = Rejection(result)
  BY DEF Decide
<1>2. /\ stack = <<>> /\ stack' = <<>> /\ returned' = {}
      /\ policy' = policy /\ answers' = answers
  BY DEF Decide
<1>3. /\ PolicyTypeOK /\ AskedInOrder /\ FramesAreRight /\ ReturnedIsRight
  <2>1. outcome.verdict = "open"
    BY <1>1 DEF EvaluationInv
  <2>2. QED
    BY <2>1 DEF EvaluationInv
<1>4. /\ result \in Result
      /\ Known(policy, answers, <<>>, result.allowed)
      /\ result.reason =
           IF result.allowed THEN {}
           ELSE FirstReason(answers, CausesAt(policy, answers, <<>>))
  BY <1>1, <1>2, <1>3 DEF ReturnedIsRight, Awaited
<1>5. /\ result.allowed \in BOOLEAN /\ result.reason \in Reasons
  BY <1>4 DEF Result
<1>6. /\ outcome'.verdict = (IF result.allowed THEN "allowed" ELSE "rejected")
      /\ outcome'.reason = result.reason
      /\ outcome' \in [verdict : {"open", "allowed", "rejected", "internal-error"}, reason : Reasons]
  BY <1>1, <1>5 DEF Rejection
<1>7. PolicyTypeOK'
  BY <1>2, <1>3, <1>6 DEF PolicyTypeOK
<1>8. AskedInOrder'
  BY <1>2, <1>3 DEF AskedInOrder
<1>9. FramesAreRight'
  <2>1. DOMAIN stack' = {} /\ Len(stack') = 0
    BY <1>2
  <2>2. \A k \in 1..(0 - 1) : FALSE
    OBVIOUS
  <2>3. QED
    BY <2>1, <2>2 DEF FramesAreRight
<1>10. VerdictIsSound'
  <2>1. \A v \in ValuesOf(policy, answers, {}) : HoldsAt(policy, <<>>, v) = result.allowed
    BY <1>4 DEF Known
  <2>2. outcome'.verdict = "allowed" =>
          \A v \in ValuesOf(policy', answers', {}) : HoldsAt(policy', <<>>, v)
    BY <1>2, <1>5, <1>6, <2>1
  <2>3. outcome'.verdict = "rejected" =>
          \A v \in ValuesOf(policy', answers', {}) : ~HoldsAt(policy', <<>>, v)
    BY <1>2, <1>5, <1>6, <2>1
  <2>4. QED
    BY <2>2, <2>3 DEF VerdictIsSound, Values, Holds
<1>11. ReasonIsTheFirstCause'
  <2>1. outcome'.verdict = "rejected" =>
          outcome'.reason = FirstReason(answers', CausesAt(policy', answers', <<>>))
    BY <1>2, <1>4, <1>5, <1>6
  <2>2. QED
    BY <2>1 DEF ReasonIsTheFirstCause
<1>12. outcome'.verdict # "open"
  BY <1>5, <1>6
<1>13. QED
  BY <1>2, <1>7, <1>8, <1>9, <1>10, <1>11, <1>12 DEF EvaluationInv

(***************************************************************************)
(* The theorems.                                                           *)
(***************************************************************************)

\* At first nothing was asked, and nothing passed.
LEMMA EvaluationStarts ==
  PolicyInit => EvaluationInv
<1> SUFFICES ASSUME PolicyInit
             PROVE  EvaluationInv
  OBVIOUS
<1> DEFINE frame == Frame(policy)
<1>1. /\ policy \in Policies /\ stack = <<frame>> /\ returned = {} /\ answers = <<>>
      /\ outcome = [verdict |-> "open", reason |-> {}] /\ outcome.verdict = "open"
  BY DEF PolicyInit
<1>2. /\ frame.of = policy /\ frame.at = 1 /\ frame.firstDeny = {} /\ frame \in Evaluation
  <2>1. 1 \in 1..Parts
    BY PartsAssumption
  <2>2. QED
    BY <1>1, <2>1 DEF Frame, Evaluation, Reasons
<1> HIDE DEF frame
<1>3. /\ stack \in Seq(Evaluation) /\ Len(stack) = 1 /\ DOMAIN stack = {1}
      /\ stack[1] = frame /\ stack # <<>>
  BY <1>1, <1>2
<1>4. PolicyTypeOK
  <2>1. answers \in Seq([leaf : Paths, said : Answers])
    BY <1>1
  <2>2. outcome \in [verdict : {"open", "allowed", "rejected", "internal-error"}, reason : Reasons]
    BY <1>1 DEF Reasons
  <2>3. QED
    BY <1>1, <1>3, <2>1, <2>2 DEF PolicyTypeOK
<1>5. DOMAIN answers = {}
  BY <1>1
<1>6. WayTo(stack, 1) = <<>>
  <2>1. 1 \in 1..(Len(stack) + 1)
    BY <1>3
  <2>2. QED
    BY <1>3, <2>1, WayFacts
<1>7. /\ <<>> \in PathsIn(policy) /\ PartAt(policy, <<>>) = policy
      /\ IsLeaf(policy) \/ (IsComposition(policy) /\ 1 \in DOMAIN policy.parts)
  <2>1. <<>> \in PathsIn(policy) /\ PartAt(policy, <<>>) = policy
    BY DEF PathsIn, PartAt
  <2>2. IsComposition(policy) => 1 \in DOMAIN policy.parts
    BY PartsAssumption DEF IsComposition
  <2>3. QED
    BY <1>1, <2>1, <2>2, LevelFacts
<1>8. FrameIsRight(policy, answers, <<>>, frame)
  <2>1. \A i \in 1..(frame.at - 1) : FALSE
    BY <1>2
  <2>2. UNION {CausesAt(policy, answers, Append(<<>>, i)) : i \in 1..(frame.at - 1)} = {}
    BY <2>1
  <2>3. frame.at \in DOMAIN frame.of.parts \/ (frame.of.kind = "leaf" /\ frame.at = 1)
    BY <1>2, <1>7 DEF IsLeaf
  <2>4. QED
    BY <1>2, <1>7, <2>1, <2>2, <2>3 DEF FrameIsRight, FirstReason
<1>9. FramesAreRight
  <2>1. \A k \in 1..(Len(stack) - 1) : FALSE
    BY <1>3
  <2>2. QED
    BY <1>3, <1>6, <1>8, <2>1 DEF FramesAreRight
<1>10. QED
  BY <1>1, <1>3, <1>4, <1>5, <1>9
     DEF EvaluationInv, AskedInOrder, AskedSoFar, ReturnedIsRight, VerdictIsSound, ReasonIsTheFirstCause

\* Every step keeps the invariant.
LEMMA EvaluationGoesOn ==
  EvaluationInv /\ [PolicyNext]_policyVars => EvaluationInv'
<1> SUFFICES ASSUME EvaluationInv, [PolicyNext]_policyVars
             PROVE  EvaluationInv'
  OBVIOUS
<1>1. CASE AskPart
  BY <1>1, AskPartKeeps
<1>2. CASE LeafAnswers
  BY <1>2, LeafAnswersKeeps
<1>3. CASE LeafThrows
  BY <1>3, LeafThrowsKeeps
<1>4. CASE AndStep
  <2>1. outcome.verdict = "open"
    BY <1>4 DEF AndStep, PartReturned, EvaluationInv
  <2>2. QED
    BY <1>4, <2>1, AndStepKeeps
<1>5. CASE OrStep
  <2>1. outcome.verdict = "open"
    BY <1>5 DEF OrStep, PartReturned, EvaluationInv
  <2>2. QED
    BY <1>5, <2>1, OrStepKeeps
<1>6. CASE NotStep
  <2>1. outcome.verdict = "open"
    BY <1>6 DEF NotStep, PartReturned, EvaluationInv
  <2>2. QED
    BY <1>6, <2>1, NotStepKeeps
<1>7. CASE Decide
  BY <1>7, DecideKeeps
<1>8. CASE UNCHANGED policyVars
  <2>1. /\ policy' = policy /\ stack' = stack /\ returned' = returned
        /\ answers' = answers /\ outcome' = outcome
    BY <1>8 DEF policyVars
  <2>2. PolicyTypeOK' = PolicyTypeOK /\ AskedInOrder' = AskedInOrder
    BY <2>1 DEF PolicyTypeOK, AskedInOrder
  <2>3. FramesAreRight' = FramesAreRight
    BY <2>1 DEF FramesAreRight
  <2>4. Awaited' = Awaited
    BY <2>1 DEF Awaited, Top, Here
  <2>5. AskedSoFar' = AskedSoFar
    BY <2>1, <2>4 DEF AskedSoFar
  <2>6. ReturnedIsRight' = ReturnedIsRight
    BY <2>1, <2>4 DEF ReturnedIsRight, Top
  <2>7. VerdictIsSound' = VerdictIsSound
    BY <2>1 DEF VerdictIsSound, Values, Holds
  <2>8. ReasonIsTheFirstCause' = ReasonIsTheFirstCause
    BY <2>1 DEF ReasonIsTheFirstCause
  <2>9. QED
    BY <2>1, <2>2, <2>3, <2>5, <2>6, <2>7, <2>8 DEF EvaluationInv
<1>9. QED
  BY <1>1, <1>2, <1>3, <1>4, <1>5, <1>6, <1>7, <1>8 DEF PolicyNext

\* While a policy is evaluated, every evaluation under way is right about the parts
\* it has passed, and so is the result that has been returned, in its value and in
\* its reason.
THEOREM EvaluationInvariance == PolicySpec => []EvaluationInv
<1>1. QED
  BY EvaluationStarts, EvaluationGoesOn, PTL DEF PolicySpec


\* As long as a leaf is awaited, the parts that lead to it are open, one above the other.
LEMMA OpenWay ==
  ASSUME EvaluationInv, LeafAsked, NEW k \in 1..(Len(stack) - 1),
         Open(policy, answers, WayTo(stack, k + 1))
  PROVE  Open(policy, answers, WayTo(stack, k))
<1> DEFINE path == WayTo(stack, k)
           at == stack[k].at
           q == PartAt(policy, path)
<1>1. /\ PolicyTypeOK /\ FramesAreRight /\ AskedInOrder /\ AskedSoFar /\ returned = {}
      /\ policy \in Policies /\ stack \in Seq(Evaluation) /\ stack # <<>> /\ Top.of.kind = "leaf"
  BY DEF EvaluationInv, LeafAsked, PolicyTypeOK
<1>2. OnceEach(policy, answers)
  BY <1>1, AnsweredOnce
<1>3. /\ Here \in PathsIn(policy) /\ Here \in Seq(Nat) /\ Awaited = Here
  BY <1>1, StackFacts, PathFacts
<1>4. /\ Len(stack) \in Nat \ {0} /\ DOMAIN stack = 1..Len(stack)
      /\ k \in DOMAIN stack /\ k + 1 \in 1..Len(stack) /\ k \in 1..(Len(stack) + 1)
      /\ k # Len(stack) + 1 /\ Len(stack) \in 1..(Len(stack) + 1)
  BY <1>1, FrontFacts, OneLess
<1>5. /\ FrameIsRight(policy, answers, path, stack[k]) /\ stack[k].of.kind # "leaf"
  BY <1>1, <1>4 DEF FramesAreRight
<1>6. /\ path \in PathsIn(policy) /\ stack[k].of = q /\ at \in DOMAIN q.parts
      /\ \A i \in 1..(at - 1) : Known(policy, answers, Append(path, i), q.kind = "and")
  BY <1>5 DEF FrameIsRight
<1>7. /\ path \in Seq(Nat) /\ DOMAIN q.parts = 1..Len(q.parts) /\ Len(q.parts) \in Nat
      /\ \A i \in DOMAIN q.parts : i \in Nat /\ Append(path, i) \in PathsIn(policy)
  <2>1. IsComposition(q)
    BY <1>1, <1>5, <1>6, PathFacts DEF IsLeaf
  <2>2. Len(q.parts) \in Nat
    BY <2>1, PartsAssumption DEF IsComposition
  <2>3. DOMAIN q.parts = 1..Len(q.parts)
    BY <2>1 DEF IsComposition
  <2>4. path \in Seq(Nat) /\ \A i \in DOMAIN q.parts : Append(path, i) \in PathsIn(policy)
    BY <1>1, <1>6, PathFacts
  <2>5. \A i \in 1..Len(q.parts) : i \in Nat
    OBVIOUS
  <2>6. QED
    BY <2>2, <2>3, <2>4, <2>5
<1>8. WayTo(stack, k + 1) = Append(path, at) /\ Continues(Here, Append(path, at))
  <2>1. Continues(WayTo(stack, Len(stack)), WayTo(stack, k + 1))
    BY <1>1, <1>4, WayFacts
  <2>2. WayTo(stack, k + 1) = Append(path, at)
    BY <1>1, <1>4, WayFacts
  <2>3. QED
    BY <2>1, <2>2 DEF Here
<1> HIDE DEF path, at
<1>9. \A i \in DOMAIN q.parts : i < at => Known(policy, answers, Append(path, i), q.kind = "and")
  <2>1. at \in Nat /\ \A i \in DOMAIN q.parts : i \in Nat /\ i >= 1
    BY <1>6, <1>7
  <2>2. \A i \in DOMAIN q.parts : i < at => i \in 1..(at - 1)
    BY <2>1
  <2>3. QED
    BY <1>6, <2>2
<1>10. ASSUME NEW i \in DOMAIN q.parts, ~(i < at)
       PROVE  Open(policy, answers, Append(path, i))
  <2>1. CASE i = at
    BY <1>8, <2>1 DEF path
  <2>2. CASE i # at
    <3>1. i \in Nat /\ at \in Nat /\ at < i /\ Append(path, i) \in PathsIn(policy)
          /\ Append(path, i) \in Seq(Nat)
      BY <1>6, <1>7, <1>10, <2>2
    <3>2. ASSUME NEW j \in DOMAIN answers, Continues(answers[j].leaf, Append(path, i))
          PROVE  FALSE
      <4> DEFINE leaf == answers[j].leaf
                 here == Here
                 way == Append(path, i)
      <4>1. leaf \in Seq(Nat) /\ here \in Seq(Nat) /\ way \in Seq(Nat)
            /\ Precedes(leaf, here) /\ Continues(leaf, way)
        BY <1>1, <1>3, <3>1, <3>2, PathFacts DEF AskedInOrder, LeavesOf, AskedSoFar
      <4>2. Precedes(here, way)
        BY <1>3, <1>7, <1>8, <3>1, EarlierPart
      <4> HIDE DEF leaf, here, way
      <4>3. Precedes(here, leaf)
        BY <4>1, <4>2, PrecedesFacts
      <4>4. QED
        BY <4>1, <4>3, PrecedesFacts
    <3>3. QED
      BY <1>1, <1>2, <3>1, <3>2, OpenUntouched
  <2>3. QED
    BY <2>1, <2>2
<1>11. Open(policy, answers, path)
  BY <1>1, <1>2, <1>6, <1>9, <1>10, OpenAbove
<1>12. QED
  BY <1>11 DEF path

\* A leaf that is awaited can still decide: its value and those of later parts are open.
LEMMA NoneInVain ==
  EvaluationInv => AskedRightly
<1> SUFFICES ASSUME EvaluationInv, LeafAsked
             PROVE  /\ Top.of.scope = policy.scope
                    /\ \E value, other \in Values({}) : Holds(value) /\ ~Holds(other)
  BY DEF AskedRightly
<1>1. /\ PolicyTypeOK /\ FramesAreRight /\ AskedInOrder /\ AskedSoFar /\ returned = {}
      /\ policy \in Policies /\ stack \in Seq(Evaluation) /\ stack # <<>> /\ Top.of.kind = "leaf"
  BY DEF EvaluationInv, LeafAsked, PolicyTypeOK
<1>2. /\ Here \in PathsIn(policy) /\ Top.of = PartAt(policy, Here) /\ Awaited = Here
  BY <1>1, StackFacts
<1>3. Here \in Seq(Nat) /\ Len(Here) \in 0..2 /\ Top.of.scope = policy.scope
  BY <1>1, <1>2, PathFacts
<1>4. Open(policy, answers, WayTo(stack, Len(stack)))
  <2>1. ASSUME NEW i \in DOMAIN answers
        PROVE  ~Continues(answers[i].leaf, Here)
    <3>1. answers[i].leaf \in Seq(Nat) /\ Precedes(answers[i].leaf, Here)
      BY <1>1, <1>2, PathFacts DEF AskedInOrder, LeavesOf, AskedSoFar
    <3>2. QED
      BY <1>3, <3>1, PrecedesFacts
  <2>2. Open(policy, answers, Here)
    BY <1>1, <1>2, <2>1, AnsweredOnce, OpenUntouched
  <2>3. QED
    BY <2>2 DEF Here
<1>5. Len(stack) \in {1, 2, 3}
  <2>1. Len(stack) \in Nat \ {0} /\ Len(stack) \in 1..(Len(stack) + 1)
    BY <1>1, FrontFacts, OneLess
  <2>2. Len(Here) = Len(stack) - 1
    BY <1>1, <2>1, WayFacts DEF Here
  <2>3. QED
    BY <1>3, <2>1, <2>2
<1>6. Open(policy, answers, WayTo(stack, 1))
  <2>1. CASE Len(stack) = 1
    BY <1>4, <2>1
  <2>2. CASE Len(stack) = 2
    <3>1. 1 \in 1..(Len(stack) - 1) /\ 1 + 1 = 2
      BY <2>2
    <3>2. Open(policy, answers, WayTo(stack, 1 + 1))
      BY <1>4, <2>2, <3>1
    <3>3. QED
      BY <3>1, <3>2, OpenWay
  <2>3. CASE Len(stack) = 3
    <3>1. 1 \in 1..(Len(stack) - 1) /\ 2 \in 1..(Len(stack) - 1) /\ 1 + 1 = 2 /\ 2 + 1 = 3
      BY <2>3
    <3>2. Open(policy, answers, WayTo(stack, 2 + 1))
      BY <1>4, <2>3, <3>1
    <3>3. Open(policy, answers, WayTo(stack, 2))
      BY <3>1, <3>2, OpenWay
    <3>4. Open(policy, answers, WayTo(stack, 1 + 1))
      BY <3>1, <3>3
    <3>5. QED
      BY <3>1, <3>4, OpenWay
  <2>4. QED
    BY <1>5, <2>1, <2>2, <2>3
<1>7. WayTo(stack, 1) = <<>>
  <2>1. 1 \in 1..(Len(stack) + 1)
    BY <1>5
  <2>2. QED
    BY <1>1, <2>1, WayFacts
<1>8. /\ \E v \in ValuesOf(policy, answers, {}) : HoldsAt(policy, <<>>, v) = TRUE
      /\ \E v \in ValuesOf(policy, answers, {}) : HoldsAt(policy, <<>>, v) = FALSE
  BY <1>6, <1>7 DEF Open
<1>9. \E value, other \in Values({}) : Holds(value) /\ ~Holds(other)
  BY <1>8 DEF Values, Holds
<1>10. QED
  BY <1>3, <1>9

\* An evaluation keeps to the parts of the policy, and its reasons to their leaves.
THEOREM PolicyTypes == PolicySpec => []PolicyTypeOK
<1>1. EvaluationInv => PolicyTypeOK
  BY DEF EvaluationInv
<1>2. QED
  BY <1>1, EvaluationInvariance, PTL

\* The verdict of a composed policy is its Boolean value, whatever the evaluators that
\* the early exits of andPolicy and orPolicy left out would have said.
THEOREM EarlyExitsAreSound == PolicySpec => []VerdictIsSound
<1>1. EvaluationInv => VerdictIsSound
  BY DEF EvaluationInv
<1>2. QED
  BY <1>1, EvaluationInvariance, PTL

\* An evaluator is called with the context of its own scope, and only while its answer
\* can still change the verdict.
THEOREM EvaluatorsAskedRightly == PolicySpec => []AskedRightly
<1>1. QED
  BY NoneInVain, EvaluationInvariance, PTL

\* A rejection carries the reason of the first evaluator whose denial stands against
\* the policy by itself, through and, or and not composed on two levels.
THEOREM RejectionsGiveFirstCause == PolicySpec => []ReasonIsTheFirstCause
<1>1. EvaluationInv => ReasonIsTheFirstCause
  BY DEF EvaluationInv
<1>2. QED
  BY <1>1, EvaluationInvariance, PTL

==============================================================================
