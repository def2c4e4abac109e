-------------------------- MODULE ChannelAddressing --------------------------
(***************************************************************************)
(* How one channel is addressed along its whole way: the key a user gives, *)
(* the instance the client makes of it, the request, the instance the      *)
(* server makes of that, the room, the adapter's record, the audience of   *)
(* an event and the subscription it has to find on arrival                 *)
(* (packages/contracts/src/channel/index.ts, client and server runtimes,   *)
(* both Socket.IO bindings).                                               *)
(*                                                                         *)
(* Each side normalizes what it gets with the schema of the channel: the   *)
(* adapter and the runtime normalize keys that are normalized already.     *)
(* One socket, one session, one channel contract; the server handles each  *)
(* request at once, and no hook or room operation fails (SocketIoAdapter   *)
(* takes the handlers apart and lets them fail).                           *)
(***************************************************************************)
EXTENDS Naturals, SequencesExt

CONSTANTS
  Keys,          \* values a user or a schema may give
  Invalid,       \* what a schema rejects
  MaxCalls,      \* bound: calls of the client
  MaxEmissions   \* bound: emissions of the server

ASSUME BoundsAssumption == MaxCalls \in Nat /\ MaxEmissions \in Nat
ASSUME InvalidAssumption == Invalid \notin Keys

VARIABLES
  schema,         \* the key schema of the contract: validates and transforms
  subscriptions,  \* channelSubscriptions of the client
  operations,     \* subscribe and unsubscribe calls that await their answer
  calls,          \* how many there were
  requests,       \* on the wire to the server
  toClient,       \* on the wire to the client: answers and events
  online,
  members,        \* channels the runtime has the socket in
  rooms,          \* Socket.IO rooms of the socket
  joined,         \* keys in joinedChannelsBySocketId
  deliveries,     \* events whose audience was read, not emitted yet
  emissions,      \* how many there were
  missed          \* events that found no subscription, for the properties

client == <<subscriptions, operations, calls>>
server == <<members, rooms, joined>>
vars == <<schema, client, requests, toClient, online, server, deliveries, emissions, missed>>

Operation == [kind : {"subscribe", "unsubscribe"}, key : Keys]
\* An event is owed to the client if it was subscribed when the audience was read
\* and has not called unsubscribe since.
Event == [channel : Keys, owed : BOOLEAN]
Message ==
  [type : {"answer"}, to : Operation, ok : BOOLEAN] \cup [type : {"event"}, event : Event]

TypeOK ==
  /\ schema \in [Keys -> Keys \cup {Invalid}]
  /\ subscriptions \subseteq Keys
  /\ operations \subseteq Operation
  /\ calls \in 0..MaxCalls
  /\ requests \in Seq(Operation)
  /\ toClient \in Seq(Message)
  /\ online \in BOOLEAN
  /\ members \subseteq Keys /\ rooms \subseteq Keys /\ joined \subseteq Keys
  /\ deliveries \subseteq Event
  /\ emissions \in 0..MaxEmissions
  /\ missed \subseteq Event

Init ==
  /\ schema \in [Keys -> Keys \cup {Invalid}]
  /\ subscriptions = {} /\ operations = {} /\ calls = 0
  /\ requests = <<>> /\ toClient = <<>>
  /\ online = TRUE
  /\ members = {} /\ rooms = {} /\ joined = {}
  /\ deliveries = {} /\ emissions = 0
  /\ missed = {}

(***************************************************************************)
(* Identity.  The id of an instance, name and serialized key, tells keys   *)
(* apart, so that a normalized key stands for it and for its room.         *)
(***************************************************************************)

\* parseChannelKey.
IsValid(key) == key # Invalid /\ schema[key] # Invalid

\* createChannelInstance.
Instance(key) == schema[key]

(***************************************************************************)
(* Client.                                                                 *)
(***************************************************************************)

\* Events on the way to a channel that the client does not want any more.
Unwanted(event, key) ==
  IF event.channel = key THEN [event EXCEPT !.owed = FALSE] ELSE event

Call(kind, id) ==
  /\ online
  /\ calls < MaxCalls
  /\ \A operation \in operations : operation.key # id
  /\ operations' = operations \cup {[kind |-> kind, key |-> id]}
  /\ requests' = Append(requests, [kind |-> kind, key |-> id])
  /\ calls' = calls + 1
  /\ UNCHANGED <<schema, subscriptions, online, server, emissions, missed>>

\* subscribeChannel: nothing is asked for what is subscribed.
Subscribe(raw) ==
  /\ IsValid(raw)
  /\ Instance(raw) \notin subscriptions
  /\ Call("subscribe", Instance(raw))
  /\ UNCHANGED <<toClient, deliveries>>

\* unsubscribeChannel.
Unsubscribe(raw) ==
  /\ IsValid(raw)
  /\ Instance(raw) \in subscriptions
  /\ Call("unsubscribe", Instance(raw))
  /\ deliveries' = {Unwanted(event, Instance(raw)) : event \in deliveries}
  /\ toClient' = [i \in DOMAIN toClient |->
                    IF toClient[i].type = "event"
                    THEN [toClient[i] EXCEPT !.event = Unwanted(@, Instance(raw))]
                    ELSE toClient[i]]

\* Mutant: an unsubscribe clears the map.
SettleAll(operation, ok) ==
  CASE ~ok -> subscriptions
    [] ok /\ operation.kind = "subscribe"   -> subscriptions \cup {operation.key}
    [] ok /\ operation.kind = "unsubscribe" -> {}

\* Mutant: the whole request is stored in the place of its key.
SettleWhole(operation, ok) ==
  CASE ~ok -> subscriptions
    [] ok /\ operation.kind = "subscribe"   -> subscriptions \cup {operation}
    [] ok /\ operation.kind = "unsubscribe" -> subscriptions \ {operation}

\* What an answer makes of the subscriptions.
Settle(operation, ok) ==
  CASE ~ok -> subscriptions
    [] ok /\ operation.kind = "subscribe"   -> subscriptions \cup {operation.key}
    [] ok /\ operation.kind = "unsubscribe" -> subscriptions \ {operation.key}

ReceiveAnswer ==
  /\ toClient # <<>>
  /\ Head(toClient).type = "answer"
  /\ LET answer == Head(toClient)
     IN  /\ operations' = operations \ {answer.to}
         /\ subscriptions' = Settle(answer.to, answer.ok)
  /\ toClient' = Tail(toClient)
  /\ UNCHANGED <<schema, calls, requests, online, server, deliveries, emissions, missed>>

\* An inbound event: dispatched if its channelId is subscribed, reported otherwise.
ReceiveEvent ==
  /\ toClient # <<>>
  /\ Head(toClient).type = "event"
  /\ LET event == Head(toClient).event
     IN  missed' = IF event.channel \in subscriptions THEN missed ELSE missed \cup {event}
  /\ toClient' = Tail(toClient)
  /\ UNCHANGED <<schema, client, requests, online, server, deliveries, emissions>>

(***************************************************************************)
(* Server.                                                                 *)
(***************************************************************************)

\* The next request is handled and answered.
Handle(kind, ok) ==
  /\ requests # <<>>
  /\ Head(requests).kind = kind
  /\ requests' = Tail(requests)
  /\ toClient' = Append(toClient, [type |-> "answer", to |-> Head(requests), ok |-> ok])
  /\ UNCHANGED <<schema, client, online, deliveries, emissions, missed>>

\* joinChannel admits the socket, which is put in the room and remembered under the
\* key of the membership.
Join ==
  /\ Handle("subscribe", TRUE)
  /\ IsValid(Head(requests).key)
  /\ LET key == Instance(Head(requests).key)
     IN  /\ members' = members \cup {key}
         /\ rooms' = rooms \cup {key}
         /\ joined' = joined \cup {key}

\* The key is invalid, or a policy or the authorizer refuses.
RefuseJoin ==
  /\ Handle("subscribe", FALSE)
  /\ UNCHANGED server

\* Mutant: room and record keep what the runtime gives up.
LeaveRuntimeOnly ==
  /\ Handle("unsubscribe", TRUE)
  /\ IsValid(Head(requests).key)
  /\ IsValid(Instance(Head(requests).key))
  /\ members' = members \ {Instance(Instance(Head(requests).key))}
  /\ UNCHANGED <<rooms, joined>>

\* The adapter leaves the room of the instance it makes of the key, and has the
\* runtime leave, which makes an instance of that.
Leave ==
  /\ Handle("unsubscribe", TRUE)
  /\ LET key == Head(requests).key
     IN  /\ IsValid(key)
         /\ IsValid(Instance(key))
         /\ rooms' = rooms \ {Instance(key)}
         /\ members' = members \ {Instance(Instance(key))}
         /\ joined' = joined \ {Instance(key)}

\* The adapter rejects the key, or the runtime what the adapter makes of it; by then
\* the room is left, and the record forgotten.
RefuseLeave ==
  /\ Handle("unsubscribe", FALSE)
  /\ LET key  == Head(requests).key
         left == IF IsValid(key) THEN {Instance(key)} ELSE {}
     IN  /\ ~IsValid(key) \/ ~IsValid(Instance(key))
         /\ rooms' = rooms \ left
         /\ joined' = joined \ left
  /\ UNCHANGED members

\* The channels that the cleanup leaves: the runtime normalizes the record again.
Cleaned == {Instance(key) : key \in {k \in joined : IsValid(k)}}

\* The connection breaks; the wires are lost, the calls end by their timeouts.
Disconnect ==
  /\ online
  /\ online' = FALSE
  /\ requests' = <<>> /\ toClient' = <<>> /\ operations' = {}
  /\ rooms' = {}
  /\ members' = members \ Cleaned
  /\ joined' = {}
  /\ UNCHANGED <<schema, subscriptions, calls, deliveries, emissions, missed>>

\* An event is routed to the id that createSocketIoChannelRoute makes of a key as it
\* is, and its audience is read.
Route(key) ==
  /\ online
  /\ emissions < MaxEmissions
  /\ emissions' = emissions + 1
  /\ deliveries' =
       IF key \in members
       THEN deliveries \cup {[channel |-> key,
              owed |-> key \in subscriptions /\ \A o \in operations : o.key # key]}
       ELSE deliveries
  /\ UNCHANGED <<schema, client, requests, toClient, online, server, missed>>

\* The receive policies allow it and the deliverer emits to the socket, or not.
Deliver ==
  /\ \E event \in deliveries, allowed \in BOOLEAN :
       /\ deliveries' = deliveries \ {event}
       /\ toClient' = IF allowed /\ online
                      THEN Append(toClient, [type |-> "event", event |-> event])
                      ELSE toClient
  /\ UNCHANGED <<schema, client, requests, online, server, emissions, missed>>

Next ==
  \/ \E raw \in Keys : Subscribe(raw) \/ Unsubscribe(raw) \/ Route(raw)
  \/ ReceiveAnswer \/ ReceiveEvent
  \/ Join \/ RefuseJoin \/ Leave \/ RefuseLeave
  \/ Deliver \/ Disconnect

Spec == Init /\ [][Next]_vars

(***************************************************************************)
(* Properties.                                                             *)
(***************************************************************************)

\* To normalize a normalized key changes nothing.
Idempotent == \A key \in Keys : IsValid(key) => schema[Instance(key)] = Instance(key)

\* While no call is under way, client, runtime, Socket.IO and the adapter's record
\* name the same channels, although each made its own instances: if to normalize
\* again changes nothing.  With a schema that, say, prepends a prefix, the client is
\* subscribed to one channel and a member of another.
SidesNameOneChannel ==
  Idempotent /\ online /\ operations = {} =>
    subscriptions = members /\ members = rooms /\ rooms = joined

\* A closed socket is a member of no channel: the record that the cleanup works
\* from addresses every membership, if to normalize again changes nothing.
CleanupFindsMemberships == Idempotent /\ ~online => members = {}

\* The instances that each side makes of a channel lead to one another, while the
\* socket is connected and when it is cleaned up.
AddressesAgree == SidesNameOneChannel /\ CleanupFindsMemberships

\* An event whose audience was read while the client was subscribed finds the
\* subscription when it arrives, unless the client has called unsubscribe since:
\* whatever answers overtake it or are overtaken, and whatever the schema does.
OwedEventsArrive == \A event \in missed : ~event.owed

(***************************************************************************)
(* The inductive invariant behind the theorems of Contracts_proofs.        *)
(***************************************************************************)

AnswersOnWire == {i \in DOMAIN toClient : toClient[i].type = "answer"}

\* A key has one call at a time, and what is on the wires belongs to the calls: a
\* request or an answer, once.  Nothing is on the wires of a broken connection.
PendingOnce ==
  /\ \A o, p \in operations : o.key = p.key => o = p
  /\ \A i \in DOMAIN requests : requests[i] \in operations
  /\ \A i \in AnswersOnWire : toClient[i].to \in operations
  /\ \A i, j \in DOMAIN requests : requests[i] = requests[j] => i = j
  /\ \A i, j \in AnswersOnWire : toClient[i].to = toClient[j].to => i = j
  /\ \A i \in DOMAIN requests, j \in AnswersOnWire : requests[i] # toClient[j].to
  /\ ~online => operations = {} /\ requests = <<>> /\ toClient = <<>>

\* An event that is owed is for a subscription that no call is about to end.
Expected(event) ==
  event.owed =>
    event.channel \in subscriptions /\ \A o \in operations : o.key # event.channel

OwedIsExpected ==
  /\ \A event \in deliveries : Expected(event)
  /\ \A i \in DOMAIN toClient : toClient[i].type = "event" => Expected(toClient[i].event)

\* Nothing happens to a key that is normalized again.
Fixed(key) == schema[key] = key

\* With an idempotent schema all parts of the server name the same channels, by keys
\* that stay as they are.
ServerIsOne ==
  /\ \A o \in operations : Fixed(o.key)
  /\ \A key \in members : Fixed(key)
  /\ rooms = members /\ joined = members
  /\ ~online => members = {}

\* And the client's subscription of a key differs from the membership only while an
\* answer that will make up for it is on the wire.
ClientFollows ==
  /\ \A i \in DOMAIN requests :
       LET o == requests[i]
       IN  /\ o.key \in subscriptions <=> o.kind = "unsubscribe"
           /\ o.key \in members <=> o.kind = "unsubscribe"
  /\ \A i \in AnswersOnWire :
       LET o == toClient[i].to
       IN  /\ o.key \in subscriptions <=> o.kind = "unsubscribe"
           /\ o.key \in members <=> (o.kind = "subscribe" <=> toClient[i].ok)
  /\ online => \A key \in Keys :
       (\A o \in operations : o.key # key) => (key \in subscriptions <=> key \in members)

AddressInv ==
  /\ TypeOK
  /\ PendingOnce
  /\ OwedIsExpected /\ OwedEventsArrive
  /\ Idempotent => ServerIsOne /\ ClientFollows

=============================================================================
