------------------------- MODULE CommandErrors_proofs -------------------------
(***************************************************************************)
(* Machine-checked facts about commands: about CommandCall, for every set  *)
(* of calls, every number of checks and sessions, and every choice of      *)
(* timeouts and signals; then, resting on them, about CommandErrors, for   *)
(* every set of names, every input schema and every choice of thrown codes.*)
(***************************************************************************)
EXTENDS CommandErrors, TLAPS

(***************************************************************************)
(* A call: CommandCall.                                                    *)
(***************************************************************************)

\* The invariant holds initially.
LEMMA Initial ==
  ASSUME Init
  PROVE  IInv
<1>1. TypeOK
  <2>1. NewCall \in Call
    BY DEF NewCall, Call
  <2>2. call \in [Calls -> Call]
    BY <2>1 DEF Init
  <2>3. server \in [Calls -> [stage : {"none", "checking", "running", "done"}, check : Nat]]
    BY DEF Init
  <2>4. session \in 0..MaxSessions
    BY BoundsAssumption DEF Init
  <2>5. /\ wire \in [Calls -> Wire]
        /\ runs \in [Calls -> Nat]
        /\ passed \in SUBSET (Calls \X Nat)
    BY DEF Init, Wire
  <2>6. QED
    BY <2>2, <2>3, <2>4, <2>5 DEF Init, TypeOK
<1>2. PlacesAgree /\ ChecksInOrder /\ HandlersAreGuarded /\ SettledLeavesNothing
  BY DEF Init, NewCall, PlacesAgree, ChecksInOrder, HandlersAreGuarded,
         SettledLeavesNothing
<1>3. QED
  BY <1>1, <1>2 DEF IInv

\* The end of a session loses requests and answers, and nothing else.
LEMMA SessionEnd ==
  ASSUME IInv, EndSession, UNCHANGED <<call, session, pipeline>>, isDestroyed' \in BOOLEAN
  PROVE  IInv'
  BY DEF EndSession, pipeline, IInv, TypeOK, PlacesAgree, ChecksInOrder,
         HandlersAreGuarded, SettledLeavesNothing, Call, Wire

\* A step of the client runtime keeps the invariant.
LEMMA ClientStep ==
  ASSUME IInv, NEW k \in Calls,
         ExecuteCommand(k) \/ RejectUnsent(k) \/ Timeout(k) \/ Abort(k) \/ ReceiveAnswer(k)
  PROVE  IInv'
<1> USE DEF IInv, TypeOK, PlacesAgree, ChecksInOrder, HandlersAreGuarded,
            SettledLeavesNothing, transport, pipeline, Call, Wire
<1>1. CASE ExecuteCommand(k)
  BY <1>1, CallsAssumption DEF ExecuteCommand, Pending, Emitted
<1>2. CASE RejectUnsent(k)
  BY <1>2 DEF RejectUnsent
<1>3. CASE Timeout(k)
  BY <1>3 DEF Timeout, Settle, Settled
<1>4. CASE Abort(k)
  BY <1>4 DEF Abort, Settle, Settled
<1>5. CASE ReceiveAnswer(k)
  <2>1. /\ wire' = [wire EXCEPT ![k] = "closed"]
        /\ wire[k] \in {"ack", "error"}
        /\ UNCHANGED <<isDestroyed, transport, pipeline>>
    BY <1>5 DEF ReceiveAnswer
  <2>2. CASE call' = [call EXCEPT ![k] = Settled("rejected")] /\ call[k].stage = "pending"
    BY <2>1, <2>2 DEF Settled
  <2>3. CASE call' = [call EXCEPT ![k] = Settled("resolved")] /\ call[k].stage = "pending"
    BY <2>1, <2>3 DEF Settled
  <2>4. CASE UNCHANGED call /\ call[k].stage # "pending"
    <3>1. call[k].stage # "idle"
      BY <2>1
    <3>2. QED
      BY <2>1, <2>4, <3>1
  <2>5. QED
    BY <1>5, <2>2, <2>3, <2>4 DEF ReceiveAnswer, Settle, OutcomesOf
<1>6. QED
  BY <1>1, <1>2, <1>3, <1>4, <1>5

\* The pipeline of a call that has not run its handler moves on to a check, or
\* to the handler once every check has allowed it.
LEMMA PipelineMoves ==
  ASSUME IInv, NEW k \in Calls, NEW check \in 1..(Checks + 1), Reach(k, check),
         runs[k] = 0,
         NEW w \in Wire \ {"none", "buffered", "sent", "ack"},
         wire' = [wire EXCEPT ![k] = w],
         passed \subseteq passed', passed' \in SUBSET (Calls \X Nat),
         \A c \in 1..Checks : c < check => <<k, c>> \in passed',
         call[k].stage # "idle",
         UNCHANGED <<client, transport>>
  PROVE  IInv'
<1> USE BoundsAssumption
    DEF IInv, TypeOK, PlacesAgree, ChecksInOrder, HandlersAreGuarded,
        SettledLeavesNothing, client, transport, Call, Wire
<1>1. CASE check > Checks
  <2>1. /\ runs' = [runs EXCEPT ![k] = 1]
        /\ server' = [server EXCEPT ![k] = [stage |-> "running", check |-> 0]]
    BY <1>1 DEF Reach
  <2>2. \A c \in 1..Checks : <<k, c>> \in passed'
    BY <1>1
  <2>3. QED
    BY <2>1, <2>2
<1>2. CASE ~(check > Checks)
  <2>1. /\ server' = [server EXCEPT ![k] = [stage |-> "checking", check |-> check]]
        /\ UNCHANGED runs
    BY <1>2 DEF Reach
  <2>2. check \in 1..Checks
    BY <1>2
  <2>3. QED
    BY <2>1, <2>2
<1>3. QED
  BY <1>1, <1>2

\* The pipeline of a call ends with an answer, an ack only if its handler ran.
LEMMA Acknowledged ==
  ASSUME IInv, NEW k \in Calls, NEW answer \in {"ack", "error"}, Answer(k, answer),
         answer = "ack" => runs[k] = 1,
         call[k].stage # "idle", wire[k] \notin {"none", "buffered"},
         UNCHANGED <<client, transport, passed>>
  PROVE  IInv'
<1>1. /\ server' = [server EXCEPT ![k] = [stage |-> "done", check |-> 0]]
      /\ wire' = [wire EXCEPT ![k] = IF wire[k] \in {"sent", "handling"}
                                     THEN answer ELSE wire[k]]
      /\ UNCHANGED runs
  BY DEF Answer
<1>2. /\ wire' \in [Calls -> Wire]
      /\ wire'[k] \notin {"none", "buffered", "sent"}
      /\ wire'[k] = "ack" => runs[k] = 1
      /\ \A l \in Calls \ {k} : wire'[l] = wire[l]
  <2>1. wire \in [Calls -> Wire] /\ answer \in Wire
    BY DEF IInv, TypeOK, Wire
  <2>2. wire[k] = "ack" => runs[k] = 1
    BY DEF IInv, PlacesAgree
  <2>3. QED
    BY <1>1, <2>1, <2>2
<1>3. TypeOK'
  BY <1>1, <1>2 DEF IInv, TypeOK, client, transport
<1>4. PlacesAgree'
  BY <1>1, <1>2 DEF IInv, TypeOK, PlacesAgree, client
<1>5. ChecksInOrder' /\ HandlersAreGuarded' /\ SettledLeavesNothing'
  BY <1>1, <1>2 DEF IInv, TypeOK, ChecksInOrder, HandlersAreGuarded,
                    SettledLeavesNothing, client
<1>6. QED
  BY <1>3, <1>4, <1>5 DEF IInv

\* A step of the server keeps the invariant.
LEMMA ServerStep ==
  ASSUME IInv, NEW k \in Calls,
         Miss(k) \/ Arrive(k) \/ ArriveInvalid(k)
           \/ CheckAllows(k) \/ CheckRefuses(k) \/ HandlerSettles(k)
  PROVE  IInv'
<1>1. CASE Miss(k)
  BY <1>1 DEF Miss, IInv, TypeOK, PlacesAgree, ChecksInOrder, HandlersAreGuarded,
              SettledLeavesNothing, client, transport, pipeline, Wire
<1>2. CASE Arrive(k)
  <2> DEFINE first == 1
  <2>1. runs[k] = 0 /\ call[k].stage # "idle" /\ first \in 1..(Checks + 1)
    BY <1>2, BoundsAssumption DEF Arrive, IInv, PlacesAgree
  <2>2. passed \subseteq passed' /\ passed' \in SUBSET (Calls \X Nat)
    BY <1>2 DEF Arrive, IInv, TypeOK
  <2>3. /\ Reach(k, first)
        /\ wire' = [wire EXCEPT ![k] = "handling"]
        /\ "handling" \in Wire \ {"none", "buffered", "sent", "ack"}
        /\ UNCHANGED <<client, transport>>
    BY <1>2 DEF Arrive, Wire
  <2>4. \A c \in 1..Checks : c < first => <<k, c>> \in passed'
    BY BoundsAssumption
  <2> HIDE DEF first
  <2>5. QED
    BY <2>1, <2>2, <2>3, <2>4, PipelineMoves
<1>3. CASE CheckAllows(k)
  <2> DEFINE check == server[k].check
  <2>1. /\ runs[k] = 0
        /\ wire[k] \in Wire \ {"none", "buffered", "sent", "ack"}
        /\ call[k].stage # "idle"
        /\ check \in 1..Checks
    BY <1>3 DEF CheckAllows, IInv, TypeOK, PlacesAgree, ChecksInOrder
  <2>2. /\ passed' = passed \cup {<<k, check>>}
        /\ passed' \in SUBSET (Calls \X Nat)
    BY <1>3, <2>1 DEF CheckAllows, IInv, TypeOK
  <2>3. \A c \in 1..Checks : c < check + 1 => <<k, c>> \in passed'
    BY <1>3, <2>1, <2>2, BoundsAssumption DEF CheckAllows, IInv, ChecksInOrder
  <2>4. /\ Reach(k, check + 1)
        /\ check + 1 \in 1..(Checks + 1)
        /\ wire' = [wire EXCEPT ![k] = wire[k]]
        /\ UNCHANGED <<client, transport>>
    BY <1>3, <2>1, BoundsAssumption DEF CheckAllows, IInv, TypeOK
  <2> HIDE DEF check
  <2>5. QED
    BY <2>1, <2>2, <2>3, <2>4, PipelineMoves
<1>4. CASE ArriveInvalid(k) \/ CheckRefuses(k)
  <2>1. Answer(k, "error") /\ UNCHANGED <<client, transport, passed>>
    BY <1>4 DEF ArriveInvalid, CheckRefuses
  <2>2. call[k].stage # "idle" /\ wire[k] \notin {"none", "buffered"}
    BY <1>4 DEF ArriveInvalid, CheckRefuses, IInv, PlacesAgree
  <2>3. QED
    BY <2>1, <2>2, Acknowledged
<1>5. CASE HandlerSettles(k)
  <2>1. PICK answer \in {"ack", "error"} : Answer(k, answer)
    BY <1>5 DEF HandlerSettles
  <2>2. server[k].stage = "running" /\ UNCHANGED <<client, transport, passed>>
    BY <1>5 DEF HandlerSettles
  <2>3. /\ runs[k] = 1
        /\ call[k].stage # "idle"
        /\ wire[k] \notin {"none", "buffered"}
    BY <2>2 DEF IInv, PlacesAgree
  <2>4. QED
    BY <2>1, <2>2, <2>3, Acknowledged
<1>6. QED
  BY <1>1, <1>2, <1>3, <1>4, <1>5

\* A step of the transport keeps the invariant.
LEMMA TransportStep ==
  ASSUME IInv, Destroy \/ Connect \/ Disconnect \/ Attach
  PROVE  IInv'
<1> USE DEF IInv, TypeOK, PlacesAgree, ChecksInOrder, HandlersAreGuarded,
            SettledLeavesNothing, client, pipeline
<1>1. CASE Destroy
  <2>1. CASE EndSession
    BY <1>1, <2>1, SessionEnd DEF Destroy
  <2>2. CASE UNCHANGED <<online, attached, wire>>
    BY <1>1, <2>2 DEF Destroy
  <2>3. QED
    BY <1>1, <2>1, <2>2 DEF Destroy
<1>2. CASE Connect
  BY <1>2, BoundsAssumption DEF Connect, AfterConnect, Wire
<1>3. CASE Disconnect
  <2>1. isDestroyed' \in BOOLEAN
    BY <1>3 DEF Disconnect
  <2>2. QED
    BY <1>3, <2>1, SessionEnd DEF Disconnect
<1>4. CASE Attach
  BY <1>4 DEF Attach
<1>5. QED
  BY <1>1, <1>2, <1>3, <1>4

\* Every step keeps the invariant.
LEMMA Step ==
  ASSUME IInv, [Next]_vars
  PROVE  IInv'
<1>1. CASE UNCHANGED vars
  BY <1>1 DEF vars, client, transport, pipeline, IInv, TypeOK, PlacesAgree, ChecksInOrder,
              HandlersAreGuarded, SettledLeavesNothing
<1>2. CASE Next
  BY <1>2, ClientStep, ServerStep, TransportStep DEF Next
<1>3. QED
  BY <1>1, <1>2

\* IInv holds in every reachable state: the caller's promise, the wire and the
\* server's pipeline never contradict each other.
THEOREM Invariance == Spec => []IInv
<1>1. QED
  BY Initial, Step, PTL DEF Spec

\* The variables keep their types.
THEOREM TypeCorrect == Spec => []TypeOK
<1>1. IInv => TypeOK
  BY DEF IInv
<1>2. QED
  BY <1>1, Invariance, PTL

\* No handler runs for a call that a policy or the authorizer did not allow.
THEOREM Guarded == Spec => []HandlersAreGuarded
<1>1. IInv => HandlersAreGuarded
  BY DEF IInv
<1>2. QED
  BY <1>1, Invariance, PTL

\* A settled call leaves neither a timer nor an abort listener behind.
THEOREM NothingLeft == Spec => []SettledLeavesNothing
<1>1. IInv => SettledLeavesNothing
  BY DEF IInv
<1>2. QED
  BY <1>1, Invariance, PTL

(***************************************************************************)
(* The refinement of CommandContract.                                      *)
(***************************************************************************)

Outcome(c) == IF c.stage \in {"resolved", "rejected"} THEN c.stage ELSE "none"

\* The step that settles a call is a Resolve or a Reject of the contract.
LEMMA SettleRefines ==
  ASSUME IInv, NEW k \in Calls, NEW o \in {"resolved", "rejected"},
         call[k].stage \in {"idle", "pending"}, NEW c \in Call, c.stage = o,
         call' = [call EXCEPT ![k] = c], UNCHANGED runs,
         o = "resolved" => runs[k] = 1
  PROVE  Contract!Next
<1> DEFINE outcome == [l \in Calls |-> Outcome(call[l])]
<1>1. /\ outcome[k] = "none"
      /\ outcome' = [outcome EXCEPT ![k] = o]
  BY DEF Outcome, IInv, TypeOK, Call
<1>2. CASE o = "resolved"
  BY <1>1, <1>2 DEF Contract!Next, Contract!Resolve, Outcome
<1>3. CASE o = "rejected"
  BY <1>1, <1>3 DEF Contract!Next, Contract!Reject, Outcome
<1>4. QED
  BY <1>2, <1>3

\* A step of the pipeline is a Run of the contract, or no step of it.
LEMMA ReachRefines ==
  ASSUME NEW k \in Calls, NEW check, Reach(k, check), runs[k] = 0, UNCHANGED call
  PROVE  Contract!Next \/ UNCHANGED Contract!vars
<1>1. CASE check > Checks
  BY <1>1 DEF Reach, Contract!Next, Contract!Run
<1>2. CASE ~(check > Checks)
  BY <1>2 DEF Reach, Contract!vars
<1>3. QED
  BY <1>1, <1>2

\* Every step of a command call is a step of the contract or a stutter.
LEMMA StepRefines ==
  ASSUME IInv, [Next]_vars
  PROVE  Contract!Next \/ UNCHANGED Contract!vars
<1>1. ASSUME NEW k \in Calls, RejectUnsent(k) \/ Timeout(k) \/ Abort(k)
      PROVE  Contract!Next
  <2>1. PICK c \in Call : c.stage = "rejected" /\ call' = [call EXCEPT ![k] = c]
    <3>1. CASE RejectUnsent(k)
      <4>1. [call[k] EXCEPT !.stage = "rejected"] \in Call
        BY DEF IInv, TypeOK, Call
      <4>2. [call[k] EXCEPT !.stage = "rejected"].stage = "rejected"
        BY DEF IInv, TypeOK, Call
      <4>3. QED
        BY <3>1, <4>1, <4>2 DEF RejectUnsent
    <3>2. CASE Timeout(k) \/ Abort(k)
      BY <3>2 DEF Timeout, Abort, Settle, Settled, Call
    <3>3. QED
      BY <1>1, <3>1, <3>2
  <2>2. call[k].stage \in {"idle", "pending"} /\ UNCHANGED runs
    BY <1>1 DEF RejectUnsent, Timeout, Abort, Settle, pipeline
  <2>3. QED
    BY <2>1, <2>2, SettleRefines
<1>2. ASSUME NEW k \in Calls, ReceiveAnswer(k)
      PROVE  Contract!Next \/ UNCHANGED Contract!vars
  <2>1. UNCHANGED runs
    BY <1>2 DEF ReceiveAnswer, pipeline
  <2>2. CASE UNCHANGED call
    BY <2>1, <2>2 DEF Contract!vars
  <2>3. CASE Settle(k, "rejected")
    BY <2>1, <2>3, SettleRefines DEF Settle, Settled, Call
  <2>4. CASE wire[k] = "ack" /\ Settle(k, "resolved")
    BY <2>1, <2>4, SettleRefines DEF Settle, Settled, Call, IInv, PlacesAgree
  <2>5. QED
    BY <1>2, <2>2, <2>3, <2>4 DEF ReceiveAnswer, OutcomesOf
<1>3. ASSUME NEW k \in Calls, ExecuteCommand(k)
      PROVE  UNCHANGED Contract!vars
  <2>1. \A l \in Calls : Outcome(call'[l]) = Outcome(call[l])
    BY <1>3 DEF ExecuteCommand, Pending, Outcome, IInv, TypeOK, Call
  <2>2. QED
    BY <1>3, <2>1 DEF ExecuteCommand, pipeline, Contract!vars, Outcome
<1>4. ASSUME NEW k \in Calls, Arrive(k) \/ CheckAllows(k)
      PROVE  Contract!Next \/ UNCHANGED Contract!vars
  <2>1. runs[k] = 0 /\ UNCHANGED call
    BY <1>4 DEF Arrive, CheckAllows, client, IInv, PlacesAgree
  <2>2. QED
    BY <1>4, <2>1, ReachRefines DEF Arrive, CheckAllows
<1>5. ASSUME NEW k \in Calls,
             Miss(k) \/ ArriveInvalid(k) \/ CheckRefuses(k) \/ HandlerSettles(k)
      PROVE  UNCHANGED Contract!vars
  BY <1>5 DEF Miss, ArriveInvalid, CheckRefuses, HandlerSettles, Answer, client, pipeline,
              Contract!vars
<1>6. CASE Destroy \/ Connect \/ Disconnect \/ Attach \/ UNCHANGED vars
  BY <1>6 DEF Destroy, Connect, Disconnect, Attach, client, pipeline, vars, Contract!vars
<1>7. QED
  BY <1>1, <1>2, <1>3, <1>4, <1>5, <1>6 DEF Next

\* A command call implements its contract: the handler runs at most once, the
\* call settles at most once, and it resolves only after its handler has run.
THEOREM Refinement == Spec => ImplementsContract
<1>1. Init => Contract!Init
  BY DEF Init, NewCall, Contract!Init
<1>2. IInv /\ [Next]_vars => [Contract!Next]_(Contract!vars)
  BY StepRefines
<1>3. QED
  BY <1>1, <1>2, Invariance, PTL DEF Spec, ImplementsContract, Contract!Spec

(***************************************************************************)
(* What it means to its caller: CommandErrors.                             *)
(***************************************************************************)

\* The layer adds meaning to the steps below and makes none of its own.
LEMMA StepBelow ==
  ASSUME [ErrorNext]_errorVars
  PROVE  [Next]_vars
<1>1. CASE UNCHANGED errorVars
  BY <1>1 DEF errorVars
<1>2. CASE Elsewhere
  BY <1>2 DEF Elsewhere, Next
<1>3. ASSUME NEW k \in Calls,
             ExecuteWithInput(k) \/ RejectByTypeError(k) \/ RejectInput(k)
               \/ RejectAborted(k) \/ TimeoutRejects(k) \/ AbortRejects(k)
               \/ ReceiveMeaning(k) \/ ArriveWithInput(k) \/ ArriveUnknown(k)
               \/ ArriveInvalidInput(k) \/ CheckAllowsCall(k) \/ CheckDenies(k)
               \/ CheckThrows(k) \/ HandlerAcks(k) \/ HandlerFails(k)
      PROVE  Next
  <2>1. \/ ExecuteCommand(k) \/ RejectUnsent(k) \/ Timeout(k) \/ Abort(k)
        \/ ReceiveAnswer(k) \/ Arrive(k) \/ ArriveInvalid(k)
        \/ CheckAllows(k) \/ CheckRefuses(k) \/ HandlerSettles(k)
    BY <1>3 DEF ExecuteWithInput, RejectByTypeError, RejectInput, RejectAborted,
         TimeoutRejects, AbortRejects, ReceiveMeaning, ArriveWithInput, ArriveUnknown,
         ArriveInvalidInput, CheckAllowsCall, CheckDenies, CheckThrows, HandlerAcks,
         HandlerFails
  <2>2. QED
    BY <2>1 DEF Next
<1>4. QED
  BY <1>1, <1>2, <1>3 DEF ErrorNext

\* The two registries resolve to commands only: other kinds are not accepted.
LEMMA ErrorInitial ==
  ASSUME ErrorInit
  PROVE  ErrorIInv
<1>1. IInv
  BY Initial DEF ErrorInit
<1>2. PICK lists \in [Sides -> Lists] :
         /\ \A side \in Sides : Accepted(lists[side], "command")
         /\ registry = [side \in Sides |-> ByName(lists[side])]
  BY DEF ErrorInit
<1>3. ASSUME NEW side \in Sides
      PROVE  /\ registry[side] \in UNION {[names -> Primitive] : names \in SUBSET Names}
             /\ Resolves(side) => registry[side][Command].kind = "command"
  <2> DEFINE list == lists[side]
             names == {list[i].name : i \in DOMAIN list}
  <2>1. registry[side] = ByName(list)
    BY <1>2
  <2>2. PICK n \in 0..MaxListed : list \in [1..n -> Primitive]
    BY DEF Lists
  <2>3. \A i \in DOMAIN list : list[i] \in Primitive /\ list[i].name \in Names
    BY <2>2 DEF Primitive
  <2>4. \A i \in DOMAIN list : list[i].kind = "command"
    BY <1>2 DEF Accepted
  <2>5. ASSUME NEW name \in names
        PROVE  /\ ByName(list)[name] \in Primitive
               /\ ByName(list)[name].kind = "command"
    <3>1. \E i \in DOMAIN list : list[i].name = name
      OBVIOUS
    <3>2. PICK j \in DOMAIN list :
             j = CHOOSE i \in DOMAIN list : list[i].name = name
      BY <3>1
    <3>3. ByName(list)[name] = list[j]
      BY <3>2 DEF ByName
    <3>4. QED
      BY <3>3, <2>3, <2>4
  <2>6. ByName(list) \in [names -> Primitive] /\ DOMAIN ByName(list) = names
    <3>1. ByName(list) = [name \in names |-> ByName(list)[name]]
      BY DEF ByName
    <3>2. QED
      BY <2>5, <3>1
  <2>7. names \in SUBSET Names
    BY <2>3
  <2>8. QED
    BY <2>1, <2>5, <2>6, <2>7 DEF Resolves
<1>4. ErrorTypeOK
  BY <1>1, <1>3 DEF ErrorInit, ErrorTypeOK, IInv
<1>5. \A k \in Calls : seen[k] = "none" /\ wire[k] = "none" /\ runs[k] = 0
                         /\ server[k].stage = "none"
  BY DEF ErrorInit, Init
<1>6. RegistriesHoldCommands
  BY <1>3 DEF RegistriesHoldCommands
<1>7. SentWasValid /\ ArrivedWasValid /\ SeenIsFinal /\ WireIsTruthful /\ CodesAreTruthful
  BY <1>5 DEF SentWasValid, ArrivedWasValid, SeenIsFinal, WireIsTruthful, Refusals,
       CodesAreTruthful, RefusedMeansNotRun, BadAckMeansRun, BadInputStaysLocal
<1>8. QED
  BY <1>1, <1>4, <1>6, <1>7 DEF ErrorIInv

\* What the inductive invariant says of one call.
Fine(j) ==
  /\ wire[j] # "none" => Resolves("client") /\ Sent(j) \in Values
  /\ server[j].stage \in {"checking", "running"} \/ runs[j] > 0 => schema[Sent(j)] \in Values
  /\ seen[j] # "none" => call[j].stage = "rejected"
  /\ seen[j] \in Refusals /\ <<j, "after">> \notin threw =>
       runs[j] = 0 /\ (wire[j] = "none" \/ server[j].stage = "done")
  /\ seen[j] = "invalid-ack" /\ <<j, "before">> \notin threw => runs[j] = 1
  /\ seen[j] = "invalid-input" /\ Idempotent /\ <<j, "before">> \notin threw
       /\ <<j, "after">> \notin threw => wire[j] = "none"
  /\ wire[j] = "error" =>
       /\ server[j].stage = "done"
       /\ errorCode[j] \in Refusals /\ <<j, "after">> \notin threw => runs[j] = 0
       /\ errorCode[j] = "invalid-ack" /\ <<j, "before">> \notin threw => runs[j] = 1
       /\ errorCode[j] = "invalid-input" /\ Idempotent =>
            <<j, "before">> \in threw \/ <<j, "after">> \in threw

\* The invariant, call by call.
LEMMA CallByCall ==
  ErrorIInv <=> /\ IInv /\ ErrorTypeOK /\ RegistriesHoldCommands
                /\ \A j \in Calls : Fine(j)
  BY DEF ErrorIInv, Fine, SentWasValid, ArrivedWasValid, SeenIsFinal, WireIsTruthful,
     CodesAreTruthful, RefusedMeansNotRun, BadAckMeansRun, BadInputStaysLocal

\* And after a step.
LEMMA CallByCallNext ==
  ErrorIInv' <=> /\ IInv' /\ ErrorTypeOK' /\ RegistriesHoldCommands'
                 /\ \A j \in Calls : Fine(j)'
  BY DEF ErrorIInv, Fine, SentWasValid, ArrivedWasValid, SeenIsFinal, WireIsTruthful,
     CodesAreTruthful, RefusedMeansNotRun, BadAckMeansRun, BadInputStaysLocal

\* Contracts, schema and inputs never change.
LEMMA NothingFixedChanges ==
  ASSUME ErrorNext
  PROVE  /\ UNCHANGED <<registry, schema, input>>
         /\ Resolves("client")' = Resolves("client")
         /\ Resolves("server")' = Resolves("server")
         /\ \A j \in Calls : Sent(j)' = Sent(j)
         /\ Idempotent' = Idempotent
<1>1. UNCHANGED <<registry, schema, input>>
  BY DEF ErrorNext, Elsewhere, ExecuteWithInput, RejectByTypeError, RejectInput,
     RejectAborted, TimeoutRejects, AbortRejects, ReceiveMeaning, ArriveWithInput,
     ArriveUnknown, ArriveInvalidInput, CheckAllowsCall, CheckDenies, CheckThrows,
     HandlerAcks, HandlerFails, fixed, meaning
<1>2. QED
  BY <1>1 DEF Resolves, Sent, Parsed, Idempotent

\* What was fine stays so for a call whose state does not change.
LEMMA Untouched ==
  ASSUME ErrorNext, NEW j \in Calls, Fine(j),
         wire'[j] = wire[j], server'[j] = server[j], runs'[j] = runs[j],
         call'[j] = call[j], seen'[j] = seen[j], errorCode'[j] = errorCode[j],
         \A when \in {"before", "after"} : <<j, when>> \in threw' <=> <<j, when>> \in threw
  PROVE  Fine(j)'
  BY NothingFixedChanges DEF Fine

\* A step of one call leaves the state of the others alone.
LEMMA OthersUntouched ==
  ASSUME IInv, NEW k \in Calls, NEW j \in Calls, j # k,
         \/ ExecuteCommand(k) \/ RejectUnsent(k) \/ Timeout(k) \/ Abort(k)
         \/ ReceiveAnswer(k) \/ Arrive(k) \/ ArriveInvalid(k)
         \/ CheckAllows(k) \/ CheckRefuses(k) \/ HandlerSettles(k)
  PROVE  /\ wire'[j] = wire[j] /\ server'[j] = server[j]
         /\ runs'[j] = runs[j] /\ call'[j] = call[j]
<1> USE DEF IInv, TypeOK, client, transport, pipeline
<1>1. CASE ExecuteCommand(k) \/ RejectUnsent(k) \/ Timeout(k) \/ Abort(k) \/ ReceiveAnswer(k)
  BY <1>1 DEF ExecuteCommand, RejectUnsent, Timeout, Abort, ReceiveAnswer, Settle
<1>2. CASE Arrive(k) \/ ArriveInvalid(k)
  BY <1>2 DEF Arrive, ArriveInvalid, Answer, Reach
<1>3. CASE CheckAllows(k) \/ CheckRefuses(k) \/ HandlerSettles(k)
  BY <1>3 DEF CheckAllows, CheckRefuses, HandlerSettles, Answer, Reach
<1>4. QED
  BY <1>1, <1>2, <1>3

\* A step of one call keeps the others fine.
LEMMA OthersFine ==
  ASSUME ErrorIInv, ErrorNext, NEW k \in Calls, NEW j \in Calls, j # k,
         \/ ExecuteCommand(k) \/ RejectUnsent(k) \/ Timeout(k) \/ Abort(k)
         \/ ReceiveAnswer(k) \/ Arrive(k) \/ ArriveInvalid(k)
         \/ CheckAllows(k) \/ CheckRefuses(k) \/ HandlerSettles(k),
         seen'[j] = seen[j], errorCode'[j] = errorCode[j],
         \A when \in {"before", "after"} : <<j, when>> \in threw' <=> <<j, when>> \in threw
  PROVE  Fine(j)'
<1>1. Fine(j) /\ IInv
  BY CallByCall
<1>2. /\ wire'[j] = wire[j] /\ server'[j] = server[j]
      /\ runs'[j] = runs[j] /\ call'[j] = call[j]
  BY <1>1, OthersUntouched
<1>3. QED
  BY <1>1, <1>2, Untouched

\* What the client does to a call keeps it fine.
LEMMA ClientFine ==
  ASSUME ErrorIInv, ErrorNext, NEW k \in Calls,
         \/ ExecuteWithInput(k) \/ RejectByTypeError(k) \/ RejectInput(k)
         \/ RejectAborted(k) \/ TimeoutRejects(k) \/ AbortRejects(k) \/ ReceiveMeaning(k)
  PROVE  \A j \in Calls : Fine(j)'
<1>1. /\ Fine(k) /\ IInv /\ ErrorTypeOK
      /\ Resolves("client")' = Resolves("client")
      /\ Sent(k)' = Sent(k) /\ schema' = schema /\ Idempotent' = Idempotent
  BY CallByCall, NothingFixedChanges
<1> USE DEF IInv, TypeOK, ErrorTypeOK, PlacesAgree, client, transport, pipeline, fixed, meaning
<1>2. CASE ExecuteWithInput(k)
  <2>1. Fine(k)'
    <3>1. /\ UNCHANGED <<server, runs, seen, errorCode, threw>>
          /\ call[k].stage = "idle"
          /\ wire'[k] \in {"sent", "buffered"}
          /\ Resolves("client") /\ Sent(k) \in Values
      BY <1>1, <1>2 DEF ExecuteWithInput, ExecuteCommand, Emitted
    <3>2. /\ seen[k] = "none" /\ runs[k] = 0 /\ server[k].stage = "none"
      BY <1>1, <3>1 DEF Fine
    <3>3. QED
      BY <1>1, <3>1, <3>2 DEF Fine, Refusals
  <2>2. ASSUME NEW j \in Calls, j # k PROVE Fine(j)'
    BY <1>2, <2>2, OthersFine DEF ExecuteWithInput
  <2>3. QED
    BY <2>1, <2>2
<1>3. CASE RejectByTypeError(k) \/ RejectInput(k) \/ RejectAborted(k)
  <2>1. /\ RejectUnsent(k) /\ UNCHANGED <<wire, server, runs, errorCode>>
        /\ call[k].stage = "idle" /\ call' = [call EXCEPT ![k].stage = "rejected"]
    BY <1>3 DEF RejectByTypeError, RejectInput, RejectAborted, RejectUnsent
  <2>2. \E code : seen' = [seen EXCEPT ![k] = code]
    BY <1>3 DEF RejectByTypeError, RejectInput, RejectAborted
  <2>3. /\ \A j \in Calls, when \in {"before", "after"} :
             j # k => (<<j, when>> \in threw' <=> <<j, when>> \in threw)
        /\ seen'[k] = "invalid-ack" => <<k, "before">> \in threw'
    BY <1>3, <1>1 DEF RejectByTypeError, RejectInput, RejectAborted, Threw, InputCode,
         Normalized, Codes
  <2>4. wire[k] = "none" /\ runs[k] = 0
    BY <1>1, <2>1
  <2>5. Fine(k)'
    BY <1>1, <2>1, <2>2, <2>3, <2>4 DEF Fine, Call
  <2>6. ASSUME NEW j \in Calls, j # k PROVE Fine(j)'
    BY <1>1, <2>1, <2>2, <2>3, <2>6, OthersFine
  <2>7. QED
    BY <2>5, <2>6
<1>4. CASE TimeoutRejects(k) \/ AbortRejects(k)
  <2>1. /\ Timeout(k) \/ Abort(k)
        /\ UNCHANGED <<wire, server, runs, errorCode, threw>>
        /\ call' = [call EXCEPT ![k] = Settled("rejected")]
        /\ \E code \in {"timeout", "internal-error"} : seen' = [seen EXCEPT ![k] = code]
    BY <1>4 DEF TimeoutRejects, AbortRejects, Timeout, Abort, Settle
  <2>2. Fine(k)'
    BY <1>1, <2>1 DEF Fine, Settled, Refusals
  <2>3. ASSUME NEW j \in Calls, j # k PROVE Fine(j)'
    BY <2>1, <2>3, OthersFine
  <2>4. QED
    BY <2>2, <2>3
<1>5. CASE ReceiveMeaning(k)
  <2>1. /\ ReceiveAnswer(k) /\ UNCHANGED <<server, runs, errorCode>>
        /\ wire[k] \in {"ack", "error"} /\ wire' = [wire EXCEPT ![k] = "closed"]
    BY <1>5 DEF ReceiveMeaning, ReceiveAnswer
  <2>2. ASSUME call[k].stage # "pending" \/ call'[k].stage # "rejected"
        PROVE  Fine(k)' /\ UNCHANGED <<seen, threw>>
    <3>1. UNCHANGED <<seen, threw>>
      BY <1>5, <2>2 DEF ReceiveMeaning
    <3>2. call[k].stage = "rejected" => call'[k].stage = "rejected"
      BY <2>1 DEF ReceiveAnswer
    <3>3. QED
      BY <1>1, <2>1, <3>1, <3>2 DEF Fine
  <2>3. ASSUME call[k].stage = "pending", call'[k].stage = "rejected", wire[k] = "error"
        PROVE  Fine(k)'
    <3>1. seen' = [seen EXCEPT ![k] = errorCode[k]] /\ UNCHANGED threw
      BY <1>5, <2>3 DEF ReceiveMeaning
    <3>2. QED
      BY <1>1, <2>1, <2>3, <3>1 DEF Fine
  <2>4. ASSUME call[k].stage = "pending", call'[k].stage = "rejected", wire[k] = "ack"
        PROVE  Fine(k)'
    <3>1. PICK thrown \in Throwable :
             /\ seen' = [seen EXCEPT ![k] = AckCode(thrown)]
             /\ Threw(k, thrown, "after")
      BY <1>5, <2>4 DEF ReceiveMeaning
    <3>2. runs[k] = 1
      BY <1>1, <2>4
    <3>3. AckCode(thrown) # "invalid-ack" => <<k, "after">> \in threw'
      BY <3>1 DEF AckCode, Normalized, Threw
    <3>4. QED
      BY <1>1, <2>1, <2>4, <3>1, <3>2, <3>3 DEF Fine, Refusals
  <2>5. ASSUME NEW j \in Calls, j # k PROVE Fine(j)'
    <3>1. /\ seen'[j] = seen[j]
          /\ \A when \in {"before", "after"} : <<j, when>> \in threw' <=> <<j, when>> \in threw
      BY <1>1, <1>5, <2>5 DEF ReceiveMeaning, Threw
    <3>2. QED
      BY <2>1, <2>5, <3>1, OthersFine
  <2>6. QED
    BY <2>1, <2>2, <2>3, <2>4, <2>5
<1>6. QED
  BY <1>2, <1>3, <1>4, <1>5

\* What the end of a handler changes.
LEMMA HandlerSettled ==
  ASSUME IInv, NEW k \in Calls, HandlerSettles(k)
  PROVE  /\ UNCHANGED <<call, runs>>
         /\ wire[k] # "none" /\ runs[k] = 1
         /\ server[k].stage = "running" /\ server'[k].stage = "done"
<1>1. PICK answer : Answer(k, answer)
  BY DEF HandlerSettles
<1>2. UNCHANGED <<call, runs>> /\ server[k].stage = "running"
  BY <1>1 DEF HandlerSettles, Answer, client
<1>3. wire[k] # "none" /\ runs[k] = 1
  BY <1>2 DEF IInv, PlacesAgree
<1>4. server'[k].stage = "done"
  BY <1>1 DEF Answer, IInv, TypeOK
<1>5. QED
  BY <1>2, <1>3, <1>4

\* What the server does to a call keeps it fine.
LEMMA ServerFine ==
  ASSUME ErrorIInv, ErrorNext, NEW k \in Calls,
         \/ ArriveWithInput(k) \/ ArriveUnknown(k) \/ ArriveInvalidInput(k)
         \/ CheckAllowsCall(k) \/ CheckDenies(k) \/ CheckThrows(k)
         \/ HandlerAcks(k) \/ HandlerFails(k)
  PROVE  \A j \in Calls : Fine(j)'
<1>1. /\ Fine(k) /\ IInv /\ ErrorTypeOK
      /\ Resolves("client")' = Resolves("client")
      /\ Sent(k)' = Sent(k) /\ schema' = schema /\ Idempotent' = Idempotent
  BY CallByCall, NothingFixedChanges
<1>2. RegistriesHoldCommands
  BY DEF ErrorIInv
<1>3. Resolves("server") => Parsed("server", Sent(k)) = schema[Sent(k)]
  BY <1>2 DEF RegistriesHoldCommands, Parsed, Sides
<1> USE DEF IInv, TypeOK, ErrorTypeOK, PlacesAgree, client, transport, pipeline, fixed, meaning
<1>4. CASE ArriveWithInput(k)
  <2>1. /\ UNCHANGED <<call, seen, errorCode, threw>>
        /\ wire[k] = "sent" /\ wire'[k] = "handling"
        /\ server[k].stage = "none" /\ runs[k] = 0
        /\ schema[Sent(k)] \in Values
    BY <1>1, <1>3, <1>4 DEF ArriveWithInput, Arrive
  <2>2. Fine(k)'
    BY <1>1, <2>1 DEF Fine
  <2>3. ASSUME NEW j \in Calls, j # k PROVE Fine(j)'
    BY <1>4, <2>3, OthersFine DEF ArriveWithInput
  <2>4. QED
    BY <2>2, <2>3
<1>5. CASE ArriveUnknown(k) \/ ArriveInvalidInput(k)
  <2>1. /\ ArriveInvalid(k) /\ UNCHANGED <<call, runs, seen>>
        /\ wire[k] = "sent" /\ wire'[k] = "error"
        /\ server[k].stage = "none" /\ server'[k].stage = "done" /\ runs[k] = 0
    BY <1>1, <1>5 DEF ArriveUnknown, ArriveInvalidInput, ArriveInvalid, Answer
  <2>2. \E code : FailWith(k, code)
    BY <1>5 DEF ArriveUnknown, ArriveInvalidInput
  <2>3. \A j \in Calls, when \in {"before", "after"} :
          j # k => (<<j, when>> \in threw' <=> <<j, when>> \in threw)
    BY <1>5 DEF ArriveUnknown, ArriveInvalidInput, Threw
  <2>4. threw \subseteq threw'
    BY <1>5 DEF ArriveUnknown, ArriveInvalidInput, Threw
  <2>5. ASSUME errorCode'[k] = "invalid-ack"
        PROVE  <<k, "before">> \in threw'
    BY <1>1, <1>5, <2>5 DEF ArriveUnknown, ArriveInvalidInput, FailWith, Threw, InputCode,
         Normalized
  <2>6. ASSUME errorCode'[k] = "invalid-input", Idempotent
        PROVE  <<k, "before">> \in threw'
    <3>1. CASE ArriveUnknown(k)
      BY <1>1, <2>6, <3>1 DEF ArriveUnknown, FailWith, Normalized, Codes
    <3>2. CASE ArriveInvalidInput(k)
      <4>1. Sent(k) \in Values /\ Resolves("client")
        BY <1>1, <2>1 DEF Fine
      <4>2. Sent(k) = schema[input[k]]
        BY <1>2, <4>1 DEF Sent, Parsed, RegistriesHoldCommands, Sides
      <4>3. schema[Sent(k)] \in Values
        BY <1>1, <2>6, <4>1, <4>2 DEF Idempotent
      <4>4. QED
        BY <1>3, <3>2, <4>3 DEF ArriveInvalidInput
    <3>3. QED
      BY <1>5, <3>1, <3>2
  <2>7. Fine(k)'
    BY <1>1, <2>1, <2>4, <2>5, <2>6 DEF Fine
  <2>8. ASSUME NEW j \in Calls, j # k PROVE Fine(j)'
    BY <1>1, <2>1, <2>2, <2>3, <2>8, OthersFine DEF FailWith
  <2>9. QED
    BY <2>7, <2>8
<1>6. CASE CheckAllowsCall(k)
  <2>1. /\ UNCHANGED <<call, wire, seen, errorCode, threw>>
        /\ server[k].stage = "checking"
        /\ server'[k].stage \in {"checking", "running"}
    BY <1>1, <1>6 DEF CheckAllowsCall, CheckAllows, Reach
  <2>2. Fine(k)'
    BY <1>1, <2>1 DEF Fine
  <2>3. ASSUME NEW j \in Calls, j # k PROVE Fine(j)'
    BY <1>6, <2>3, OthersFine DEF CheckAllowsCall
  <2>4. QED
    BY <2>2, <2>3
<1>7. CASE CheckDenies(k) \/ CheckThrows(k)
  <2>1. /\ CheckRefuses(k) /\ UNCHANGED <<call, runs, seen>>
        /\ wire'[k] \in {wire[k], "error"} /\ wire[k] # "none"
        /\ server[k].stage = "checking" /\ server'[k].stage = "done" /\ runs[k] = 0
    BY <1>1, <1>7 DEF CheckDenies, CheckThrows, CheckRefuses, Answer
  <2>2. \E code : FailWith(k, code)
    BY <1>7 DEF CheckDenies, CheckThrows
  <2>3. /\ \A j \in Calls, when \in {"before", "after"} :
             j # k => (<<j, when>> \in threw' <=> <<j, when>> \in threw)
        /\ threw \subseteq threw'
    BY <1>7 DEF CheckDenies, CheckThrows, Threw
  <2>4. errorCode'[k] \in {"invalid-ack", "invalid-input"} => <<k, "before">> \in threw'
    <3>1. CASE CheckDenies(k)
      BY <1>1, <3>1 DEF CheckDenies, FailWith
    <3>2. CASE CheckThrows(k)
      BY <1>1, <3>2 DEF CheckThrows, FailWith, Normalized, Threw
    <3>3. QED
      BY <1>7, <3>1, <3>2
  <2>5. Fine(k)'
    BY <1>1, <2>1, <2>3, <2>4 DEF Fine
  <2>6. ASSUME NEW j \in Calls, j # k PROVE Fine(j)'
    BY <1>1, <2>1, <2>2, <2>3, <2>6, OthersFine DEF FailWith
  <2>7. QED
    BY <2>5, <2>6
<1>8. CASE HandlerAcks(k)
  <2>1. /\ HandlerSettles(k) /\ UNCHANGED <<call, runs, seen, errorCode, threw>>
        /\ wire'[k] # "error" /\ wire[k] # "none"
        /\ server[k].stage = "running" /\ server'[k].stage = "done" /\ runs[k] = 1
    <3>1. HandlerSettles(k) /\ wire'[k] # "error" /\ UNCHANGED <<seen, errorCode, threw>>
      BY <1>8 DEF HandlerAcks
    <3>2. QED
      BY <1>1, <3>1, HandlerSettled
  <2>2. Fine(k)'
    BY <1>1, <2>1 DEF Fine
  <2>3. ASSUME NEW j \in Calls, j # k PROVE Fine(j)'
    BY <2>1, <2>3, OthersFine
  <2>4. QED
    BY <2>2, <2>3
<1>9. CASE HandlerFails(k)
  <2>1. /\ HandlerSettles(k) /\ UNCHANGED <<call, runs, seen>>
        /\ wire[k] # "none"
        /\ server[k].stage = "running" /\ server'[k].stage = "done" /\ runs[k] = 1
    <3>1. HandlerSettles(k) /\ UNCHANGED seen
      BY <1>9 DEF HandlerFails
    <3>2. QED
      BY <1>1, <3>1, HandlerSettled
  <2>2. \E code : FailWith(k, code)
    BY <1>9 DEF HandlerFails
  <2>3. /\ \A j \in Calls, when \in {"before", "after"} :
             j # k => (<<j, when>> \in threw' <=> <<j, when>> \in threw)
        /\ threw \subseteq threw'
    BY <1>9 DEF HandlerFails, Threw
  <2>4. errorCode'[k] \in Refusals => <<k, "after">> \in threw'
    BY <1>1, <1>9 DEF HandlerFails, FailWith, Normalized, AckCode, Threw, Refusals
  <2>5. Fine(k)'
    BY <1>1, <2>1, <2>3, <2>4 DEF Fine, Refusals
  <2>6. ASSUME NEW j \in Calls, j # k PROVE Fine(j)'
    BY <1>1, <2>1, <2>2, <2>3, <2>6, OthersFine DEF FailWith
  <2>7. QED
    BY <2>5, <2>6
<1>10. QED
  BY <1>4, <1>5, <1>6, <1>7, <1>8, <1>9

\* The transport and the end of the runtime keep every call fine: what they make of a
\* request is neither nothing nor an error.
LEMMA ElsewhereFine ==
  ASSUME ErrorIInv, ErrorNext, Elsewhere
  PROVE  \A j \in Calls : Fine(j)'
<1>1. UNCHANGED <<call, pipeline, fixed, meaning>>
  BY DEF Elsewhere, Destroy, Connect, Disconnect, Attach, Miss, client
<1>2. ASSUME NEW j \in Calls
      PROVE  wire'[j] = wire[j] \/ (wire[j] # "none" /\ wire'[j] \in {"lost", "sent"})
  <2> USE DEF IInv, TypeOK
  <2>1. IInv
    BY DEF ErrorIInv
  <2>2. CASE EndSession
    BY <2>1, <2>2 DEF EndSession
  <2>3. CASE Connect
    BY <2>1, <2>3 DEF Connect, AfterConnect
  <2>4. CASE \E k \in Calls : Miss(k)
    BY <2>1, <2>4 DEF Miss
  <2>5. CASE UNCHANGED wire
    BY <2>5
  <2>6. QED
    BY <2>2, <2>3, <2>4, <2>5 DEF Elsewhere, Destroy, Disconnect, Attach
<1>3. ASSUME NEW j \in Calls
      PROVE  Fine(j)'
  <2>1. Fine(j) /\ IInv
    BY CallByCall
  <2>2. /\ Resolves("client")' = Resolves("client")
        /\ Sent(j)' = Sent(j) /\ schema' = schema /\ Idempotent' = Idempotent
    BY NothingFixedChanges
  <2>3. wire[j] # "none" /\ wire'[j] = "sent" => wire[j] \in {"sent", "buffered"}
    <3>1. CASE EndSession
      BY <2>1, <3>1 DEF EndSession, IInv, TypeOK
    <3>2. CASE Connect
      BY <2>1, <3>2 DEF Connect, AfterConnect, IInv, TypeOK
    <3>3. CASE \E k \in Calls : Miss(k)
      BY <2>1, <3>3 DEF Miss, IInv, TypeOK
    <3>4. CASE UNCHANGED wire
      BY <3>4
    <3>5. QED
      BY <3>1, <3>2, <3>3, <3>4 DEF Elsewhere, Destroy, Disconnect, Attach
  <2>4. UNCHANGED <<call, server, runs, seen, errorCode, threw>>
    BY <1>1 DEF pipeline, meaning
  <2>5. QED
    BY <1>2, <2>1, <2>2, <2>3, <2>4 DEF Fine
<1>4. QED
  BY <1>3

\* Every step keeps the variables of the layer in their types.
LEMMA ErrorTypes ==
  ASSUME ErrorIInv, ErrorNext, TypeOK'
  PROVE  ErrorTypeOK'
<1>1. ErrorTypeOK
  BY DEF ErrorIInv
<1>2. UNCHANGED <<registry, schema, input>>
  BY NothingFixedChanges
<1>3. /\ \A k \in Calls : errorCode[k] \in Codes \cup {"none"}
      /\ \A thrown \in Throwable, code \in Codes : Normalized(thrown, code) \in Codes
      /\ {"invalid-input", "invalid-ack", "command-failed", "internal-error", "timeout",
           "unauthorized", "forbidden"} \subseteq Codes
  BY <1>1 DEF ErrorTypeOK, Normalized, Codes
<1>4. \A parsed : InputCode(parsed) \in Codes
  BY <1>3 DEF InputCode, Normalized
<1>5. \A thrown \in Throwable : AckCode(thrown) \in Codes
  BY <1>3 DEF AckCode
<1>6. seen' \in [Calls -> Codes \cup {"none", "TypeError"}]
  <2>1. UNCHANGED seen \/ \E k \in Calls, code \in Codes \cup {"none", "TypeError"} :
                             seen' = [seen EXCEPT ![k] = code]
    <3>1. ASSUME NEW k \in Calls, RejectInput(k) \/ ReceiveMeaning(k)
          PROVE  \/ UNCHANGED seen
                 \/ \E code \in Codes \cup {"none", "TypeError"} :
                      seen' = [seen EXCEPT ![k] = code]
      BY <3>1, <1>3, <1>4, <1>5 DEF RejectInput, ReceiveMeaning
    <3>2. ASSUME NEW k \in Calls, RejectByTypeError(k) \/ RejectAborted(k)
                                     \/ TimeoutRejects(k) \/ AbortRejects(k)
          PROVE  \E code \in Codes \cup {"none", "TypeError"} :
                   seen' = [seen EXCEPT ![k] = code]
      BY <3>2, <1>3 DEF RejectByTypeError, RejectAborted, TimeoutRejects, AbortRejects
    <3>3. ASSUME NEW k \in Calls,
                 \/ ExecuteWithInput(k) \/ ArriveWithInput(k) \/ ArriveUnknown(k)
                 \/ ArriveInvalidInput(k) \/ CheckAllowsCall(k) \/ CheckDenies(k)
                 \/ CheckThrows(k) \/ HandlerAcks(k) \/ HandlerFails(k)
          PROVE  UNCHANGED seen
      BY <3>3 DEF ExecuteWithInput, ArriveWithInput, ArriveUnknown, ArriveInvalidInput,
           CheckAllowsCall, CheckDenies, CheckThrows, HandlerAcks, HandlerFails, meaning
    <3>4. QED
      BY <3>1, <3>2, <3>3 DEF ErrorNext, Elsewhere, meaning
  <2>2. QED
    BY <1>1, <2>1 DEF ErrorTypeOK
<1>7. errorCode' \in [Calls -> Codes \cup {"none"}]
  <2>1. UNCHANGED errorCode \/ \E k \in Calls, code \in Codes : FailWith(k, code)
    <3>1. ASSUME NEW k \in Calls,
                 \/ ArriveUnknown(k) \/ ArriveInvalidInput(k) \/ CheckDenies(k)
                 \/ CheckThrows(k) \/ HandlerFails(k)
          PROVE  \E code \in Codes : FailWith(k, code)
      <4>1. CASE ArriveUnknown(k)
        BY <4>1, <1>3 DEF ArriveUnknown, Throwable
      <4>2. CASE ArriveInvalidInput(k)
        BY <4>2, <1>4 DEF ArriveInvalidInput
      <4>3. CASE CheckDenies(k)
        BY <4>3, <1>3 DEF CheckDenies
      <4>4. CASE CheckThrows(k)
        BY <4>4, <1>3 DEF CheckThrows
      <4>5. CASE HandlerFails(k)
        BY <4>5, <1>3, <1>5 DEF HandlerFails
      <4>6. QED
        BY <3>1, <4>1, <4>2, <4>3, <4>4, <4>5
    <3>2. ASSUME NEW k \in Calls,
                 \/ ExecuteWithInput(k) \/ RejectByTypeError(k) \/ RejectInput(k)
                 \/ RejectAborted(k) \/ TimeoutRejects(k) \/ AbortRejects(k)
                 \/ ReceiveMeaning(k) \/ ArriveWithInput(k) \/ CheckAllowsCall(k)
                 \/ HandlerAcks(k)
          PROVE  UNCHANGED errorCode
      BY <3>2 DEF ExecuteWithInput, RejectByTypeError, RejectInput, RejectAborted,
           TimeoutRejects, AbortRejects, ReceiveMeaning, ArriveWithInput, CheckAllowsCall,
           HandlerAcks, meaning
    <3>3. QED
      BY <3>1, <3>2 DEF ErrorNext, Elsewhere, meaning
  <2>2. QED
    BY <1>1, <2>1 DEF ErrorTypeOK, FailWith
<1>8. threw' \in SUBSET (Calls \X {"before", "after"})
  <2>1. UNCHANGED threw \/ \E k \in Calls, when \in {"before", "after"} :
                              \E thrown : Threw(k, thrown, when)
    BY DEF ErrorNext, Elsewhere, ExecuteWithInput, RejectByTypeError, RejectInput,
       RejectAborted, TimeoutRejects, AbortRejects, ReceiveMeaning, ArriveWithInput,
       ArriveUnknown, ArriveInvalidInput, CheckAllowsCall, CheckDenies, CheckThrows,
       HandlerAcks, HandlerFails, meaning
  <2>2. QED
    BY <1>1, <2>1 DEF ErrorTypeOK, Threw
<1>9. QED
  BY <1>1, <1>2, <1>6, <1>7, <1>8 DEF ErrorTypeOK

\* Every step keeps the invariant.
LEMMA ErrorStep ==
  ASSUME ErrorIInv, [ErrorNext]_errorVars
  PROVE  ErrorIInv'
<1>1. IInv /\ IInv'
  BY StepBelow, Step DEF ErrorIInv
<1>2. CASE ErrorNext
  <2>1. ErrorTypeOK'
    BY <1>1, <1>2, ErrorTypes DEF IInv
  <2>2. RegistriesHoldCommands'
    BY <1>2, NothingFixedChanges DEF ErrorIInv, RegistriesHoldCommands, Sides, Resolves
  <2>3. \A j \in Calls : Fine(j)'
    BY <1>2, ClientFine, ServerFine, ElsewhereFine DEF ErrorNext
  <2>4. QED
    BY <1>1, <2>1, <2>2, <2>3, CallByCallNext
<1>3. CASE UNCHANGED errorVars
  <2>1. UNCHANGED <<vars, registry, schema, input, errorCode, seen, threw>>
    BY <1>3 DEF errorVars, fixed, meaning
  <2>2. UNCHANGED <<call, wire, server, runs, TypeOK>>
    BY <1>1, <2>1 DEF vars, client, pipeline, IInv
  <2>3. QED
    BY <1>1, <2>1, <2>2 DEF ErrorIInv, ErrorTypeOK, RegistriesHoldCommands, SentWasValid,
       ArrivedWasValid, SeenIsFinal, WireIsTruthful, CodesAreTruthful, RefusedMeansNotRun,
       BadAckMeansRun, BadInputStaysLocal, Idempotent, Resolves, Sent, Parsed
<1>4. QED
  BY <1>2, <1>3

\* The invariant holds in every reachable state: what a code says on the wire or to the
\* caller agrees with what the server's pipeline did.
THEOREM ErrorInvariance == ErrorSpec => []ErrorIInv
<1>1. QED
  BY ErrorInitial, ErrorStep, PTL DEF ErrorSpec

\* The variables keep their types.
THEOREM ErrorTypeCorrect == ErrorSpec => []ErrorTypeOK
<1>1. ErrorIInv => ErrorTypeOK
  BY DEF ErrorIInv
<1>2. QED
  BY <1>1, ErrorInvariance, PTL

\* A refusal means that the handler has not run, a bad ack that it has, and a client
\* does not learn from the server that its input is invalid.
THEOREM Truthful == ErrorSpec => []CodesAreTruthful
<1>1. ErrorIInv => CodesAreTruthful
  BY DEF ErrorIInv
<1>2. QED
  BY <1>1, ErrorInvariance, PTL

\* No handler runs on an input that the schema of its contract does not accept.
THEOREM ValidInput == ErrorSpec => []HandlersGetValidInput
<1>1. ErrorIInv => HandlersGetValidInput
  BY DEF ErrorIInv, ArrivedWasValid, HandlersGetValidInput
<1>2. QED
  BY <1>1, ErrorInvariance, PTL

\* The layer adds values and codes to a command call and changes nothing else of it.
THEOREM LayerRefinement == ErrorSpec => Spec
<1>1. ErrorInit => Init
  BY DEF ErrorInit
<1>2. [ErrorNext]_errorVars => [Next]_vars
  BY StepBelow
<1>3. QED
  BY <1>1, <1>2, PTL DEF ErrorSpec, Spec

\* So no handler runs for a call that a policy or the authorizer did not allow.
THEOREM ErrorGuarded == ErrorSpec => []HandlersAreGuarded
  BY LayerRefinement, Guarded, PTL

\* And the call implements its contract.
THEOREM ErrorRefinement == ErrorSpec => ImplementsContract
  BY LayerRefinement, Refinement, PTL
=============================================================================
