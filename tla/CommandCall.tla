----------------------------- MODULE CommandCall -----------------------------
(***************************************************************************)
(* A command from the caller to the handler and back: executeCommand of    *)
(* the client runtime with its timer and abort signal                      *)
(* (packages/client/src/runtime/index.ts), the Socket.IO transport         *)
(* (packages/client/src/socket-io/index.ts), the adapter's request handler *)
(* (packages/server/src/socket-io/index.ts) and executeCommand of the      *)
(* server runtime (packages/server/src/runtime/index.ts).                  *)
(*                                                                         *)
(* Each side goes on without the other: a client gives up while the server *)
(* works, and a server works on after the session of a request has ended.  *)
(***************************************************************************)
EXTENDS Naturals

CONSTANTS
  Calls,        \* client calls of executeCommand
  Timed,        \* the calls that have a timeout
  Abortable,    \* the calls that have an abort signal
  Checks,       \* number of command policies, and one for an authorizer
  MaxSessions   \* bound: transport sessions

ASSUME CallsAssumption == Timed \subseteq Calls /\ Abortable \subseteq Calls
ASSUME BoundsAssumption == Checks \in Nat /\ MaxSessions \in Nat

VARIABLES
  call,         \* call -> the promise of the caller and what would settle it
  isDestroyed,  \* the client runtime
  online,       \* the transport has a session with the server
  session,      \* number of sessions so far
  attached,     \* the server has registered the handlers of the session
  wire,         \* call -> where its request or its answer is
  server,       \* call -> how far the server's pipeline got with it
  runs,         \* call -> runs of its handler
  passed        \* <<call, check>> that allowed it (history)

client == <<call, isDestroyed>>
transport == <<online, session, attached>>
pipeline == <<server, runs, passed>>
vars == <<client, transport, wire, pipeline>>

\* handling: the request has arrived and its session lasts.
Wire == {"none", "buffered", "sent", "handling", "ack", "error", "lost", "closed"}

Call == [stage : {"idle", "pending", "resolved", "rejected"},
         timer : BOOLEAN, abortListener : BOOLEAN]
NewCall == [stage |-> "idle", timer |-> FALSE, abortListener |-> FALSE]

TypeOK ==
  /\ call \in [Calls -> Call]
  /\ isDestroyed \in BOOLEAN
  /\ online \in BOOLEAN
  /\ session \in 0..MaxSessions
  /\ attached \in BOOLEAN
  /\ wire \in [Calls -> Wire]
  /\ server \in [Calls -> [stage : {"none", "checking", "running", "done"}, check : Nat]]
  /\ runs \in [Calls -> Nat]
  /\ passed \in SUBSET (Calls \X Nat)

Init ==
  /\ call = [k \in Calls |-> NewCall]
  /\ isDestroyed = FALSE
  /\ online = FALSE
  /\ session = 0
  /\ attached = FALSE
  /\ wire = [k \in Calls |-> "none"]
  /\ server = [k \in Calls |-> [stage |-> "none", check |-> 0]]
  /\ runs = [k \in Calls |-> 0]
  /\ passed = {}

(***************************************************************************)
(* The client runtime.                                                     *)
(***************************************************************************)

\* Mutant: a request that cannot be sent is dropped without a word.
EmittedOnline(up) == IF up THEN "sent" ELSE "dropped"

\* socket.emit buffers while there is no session.
Emitted(up) == IF up THEN "sent" ELSE "buffered"

\* Mutant: the clock starts only when the request leaves.
PendingOnline(k) ==
  [stage |-> "pending", timer |-> k \in Timed /\ online, abortListener |-> k \in Abortable]

\* The promise of a call that has just been sent.
Pending(k) == [stage |-> "pending", timer |-> k \in Timed, abortListener |-> k \in Abortable]

ExecuteCommand(k) ==
  /\ call[k].stage = "idle"
  /\ ~isDestroyed
  /\ call' = [call EXCEPT ![k] = Pending(k)]
  /\ wire' = [wire EXCEPT ![k] = Emitted(online)]
  /\ UNCHANGED <<isDestroyed, transport, pipeline>>

\* Destroyed runtime, unknown command, invalid input or timeout, or a signal that
\* is aborted already: nothing is sent.
RejectUnsent(k) ==
  /\ call[k].stage = "idle"
  /\ call' = [call EXCEPT ![k].stage = "rejected"]
  /\ UNCHANGED <<isDestroyed, transport, wire, pipeline>>

\* Mutant: the abort listener stays on the caller's signal.
SettledListening(outcome) == [stage |-> outcome, timer |-> FALSE, abortListener |-> TRUE]

\* The first to settle the promise clears the timer and the abort listener.
Settled(outcome) == [stage |-> outcome, timer |-> FALSE, abortListener |-> FALSE]

Settle(k, outcome) ==
  /\ call[k].stage = "pending"
  /\ call' = [call EXCEPT ![k] = Settled(outcome)]

Timeout(k) ==
  /\ call[k].timer
  /\ Settle(k, "rejected")
  /\ UNCHANGED <<isDestroyed, transport, wire, pipeline>>

Abort(k) ==
  /\ call[k].abortListener
  /\ Settle(k, "rejected")
  /\ UNCHANGED <<isDestroyed, transport, wire, pipeline>>

\* What the caller makes of an answer: a malformed ack rejects as an error does, and
\* so does an ack that the client's own schema refuses.
OutcomesOf(answer) == IF answer = "ack" THEN {"resolved", "rejected"} ELSE {"rejected"}

\* An answer arrives; a late one finds the promise settled.
ReceiveAnswer(k) ==
  /\ wire[k] \in {"ack", "error"}
  /\ wire' = [wire EXCEPT ![k] = "closed"]
  /\ IF call[k].stage = "pending"
     THEN \E outcome \in OutcomesOf(wire[k]) : Settle(k, outcome)
     ELSE UNCHANGED call
  /\ UNCHANGED <<isDestroyed, transport, pipeline>>

(***************************************************************************)
(* The transport.                                                          *)
(***************************************************************************)

\* Mutant: requests without an answer are sent again.
AfterConnectResent(place) == IF place \in {"buffered", "lost"} THEN "sent" ELSE place

\* What a new session makes of a request: what was buffered is sent.
AfterConnect(place) == IF place = "buffered" THEN "sent" ELSE place

Connect ==
  /\ ~online
  /\ session < MaxSessions
  /\ online' = TRUE
  /\ session' = session + 1
  /\ wire' = [k \in Calls |-> AfterConnect(wire[k])]
  /\ UNCHANGED <<client, attached, pipeline>>

\* Requests and answers of the session are lost; the server works on.
EndSession ==
  /\ online' = FALSE
  /\ attached' = FALSE
  /\ wire' = [k \in Calls |->
                IF wire[k] \in {"sent", "handling", "ack", "error"} THEN "lost" ELSE wire[k]]

Disconnect ==
  /\ online
  /\ EndSession
  /\ UNCHANGED <<client, session, pipeline>>

\* destroy() disconnects a socket that the transport made itself, and leaves the
\* pending calls to their timers.
Destroy ==
  /\ ~isDestroyed
  /\ isDestroyed' = TRUE
  /\ EndSession \/ UNCHANGED <<online, attached, wire>>
  /\ UNCHANGED <<call, session, pipeline>>

(***************************************************************************)
(* The server: adapter and runtime.                                        *)
(***************************************************************************)

\* connectionHandler has awaited onConnect and registers the handlers.
Attach ==
  /\ online /\ ~attached
  /\ attached' = TRUE
  /\ UNCHANGED <<client, online, session, wire, pipeline>>

\* A request that arrives before has no handler: nobody will answer it.
Miss(k) ==
  /\ wire[k] = "sent" /\ ~attached
  /\ wire' = [wire EXCEPT ![k] = "lost"]
  /\ UNCHANGED <<client, transport, pipeline>>

\* The pipeline reaches a check, or the handler after the last one.
Reach(k, check) ==
  IF check > Checks
  THEN /\ runs' = [runs EXCEPT ![k] = @ + 1]
       /\ server' = [server EXCEPT ![k] = [stage |-> "running", check |-> 0]]
  ELSE /\ server' = [server EXCEPT ![k] = [stage |-> "checking", check |-> check]]
       /\ UNCHANGED runs

\* The pipeline is through: the adapter acknowledges, if the session still lasts.
Answer(k, answer) ==
  /\ server' = [server EXCEPT ![k] = [stage |-> "done", check |-> 0]]
  /\ wire' = [wire EXCEPT ![k] = IF @ \in {"sent", "handling"} THEN answer ELSE @]
  /\ UNCHANGED runs

\* handleSocketIoCommandRequest: the stored context, then executeCommand up to
\* its first await.
Arrive(k) ==
  /\ wire[k] = "sent" /\ attached
  /\ Reach(k, 1)
  /\ wire' = [wire EXCEPT ![k] = "handling"]
  /\ UNCHANGED <<client, transport, passed>>

\* Malformed request, unknown command, no handler or invalid input.
ArriveInvalid(k) ==
  /\ wire[k] = "sent" /\ attached
  /\ Answer(k, "error")
  /\ UNCHANGED <<client, transport, passed>>

\* Mutant: one check that allows is enough.
FirstCheckAllows(k) ==
  /\ server[k].stage = "checking"
  /\ passed' = passed \cup {<<k, server[k].check>>}
  /\ Reach(k, Checks + 1)
  /\ UNCHANGED <<client, transport, wire>>

CheckAllows(k) ==
  /\ server[k].stage = "checking"
  /\ passed' = passed \cup {<<k, server[k].check>>}
  /\ Reach(k, server[k].check + 1)
  /\ UNCHANGED <<client, transport, wire>>

\* A policy or the authorizer denies or throws.
CheckRefuses(k) ==
  /\ server[k].stage = "checking"
  /\ Answer(k, "error")
  /\ UNCHANGED <<client, transport, passed>>

\* The handler returns a valid ack; it throws, or its ack is invalid.
HandlerSettles(k) ==
  /\ server[k].stage = "running"
  /\ \E answer \in {"ack", "error"} : Answer(k, answer)
  /\ UNCHANGED <<client, transport, passed>>

Next ==
  \/ \E k \in Calls :
       \/ ExecuteCommand(k) \/ RejectUnsent(k)
       \/ Timeout(k) \/ Abort(k) \/ ReceiveAnswer(k)
       \/ Miss(k) \/ Arrive(k) \/ ArriveInvalid(k)
       \/ CheckAllows(k) \/ CheckRefuses(k) \/ HandlerSettles(k)
  \/ Destroy
  \/ Connect \/ Disconnect \/ Attach

Spec == Init /\ [][Next]_vars

\* A timer that is armed fires or is cleared.  Nothing is asked of the network,
\* the server or the handlers.
FairSpec == Spec /\ \A k \in Calls : WF_vars(Timeout(k))

(***************************************************************************)
(* Properties.                                                             *)
(***************************************************************************)

\* The caller's promise: whatever is lost, late, given up or answered twice over
\* several sessions, a handler runs at most once per call, a call settles once,
\* and it resolves only after its handler has run.
Contract == INSTANCE CommandContract WITH
  outcome <- [k \in Calls |->
                IF call[k].stage \in {"resolved", "rejected"} THEN call[k].stage ELSE "none"]
ImplementsContract == Contract!Spec

\* A handler runs only for a call that every policy and the authorizer allowed,
\* also when the checks of several calls are awaited at the same time.
HandlersAreGuarded ==
  \A k \in Calls : runs[k] > 0 => \A check \in 1..Checks : <<k, check>> \in passed

\* A settled call leaves nothing behind in the caller's process: no timer that
\* keeps it alive and no listener on a signal that outlives the call.
SettledLeavesNothing ==
  \A k \in Calls : call[k].stage # "pending" => ~call[k].timer /\ ~call[k].abortListener

\* How the places of a call belong together: nothing reaches the server before
\* the request was sent, the pipeline decides whether the handler has run, and an
\* ack on its way means that it has.
PlacesAgree ==
  \A k \in Calls :
    /\ call[k].stage = "idle" => wire[k] = "none"
    /\ wire[k] \in {"none", "buffered", "sent"} => server[k].stage = "none"
    /\ wire[k] = "ack" => runs[k] = 1
    /\ server[k].stage \in {"none", "checking"} => runs[k] = 0
    /\ server[k].stage = "running" => runs[k] = 1
    /\ runs[k] \in {0, 1}

\* The checks before the one that is awaited have allowed the call.
ChecksInOrder ==
  \A k \in Calls :
    server[k].stage = "checking" =>
      /\ server[k].check \in 1..Checks
      /\ \A check \in 1..Checks : check < server[k].check => <<k, check>> \in passed

\* The inductive invariant behind the theorems of CommandCall_proofs.tla: the
\* wire, the server's pipeline and the caller's promise never contradict each
\* other, over any number of sessions.
IInv ==
  /\ TypeOK
  /\ PlacesAgree
  /\ ChecksInOrder
  /\ HandlersAreGuarded
  /\ SettledLeavesNothing

\* A call with a timeout settles, whether or not there ever is a session, the
\* server knows of it, or the runtime is destroyed.
TimedCallsSettle ==
  \A k \in Timed : call[k].stage = "pending" ~> call[k].stage \in {"resolved", "rejected"}

=============================================================================
