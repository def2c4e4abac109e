--------------------------- MODULE ClientConnection ---------------------------
(***************************************************************************)
(* The connection lifecycle of the client runtime: the transport's         *)
(* notifications, the state they lead to, the system events and the        *)
(* connection listeners, and the decision to resubscribe                   *)
(* (packages/client/src/runtime/index.ts, with the Socket.IO binding of    *)
(* packages/client/src/socket-io/index.ts).                                *)
(*                                                                         *)
(* A notification is handled synchronously, but every listener it calls,   *)
(* and the error hook that hears of a listener's error, is user code that  *)
(* may register, clean up, close the socket or destroy the runtime before  *)
(* it returns.  Closing the socket notifies at once: the handling of       *)
(* notifications nests.                                                    *)
(***************************************************************************)
EXTENDS Naturals, SequencesExt

CONSTANTS
  Listeners,         \* listener functions
  None,              \* no callback
  Statuses,          \* what the transport reports
  MaxListeners,      \* bound: registrations at a time
  MaxNotifications   \* bound: notifications of the transport

ASSUME StatusesAssumption ==
  Statuses \subseteq {"connecting", "connected", "reconnecting", "disconnected", "failed"}
ASSUME BoundsAssumption == MaxListeners \in Nat /\ MaxNotifications \in Nat

VARIABLES
  connectionState,
  listeners,          \* slot -> the Set of its listeners, in insertion order
  shouldResubscribe,  \* flag of the receiver
  subscribed,         \* the runtime has a stored subscription
  isDestroyed,
  stack,              \* transitions under way, the innermost last
  up,                 \* the transport is connected
  binding,            \* does the transport still notify, would it ever stop;
                      \*           has its unsubscribeChannel thrown out of destroy()
  notifications,      \* how many there were
  history             \* what only the properties read

runtime == <<connectionState, listeners, shouldResubscribe, subscribed, isDestroyed>>
transport == <<up, binding, notifications>>
vars == <<runtime, stack, transport, history>>

States == {"connecting", "connected", "reconnecting", "disconnected", "failed"}
\* join_failed, the sixth event, is announced by a resubscription, not by a transition.
SystemEvents == {"connected", "disconnected", "reconnect_started",
                 "reconnect_succeeded", "connection_failed"}

\* Where listeners are registered: onSystemEvent by name, onConnectionState.
Slots == SystemEvents \cup {"state"}

\* A transition: what caused it, the loop it is in with the callbacks to come, and
\* the callback that runs, which may be the error hook.  A failure is reported to
\* the hook before any loop.
OnError == "onError"
Frame == [cause : Statuses \cup {"destroy"}, loop : {"report", "system", "state", "rest"},
          todo : Seq(Listeners), running : Listeners \cup {OnError, None}]

TypeOK ==
  /\ connectionState \in States
  /\ listeners \in [Slots -> Seq(Listeners)]
  /\ shouldResubscribe \in BOOLEAN
  /\ subscribed \in BOOLEAN
  /\ isDestroyed \in BOOLEAN
  /\ stack \in Seq(Frame)
  /\ up \in BOOLEAN
  /\ binding \in [bound : BOOLEAN, unbinds : BOOLEAN, threw : BOOLEAN]
  /\ notifications \in 0..MaxNotifications
  /\ history \in [told : [Listeners -> States], owed : BOOLEAN]

\* The transport binds while the runtime is created, connected or not.
Init ==
  /\ up \in BOOLEAN
  /\ connectionState = IF up THEN "connected" ELSE "connecting"
  /\ listeners = [slot \in Slots |-> <<>>]
  /\ shouldResubscribe = FALSE
  /\ subscribed = FALSE
  /\ isDestroyed = FALSE
  /\ stack = <<>>
  /\ binding \in [bound : {TRUE}, unbinds : BOOLEAN, threw : {FALSE}]
  /\ notifications = 0
  /\ history = [told |-> [f \in Listeners |-> connectionState], owed |-> FALSE]

Top == stack[Len(stack)]
Below == SubSeq(stack, 1, Len(stack) - 1)
WithTop(frame) == Append(Below, frame)

\* User code runs between transitions and inside a callback.
UserCode == stack # <<>> => Top.running # None

(***************************************************************************)
(* transitionClientConnectionState.                                        *)
(***************************************************************************)

\* The system event of a transition.
Announced(from, to, error) ==
  CASE to = "failed" /\ error -> "connection_failed"
    [] to = "connected" -> IF from \in {"reconnecting", "disconnected", "failed"}
                           THEN "reconnect_succeeded" ELSE "connected"
    [] to = "disconnected" -> "disconnected"
    [] to = "reconnecting" -> "reconnect_started"
    [] OTHER -> "nothing"

\* The frame of a transition once its system event is announced: the listeners of
\* the event are copied.
Announce(frame, event) ==
  [frame EXCEPT !.loop = "system", !.running = None,
                !.todo = IF event = "nothing" THEN <<>> ELSE listeners[event]]

\* Nothing happens when the state stays and there is no error; otherwise the state
\* changes at once, and the error hook hears of a failure before anybody else.
Transition(cause, to, error) ==
  LET frame == [cause |-> cause, loop |-> "rest", running |-> None, todo |-> <<>>]
      event == Announced(connectionState, to, error)
  IN  IF connectionState = to /\ ~error
      THEN /\ stack' = Append(stack, frame)
           /\ UNCHANGED connectionState
      ELSE /\ stack' = Append(stack,
                          IF event = "connection_failed"
                          THEN [frame EXCEPT !.loop = "report", !.running = OnError]
                          ELSE Announce(frame, event))
           /\ connectionState' = to

\* Mutant: connection listeners are told the state of their own transition.
HeardOwn(frame) == IF frame.cause = "destroy" THEN "disconnected" ELSE frame.cause

\* A connection listener is told the state of this moment.
Heard(frame) == connectionState

\* Calls the next listener.
CallNext ==
  /\ stack # <<>>
  /\ Top.running = None
  /\ Top.todo # <<>>
  /\ stack' = WithTop([Top EXCEPT !.running = Head(Top.todo), !.todo = Tail(@)])
  /\ history' = IF Top.loop = "state"
                THEN [history EXCEPT !.told[Head(Top.todo)] = Heard(Top)]
                ELSE history
  /\ UNCHANGED <<runtime, transport>>

RunningIn(S) == stack # <<>> /\ Top.running \in S

CallbackReturns ==
  /\ RunningIn(Listeners)
  /\ stack' = WithTop([Top EXCEPT !.running = None])
  /\ UNCHANGED <<runtime, transport, history>>

\* The error of a listener, normalized unless it is a realtime error, is reported.
CallbackThrows ==
  /\ RunningIn(Listeners)
  /\ stack' = WithTop([Top EXCEPT !.running = OnError])
  /\ UNCHANGED <<runtime, transport, history>>

\* The error hook returned or threw: the loop goes on, or the failure that was
\* reported is announced to those who listen by now.
ReportEnds ==
  /\ RunningIn({OnError})
  /\ stack' = WithTop(IF Top.loop = "report" THEN Announce(Top, "connection_failed")
                      ELSE [Top EXCEPT !.running = None])
  /\ UNCHANGED <<runtime, transport, history>>

LoopIsOver(loop) ==
  stack # <<>> /\ Top.running = None /\ Top.todo = <<>> /\ Top.loop = loop

\* The connection listeners are copied once the system event is announced.
StartStateLoop ==
  /\ LoopIsOver("system")
  /\ stack' = WithTop([Top EXCEPT !.loop = "state", !.todo = listeners["state"]])
  /\ UNCHANGED <<runtime, transport, history>>

EndStateLoop ==
  /\ LoopIsOver("state")
  /\ stack' = WithTop([Top EXCEPT !.loop = "rest"])
  /\ UNCHANGED <<runtime, transport, history>>

(***************************************************************************)
(* createTransportConnectionReceiver: what is left to do after the         *)
(* transition, whatever its listeners did.                                 *)
(***************************************************************************)

ReceiverRest(cause) ==
  /\ LoopIsOver("rest")
  /\ Top.cause = cause
  /\ stack' = Below

\* Mutant: only an announced attempt asks for resubscriptions.
LossRemembered ==
  /\ \E cause \in {"reconnecting", "disconnected"} :
       /\ ReceiverRest(cause)
       /\ shouldResubscribe' = (shouldResubscribe \/ cause = "reconnecting")
  /\ UNCHANGED <<connectionState, listeners, subscribed, isDestroyed, transport, history>>

RememberLoss ==
  /\ \E cause \in {"reconnecting", "disconnected"} : ReceiverRest(cause)
  /\ shouldResubscribe' = TRUE
  /\ UNCHANGED <<connectionState, listeners, subscribed, isDestroyed, transport, history>>

\* Every stored subscription is scheduled again if the connection had been lost.
Resubscribe ==
  /\ ReceiverRest("connected")
  /\ shouldResubscribe' = FALSE
  /\ history' = [history EXCEPT !.owed = @ /\ ~(shouldResubscribe /\ subscribed)]
  /\ UNCHANGED <<connectionState, listeners, subscribed, isDestroyed, transport>>

\* A failure or an attempt changes nothing more.
ReceiverDone ==
  /\ \E cause \in {"failed", "connecting"} : ReceiverRest(cause)
  /\ UNCHANGED <<runtime, transport, history>>

(***************************************************************************)
(* The transport.                                                          *)
(***************************************************************************)

\* A notification; after the unbinding nobody hears it.
Notify(status, error) ==
  /\ status \in Statuses
  /\ notifications < MaxNotifications
  /\ notifications' = notifications + 1
  /\ IF binding.bound
     THEN Transition(status, status, error)
     ELSE UNCHANGED <<stack, connectionState>>
  /\ UNCHANGED <<listeners, shouldResubscribe, subscribed, isDestroyed, binding>>

Connect ==
  /\ stack = <<>>
  /\ ~up
  /\ up' = TRUE
  /\ Notify("connected", FALSE)
  /\ UNCHANGED history

\* The connection is lost between turns, or closed by the user code that runs.
Disconnect ==
  /\ UserCode
  /\ up
  /\ up' = FALSE
  /\ Notify("disconnected", FALSE)
  /\ history' = [history EXCEPT !.owed = @ \/ subscribed]

\* An attempt begins or fails; Socket.IO gives its error, others need not.
Attempt ==
  /\ stack = <<>>
  /\ ~up
  /\ UNCHANGED up
  /\ \/ Notify("connecting", FALSE)
     \/ Notify("reconnecting", FALSE)
     \/ \E error \in BOOLEAN : Notify("failed", error)
  /\ UNCHANGED history

(***************************************************************************)
(* Calls of user code.                                                     *)
(***************************************************************************)

Registered == {l \in Slots \X Listeners : Contains(listeners[l[1]], l[2])}

\* onConnectionState, onSystemEvent.
Register(slot, f) ==
  /\ UserCode
  /\ ~isDestroyed
  /\ <<slot, f>> \notin Registered
  /\ Cardinality(Registered) < MaxListeners
  /\ listeners' = [listeners EXCEPT ![slot] = Append(@, f)]
  /\ history' = IF slot = "state" THEN [history EXCEPT !.told[f] = connectionState] ELSE history
  /\ UNCHANGED <<connectionState, shouldResubscribe, subscribed, isDestroyed, stack, transport>>

\* The function a registration returned.
Cleanup(slot, f) ==
  /\ UserCode
  /\ <<slot, f>> \in Registered
  /\ listeners' = [listeners EXCEPT ![slot] = RemoveFirst(@, f)]
  /\ UNCHANGED <<connectionState, shouldResubscribe, subscribed, isDestroyed, stack,
                 transport, history>>

\* An operation on a channel settles: a subscription is stored or deleted
\* (ClientSubscriptions says when).
ChangeSubscription ==
  /\ stack = <<>>
  /\ ~isDestroyed
  /\ up \/ subscribed
  /\ subscribed' = ~subscribed
  /\ history' = [history EXCEPT !.owed = FALSE]
  /\ UNCHANGED <<connectionState, listeners, shouldResubscribe, isDestroyed, stack, transport>>

\* destroy() up to its transition.
Destroy ==
  /\ UserCode
  /\ ~isDestroyed
  /\ isDestroyed' = TRUE
  /\ Transition("destroy", "disconnected", FALSE)
  /\ UNCHANGED <<listeners, shouldResubscribe, subscribed, transport, history>>

\* unsubscribeChannel of the transport throws before it has a promise: destroy()
\* ends there, and the runtime is destroyed by name only; a second destroy() is
\* ignored.
DestroyThrows ==
  /\ UserCode
  /\ ~isDestroyed
  /\ subscribed
  /\ isDestroyed' = TRUE
  /\ binding' = [binding EXCEPT !.threw = TRUE]
  /\ UNCHANGED <<connectionState, listeners, shouldResubscribe, subscribed, stack,
                 up, notifications, history>>

\* Mutant: the Set of the connection listeners is deleted as well.
NoListenersLeft == [slot \in SystemEvents |-> <<>>]

\* What destroy() leaves of the listeners: those of the connection.
ListenersLeft == [slot \in Slots |-> IF slot = "state" THEN listeners[slot] ELSE <<>>]

\* dispose() closes a socket that the transport made itself.
UpAfterDispose == IF binding.unbinds THEN {up, FALSE} ELSE {up}

DestroyEnds ==
  /\ ReceiverRest("destroy")
  /\ listeners' = ListenersLeft
  /\ up' \in UpAfterDispose
  /\ UNCHANGED <<connectionState, shouldResubscribe, isDestroyed, notifications, history>>

\* Mutant: the transport stays bound.
DestroyStaysBound ==
  /\ DestroyEnds
  /\ subscribed' = FALSE
  /\ UNCHANGED binding

\* The rest of destroy(): the maps are cleared, but not the connection listeners;
\* the transport is unbound if it can be, and disposed.
DestroyRest ==
  /\ DestroyEnds
  /\ subscribed' = FALSE
  /\ binding' = [binding EXCEPT !.bound = ~binding.unbinds]

Next ==
  \/ CallNext \/ CallbackReturns \/ CallbackThrows \/ ReportEnds
  \/ StartStateLoop \/ EndStateLoop
  \/ RememberLoss \/ Resubscribe \/ ReceiverDone
  \/ Connect \/ Disconnect \/ Attempt
  \/ \E slot \in Slots, f \in Listeners : Register(slot, f) \/ Cleanup(slot, f)
  \/ ChangeSubscription
  \/ Destroy \/ DestroyThrows \/ DestroyRest

Spec == Init /\ [][Next]_vars

(***************************************************************************)
(* Properties.                                                             *)
(***************************************************************************)

\* When nothing is under way, every connection listener has last heard the state
\* of the connection: also where a listener before it closed the socket or
\* destroyed the runtime, so that transitions nested and their loops overlapped.
ListenersAreCurrent ==
  stack = <<>> =>
    \A f \in ToSet(listeners["state"]) : history.told[f] = connectionState

\* On a connection that is up, no stored subscription waits for a resubscription
\* that a loss made necessary and nothing will schedule any more, whichever
\* attempts and failures lay between, and whatever listeners did on the way.
NoSubscriptionForgotten ==
  stack = <<>> /\ up /\ ~isDestroyed => ~history.owed

\* A destroyed runtime reports itself as disconnected for ever, if its transport
\* can be unbound and did not throw out of destroy(): no transition that was under
\* way, and no later notification, makes it look alive.
DestroyedIsDisconnected ==
  isDestroyed /\ stack = <<>> /\ binding.unbinds /\ ~binding.threw =>
    connectionState = "disconnected"

(***************************************************************************)
(* The inductive invariant behind the theorems of ClientConnection_proofs. *)
(***************************************************************************)

\* Some transition under way was caused so.
Pending(causes) == \E i \in 1..Len(stack) : stack[i].cause \in causes

\* A transition that has its connection listeners still to copy, or f to call.
WillTell(frame, f) ==
  \/ frame.loop \in {"report", "system"}
  \/ frame.loop = "state" /\ f \in ToSet(frame.todo)

\* Who has not heard of the state will be told by a transition under way.
EverybodyIsTold ==
  \A f \in ToSet(listeners["state"]) :
    history.told[f] # connectionState => \E i \in 1..Len(stack) : WillTell(stack[i], f)

\* A socket connects between turns only: no transition is below that of a connect.
ConnectedIsBelow == \A i \in 2..Len(stack) : stack[i].cause # "connected"

\* What a loss made necessary is remembered, or will be by a transition under way,
\* and a connection that is up again has its own transition to act on it.
OwedIsPending ==
  history.owed /\ ~isDestroyed =>
    /\ subscribed
    /\ shouldResubscribe \/ Pending({"disconnected", "reconnecting"})
    /\ up => Len(stack) >= 1 /\ stack[1].cause = "connected"

\* Only destroy() unbinds or lets the transport throw.
BoundUntilDestroyed ==
  ~isDestroyed => binding.bound /\ ~binding.threw /\ ~Pending({"destroy"})

\* destroy() changes the state at once, and unbinds when its transition is over.
DestructionIsPending ==
  isDestroyed /\ binding.unbinds /\ ~binding.threw =>
    /\ connectionState = "disconnected"
    /\ binding.bound => Pending({"destroy"})

IInv ==
  /\ TypeOK
  /\ EverybodyIsTold
  /\ ConnectedIsBelow /\ OwedIsPending
  /\ BoundUntilDestroyed /\ DestructionIsPending
=============================================================================
