------------------------ MODULE ClientConnection_proofs ------------------------
(***************************************************************************)
(* Proofs about ClientConnection: IInv is inductive, and with it, for any  *)
(* listeners, statuses and number of notifications,                        *)
(*   TypeCorrect       the variables keep their types;                     *)
(*   ListenersCurrent  connection listeners end up knowing the state;      *)
(*   NothingForgotten  no subscription stays lost on a connection that is  *)
(*                     up;                                                 *)
(*   StaysDestroyed    a destroyed runtime never looks alive again.        *)
(*                                                                         *)
(* Transitions nest without bound, so the argument is about places of the  *)
(* stack: a step replaces the innermost transition (TopSteps), ends it     *)
(* (PopSteps) or begins one above it (PushSteps), and the obligations of   *)
(* the transitions below are as they were.                                 *)
(***************************************************************************)
EXTENDS ClientConnection, SequenceFacts

Causes == Statuses \cup {"destroy"}

\* What the types say of the stack of transitions.
LEMMA TypesUnfolded ==
  ASSUME TypeOK
  PROVE  /\ stack \in Seq(Frame)
         /\ Len(stack) \in Nat
         /\ \A i \in 1..Len(stack) : stack[i] \in Frame
         /\ stack # <<>> <=> Len(stack) >= 1
         /\ stack # <<>> => Top \in Frame /\ Top = stack[Len(stack)]
BY DEF TypeOK, Top

\* Another frame in the place of the innermost one.
LEMMA TopReplaced ==
  ASSUME TypeOK, stack # <<>>, NEW frame \in Frame, stack' = WithTop(frame)
  PROVE  /\ stack' \in Seq(Frame)
         /\ Len(stack') = Len(stack)
         /\ \A i \in 1..(Len(stack) - 1) : stack'[i] = stack[i]
         /\ stack'[Len(stack)] = frame
<1>1. /\ stack \in Seq(Frame)
      /\ Len(stack) \in Nat \ {0}
      /\ \A i \in 1..Len(stack) : stack[i] \in Frame
  BY TypesUnfolded
<1>2. /\ Below \in Seq(Frame)
      /\ Len(Below) = Len(stack) - 1
      /\ \A i \in 1..(Len(stack) - 1) : Below[i] = stack[i]
  BY <1>1, WithoutLast DEF Below
<1>3. QED
  BY <1>1, <1>2 DEF WithTop

\* The innermost frame is gone.
LEMMA TopRemoved ==
  ASSUME TypeOK, stack # <<>>, stack' = Below
  PROVE  /\ stack' \in Seq(Frame)
         /\ Len(stack') = Len(stack) - 1
         /\ \A i \in 1..(Len(stack) - 1) : stack'[i] = stack[i]
<1>1. stack \in Seq(Frame)
  BY TypesUnfolded
<1>2. QED
  BY <1>1, WithoutLast DEF Below

\* A new runtime has nothing under way.
LEMMA InitInv == Init => IInv
<1> SUFFICES ASSUME Init PROVE IInv
  OBVIOUS
<1>1. /\ <<>> \in Seq(Listeners)
      /\ <<>> \in Seq(Frame)
  OBVIOUS
<1>2. connectionState \in States
  BY DEF Init, States
<1>3. TypeOK
  <2>1. notifications \in 0..MaxNotifications
    BY BoundsAssumption DEF Init
  <2>2. history \in [told : [Listeners -> States], owed : BOOLEAN]
    BY <1>2 DEF Init
  <2>3. listeners \in [Slots -> Seq(Listeners)]
    BY <1>1 DEF Init
  <2>4. binding \in [bound : BOOLEAN, unbinds : BOOLEAN, threw : BOOLEAN]
    BY DEF Init
  <2>5. QED
    BY <1>1, <1>2, <2>1, <2>2, <2>3, <2>4 DEF Init, TypeOK
<1>4. EverybodyIsTold
  <2>1. ToSet(listeners["state"]) = {}
    BY EmptyToSet DEF Init, Slots
  <2>2. QED
    BY <2>1 DEF EverybodyIsTold
<1>5. ConnectedIsBelow /\ OwedIsPending
  BY DEF Init, ConnectedIsBelow, OwedIsPending
<1>6. BoundUntilDestroyed /\ DestructionIsPending
  <2>1. ~Pending({"destroy"})
    BY DEF Init, Pending
  <2>2. QED
    BY <2>1 DEF Init, BoundUntilDestroyed, DestructionIsPending
<1>7. QED
  BY <1>3, <1>4, <1>5, <1>6 DEF IInv

(***************************************************************************)
(* Steps of the innermost transition.                                      *)
(***************************************************************************)

\* A step of the innermost transition keeps its cause, and whoever it still had to
\* tell it still has, or has told.
LEMMA TopSteps ==
  ASSUME IInv, stack # <<>>, UNCHANGED <<runtime, transport>>,
         NEW frame \in Frame, stack' = WithTop(frame), frame.cause = Top.cause,
         history' \in [told : [Listeners -> States], owed : BOOLEAN],
         history'.owed = history.owed,
         \A f \in Listeners : history'.told[f] \in {history.told[f], connectionState},
         \A f \in ToSet(listeners["state"]) :
           WillTell(Top, f) => WillTell(frame, f) \/ history'.told[f] = connectionState
  PROVE  IInv'
<1>1. /\ stack' \in Seq(Frame)
      /\ Len(stack') = Len(stack)
      /\ \A i \in 1..(Len(stack) - 1) : stack'[i] = stack[i]
      /\ stack'[Len(stack)] = frame
      /\ Len(stack) \in Nat \ {0}
      /\ Top = stack[Len(stack)]
  BY TopReplaced, TypesUnfolded DEF IInv
<1>2. /\ UNCHANGED <<connectionState, listeners, shouldResubscribe, subscribed, isDestroyed>>
      /\ UNCHANGED <<up, binding, notifications>>
  BY DEF runtime, transport
<1>3. \A i \in 1..Len(stack) : stack'[i].cause = stack[i].cause
  BY <1>1
<1>4. TypeOK'
  BY <1>1, <1>2 DEF IInv, TypeOK
<1>5. EverybodyIsTold'
  <2>1. ASSUME NEW f \in ToSet(listeners["state"]), history'.told[f] # connectionState
        PROVE  \E i \in 1..Len(stack) : WillTell(stack'[i], f)
    <3>1. f \in Listeners
      BY DEF IInv, TypeOK, ToSet, Slots
    <3>2. PICK i \in 1..Len(stack) : WillTell(stack[i], f)
      BY <2>1, <3>1 DEF IInv, EverybodyIsTold
    <3>3. CASE i = Len(stack)
      BY <1>1, <2>1, <3>2, <3>3
    <3>4. CASE i # Len(stack)
      BY <1>1, <3>2, <3>4
    <3>5. QED
      BY <3>3, <3>4
  <2>2. QED
    BY <1>1, <1>2, <2>1 DEF EverybodyIsTold, WillTell
<1>6. ConnectedIsBelow' /\ OwedIsPending' /\ BoundUntilDestroyed' /\ DestructionIsPending'
  BY <1>1, <1>2, <1>3
  DEF IInv, ConnectedIsBelow, OwedIsPending, BoundUntilDestroyed, DestructionIsPending, Pending
<1>7. QED
  BY <1>4, <1>5, <1>6 DEF IInv

\* Head and tail of what the innermost transition has to do.
LEMMA CallNextInv ==
  ASSUME IInv, CallNext
  PROVE  IInv'
<1> DEFINE f == Head(Top.todo)
           frame == [Top EXCEPT !.running = f, !.todo = Tail(@)]
<1>1. /\ stack # <<>>
      /\ Top \in Frame
      /\ Top.todo \in Seq(Listeners)
      /\ Top.todo # <<>>
      /\ UNCHANGED <<runtime, transport>>
      /\ stack' = WithTop(frame)
      /\ history' = IF Top.loop = "state"
                    THEN [history EXCEPT !.told[f] = connectionState] ELSE history
  BY TypesUnfolded DEF IInv, CallNext, Heard, Frame
<1>2. /\ f \in Listeners
      /\ Tail(Top.todo) \in Seq(Listeners)
      /\ ToSet(Top.todo) = {f} \cup ToSet(Tail(Top.todo))
  BY <1>1, HeadAndTail
<1>3. /\ frame \in Frame
      /\ frame.cause = Top.cause
      /\ frame.loop = Top.loop
      /\ frame.todo = Tail(Top.todo)
  BY <1>1, <1>2 DEF Frame
<1> HIDE DEF f, frame
<1>4. /\ history \in [told : [Listeners -> States], owed : BOOLEAN]
      /\ connectionState \in States
  BY DEF IInv, TypeOK
<1>5. /\ history' \in [told : [Listeners -> States], owed : BOOLEAN]
      /\ history'.owed = history.owed
      /\ \A g \in Listeners : history'.told[g] \in {history.told[g], connectionState}
      /\ Top.loop = "state" => history'.told[f] = connectionState
  BY <1>1, <1>2, <1>4
<1>6. ASSUME NEW g \in ToSet(listeners["state"]), WillTell(Top, g)
      PROVE  WillTell(frame, g) \/ history'.told[g] = connectionState
  BY <1>2, <1>3, <1>5, <1>6 DEF WillTell
<1>7. QED
  BY <1>1, <1>3, <1>5, <1>6, TopSteps

\* The error hook is told, the callback is over, the next loop begins.
LEMMA LoopInv ==
  ASSUME IInv,
         CallbackReturns \/ CallbackThrows \/ ReportEnds \/ StartStateLoop \/ EndStateLoop
  PROVE  IInv'
<1>1. /\ stack # <<>>
      /\ Top \in Frame
      /\ UNCHANGED <<runtime, transport, history>>
  BY TypesUnfolded
  DEF IInv, CallbackReturns, CallbackThrows, ReportEnds, StartStateLoop, EndStateLoop,
      RunningIn, LoopIsOver
<1>2. /\ listeners \in [Slots -> Seq(Listeners)]
      /\ history \in [told : [Listeners -> States], owed : BOOLEAN]
      /\ connectionState \in States
  BY DEF IInv, TypeOK
<1>3. \E frame \in Frame :
        /\ stack' = WithTop(frame)
        /\ frame.cause = Top.cause
        /\ \A f \in ToSet(listeners["state"]) : WillTell(Top, f) => WillTell(frame, f)
  <2>1. CASE CallbackReturns
    <3> DEFINE frame == [Top EXCEPT !.running = None]
    <3>1. stack' = WithTop(frame)
      BY <2>1 DEF CallbackReturns
    <3>2. frame \in Frame /\ frame.cause = Top.cause /\ frame.loop = Top.loop /\ frame.todo = Top.todo
      BY <1>1 DEF Frame
    <3>3. QED
      BY <3>1, <3>2 DEF WillTell
  <2>2. CASE CallbackThrows
    <3> DEFINE frame == [Top EXCEPT !.running = OnError]
    <3>1. stack' = WithTop(frame)
      BY <2>2 DEF CallbackThrows
    <3>2. frame \in Frame /\ frame.cause = Top.cause /\ frame.loop = Top.loop /\ frame.todo = Top.todo
      BY <1>1 DEF Frame
    <3>3. QED
      BY <3>1, <3>2 DEF WillTell
  <2>3. CASE ReportEnds /\ Top.loop = "report"
    <3> DEFINE frame == Announce(Top, "connection_failed")
    <3>1. stack' = WithTop(frame)
      BY <2>3 DEF ReportEnds
    <3>2. listeners["connection_failed"] \in Seq(Listeners)
      BY <1>2 DEF Slots, SystemEvents
    <3>3. frame \in Frame /\ frame.cause = Top.cause /\ frame.loop = "system"
      BY <1>1, <3>2 DEF Announce, Frame
    <3>4. QED
      BY <3>1, <3>3 DEF WillTell
  <2>4. CASE ReportEnds /\ Top.loop # "report"
    <3> DEFINE frame == [Top EXCEPT !.running = None]
    <3>1. stack' = WithTop(frame)
      BY <2>4 DEF ReportEnds
    <3>2. frame \in Frame /\ frame.cause = Top.cause /\ frame.loop = Top.loop /\ frame.todo = Top.todo
      BY <1>1 DEF Frame
    <3>3. QED
      BY <3>1, <3>2 DEF WillTell
  <2>5. CASE StartStateLoop
    <3> DEFINE frame == [Top EXCEPT !.loop = "state", !.todo = listeners["state"]]
    <3>1. stack' = WithTop(frame)
      BY <2>5 DEF StartStateLoop
    <3>2. listeners["state"] \in Seq(Listeners)
      BY <1>2 DEF Slots
    <3>3. /\ frame \in Frame
          /\ frame.cause = Top.cause
          /\ frame.loop = "state"
          /\ frame.todo = listeners["state"]
      BY <1>1, <3>2 DEF Frame
    <3>4. QED
      BY <3>1, <3>3 DEF WillTell
  <2>6. CASE EndStateLoop
    <3> DEFINE frame == [Top EXCEPT !.loop = "rest"]
    <3>1. stack' = WithTop(frame) /\ Top.loop = "state" /\ Top.todo = <<>>
      BY <2>6 DEF EndStateLoop, LoopIsOver
    <3>2. frame \in Frame /\ frame.cause = Top.cause
      BY <1>1 DEF Frame
    <3>3. QED
      BY <3>1, <3>2, EmptyToSet DEF WillTell
  <2>7. QED
    BY <2>1, <2>2, <2>3, <2>4, <2>5, <2>6
<1>4. PICK frame \in Frame :
        /\ stack' = WithTop(frame)
        /\ frame.cause = Top.cause
        /\ \A f \in ToSet(listeners["state"]) : WillTell(Top, f) => WillTell(frame, f)
  BY <1>3
<1>5. /\ history' \in [told : [Listeners -> States], owed : BOOLEAN]
      /\ history'.owed = history.owed
      /\ \A f \in Listeners : history'.told[f] \in {history.told[f], connectionState}
  BY <1>1, <1>2
<1>6. QED
  BY <1>1, <1>4, <1>5, TopSteps

(***************************************************************************)
(* Transitions that end.                                                   *)
(***************************************************************************)

\* Nobody waits for a transition whose loops are over; the others are as they were.
LEMMA PopSteps ==
  ASSUME IInv, NEW cause, ReceiverRest(cause),
         UNCHANGED connectionState, listeners'["state"] = listeners["state"],
         history'.told = history.told
  PROVE  /\ stack # <<>>
         /\ stack[Len(stack)].cause = cause
         /\ stack' \in Seq(Frame)
         /\ Len(stack) \in Nat \ {0}
         /\ Len(stack') = Len(stack) - 1
         /\ \A i \in 1..Len(stack') : stack'[i] = stack[i]
         /\ ~Pending({"destroy"}) => ~Pending({"destroy"})'
         /\ EverybodyIsTold' /\ ConnectedIsBelow'
<1>1. /\ stack # <<>>
      /\ Top.loop = "rest"
      /\ Top.cause = cause
      /\ stack' = Below
  BY DEF ReceiverRest, LoopIsOver
<1>2. /\ stack' \in Seq(Frame)
      /\ Len(stack') = Len(stack) - 1
      /\ \A i \in 1..(Len(stack) - 1) : stack'[i] = stack[i]
      /\ Len(stack) \in Nat \ {0}
      /\ Top = stack[Len(stack)]
  BY <1>1, TopRemoved, TypesUnfolded DEF IInv
<1>3. EverybodyIsTold'
  <2>1. ASSUME NEW f \in ToSet(listeners["state"]), history.told[f] # connectionState
        PROVE  \E i \in 1..Len(stack') : WillTell(stack'[i], f)
    <3>1. PICK i \in 1..Len(stack) : WillTell(stack[i], f)
      BY <2>1 DEF IInv, EverybodyIsTold
    <3>2. i # Len(stack)
      BY <1>1, <1>2, <3>1 DEF WillTell
    <3>3. QED
      BY <1>2, <3>1, <3>2
  <2>2. QED
    BY <2>1 DEF EverybodyIsTold, WillTell
<1>4. ConnectedIsBelow'
  BY <1>2 DEF IInv, ConnectedIsBelow
<1>5. ~Pending({"destroy"}) => ~Pending({"destroy"})'
  BY <1>2 DEF Pending
<1>6. QED
  BY <1>1, <1>2, <1>3, <1>4, <1>5

\* A destruction under way is still there when another transition ends.
LEMMA DestructionStays ==
  ASSUME IInv, NEW cause, cause # "destroy", ReceiverRest(cause),
         UNCHANGED <<connectionState, isDestroyed, binding>>,
         listeners'["state"] = listeners["state"], history'.told = history.told
  PROVE  DestructionIsPending'
<1>1. /\ stack[Len(stack)].cause = cause
      /\ Len(stack) \in Nat \ {0}
      /\ Len(stack') = Len(stack) - 1
      /\ \A i \in 1..Len(stack') : stack'[i] = stack[i]
  BY PopSteps
<1>2. Pending({"destroy"}) => Pending({"destroy"})'
  BY <1>1 DEF Pending
<1>3. QED
  BY <1>2 DEF IInv, DestructionIsPending

\* reconnecting and disconnected: the loss is remembered.
LEMMA RememberLossInv ==
  ASSUME IInv, RememberLoss
  PROVE  IInv'
<1>1. PICK cause \in {"reconnecting", "disconnected"} : ReceiverRest(cause)
  BY DEF RememberLoss
<1>2. /\ shouldResubscribe' = TRUE
      /\ UNCHANGED <<connectionState, listeners, subscribed, isDestroyed, history>>
      /\ UNCHANGED <<up, binding, notifications>>
  BY DEF RememberLoss, transport
<1>3. /\ stack[Len(stack)].cause = cause
      /\ stack' \in Seq(Frame)
      /\ Len(stack) \in Nat \ {0}
      /\ Len(stack') = Len(stack) - 1
      /\ \A i \in 1..Len(stack') : stack'[i] = stack[i]
      /\ EverybodyIsTold' /\ ConnectedIsBelow'
  BY <1>1, <1>2, PopSteps
<1>4. TypeOK'
  BY <1>2, <1>3 DEF IInv, TypeOK
<1>5. OwedIsPending'
  <2>1. ASSUME history.owed, ~isDestroyed, up
        PROVE  Len(stack') >= 1 /\ stack'[1].cause = "connected"
    <3>1. Len(stack) >= 1 /\ stack[1].cause = "connected"
      BY <2>1 DEF IInv, OwedIsPending
    <3>2. Len(stack) # 1
      BY <1>1, <1>3, <3>1
    <3>3. QED
      BY <1>3, <3>1, <3>2
  <2>2. QED
    BY <1>2, <2>1 DEF IInv, OwedIsPending
<1>6. BoundUntilDestroyed' /\ DestructionIsPending'
  BY <1>1, <1>2, PopSteps, DestructionStays DEF IInv, BoundUntilDestroyed
<1>7. QED
  BY <1>3, <1>4, <1>5, <1>6 DEF IInv

\* connected: when its transition ends, no loss is left unremembered, and the
\* subscriptions are scheduled.
LEMMA ResubscribeInv ==
  ASSUME IInv, Resubscribe
  PROVE  IInv'
<1>1. ReceiverRest("connected")
  BY DEF Resubscribe
<1>2. /\ shouldResubscribe' = FALSE
      /\ history' = [history EXCEPT !.owed = @ /\ ~(shouldResubscribe /\ subscribed)]
      /\ UNCHANGED <<connectionState, listeners, subscribed, isDestroyed>>
      /\ UNCHANGED <<up, binding, notifications>>
      /\ history \in [told : [Listeners -> States], owed : BOOLEAN]
  BY DEF Resubscribe, transport, IInv, TypeOK
<1>3. /\ history' \in [told : [Listeners -> States], owed : BOOLEAN]
      /\ history'.told = history.told
      /\ history'.owed <=> history.owed /\ ~(shouldResubscribe /\ subscribed)
  BY <1>2
<1>4. /\ stack[Len(stack)].cause = "connected"
      /\ stack' \in Seq(Frame)
      /\ Len(stack) \in Nat \ {0}
      /\ Len(stack') = Len(stack) - 1
      /\ \A i \in 1..Len(stack') : stack'[i] = stack[i]
      /\ EverybodyIsTold' /\ ConnectedIsBelow'
  BY <1>1, <1>2, <1>3, PopSteps
<1>5. TypeOK'
  BY <1>2, <1>3, <1>4 DEF IInv, TypeOK
<1>6. OwedIsPending'
  <2>1. Len(stack) = 1
    BY <1>4 DEF IInv, ConnectedIsBelow
  <2>2. ~Pending({"disconnected", "reconnecting"})
    BY <1>4, <2>1 DEF Pending
  <2>3. ~isDestroyed => ~history'.owed
    BY <1>3, <2>2 DEF IInv, OwedIsPending
  <2>4. QED
    BY <1>2, <2>3 DEF OwedIsPending
<1>7. BoundUntilDestroyed' /\ DestructionIsPending'
  BY <1>1, <1>2, <1>3, PopSteps, DestructionStays DEF IInv, BoundUntilDestroyed
<1>8. QED
  BY <1>4, <1>5, <1>6, <1>7 DEF IInv

\* failed and connecting: nothing is left to do.
LEMMA ReceiverDoneInv ==
  ASSUME IInv, ReceiverDone
  PROVE  IInv'
<1>1. PICK cause \in {"failed", "connecting"} : ReceiverRest(cause)
  BY DEF ReceiverDone
<1>2. /\ UNCHANGED <<connectionState, listeners, shouldResubscribe, subscribed, isDestroyed>>
      /\ UNCHANGED <<up, binding, notifications, history>>
  BY DEF ReceiverDone, transport, runtime
<1>3. /\ stack[Len(stack)].cause = cause
      /\ stack' \in Seq(Frame)
      /\ Len(stack) \in Nat \ {0}
      /\ Len(stack') = Len(stack) - 1
      /\ \A i \in 1..Len(stack') : stack'[i] = stack[i]
      /\ EverybodyIsTold' /\ ConnectedIsBelow'
  BY <1>1, <1>2, PopSteps
<1>4. TypeOK'
  BY <1>2, <1>3 DEF IInv, TypeOK
<1>5. OwedIsPending'
  <2>1. ASSUME history.owed, ~isDestroyed, up
        PROVE  Len(stack') >= 1 /\ stack'[1].cause = "connected"
    <3>1. Len(stack) >= 1 /\ stack[1].cause = "connected"
      BY <2>1 DEF IInv, OwedIsPending
    <3>2. Len(stack) # 1
      BY <1>1, <1>3, <3>1
    <3>3. QED
      BY <1>3, <3>1, <3>2
  <2>2. ASSUME Pending({"disconnected", "reconnecting"})
        PROVE  Pending({"disconnected", "reconnecting"})'
    <3>1. PICK i \in 1..Len(stack) : stack[i].cause \in {"disconnected", "reconnecting"}
      BY <2>2 DEF Pending
    <3>2. i # Len(stack)
      BY <1>1, <1>3, <3>1
    <3>3. QED
      BY <1>3, <3>1, <3>2 DEF Pending
  <2>3. QED
    BY <1>2, <2>1, <2>2 DEF IInv, OwedIsPending
<1>6. BoundUntilDestroyed' /\ DestructionIsPending'
  BY <1>1, <1>2, PopSteps, DestructionStays DEF IInv, BoundUntilDestroyed
<1>7. QED
  BY <1>3, <1>4, <1>5, <1>6 DEF IInv

\* The end of destroy(): a transport that can be unbound is.
LEMMA DestroyRestInv ==
  ASSUME IInv, DestroyRest
  PROVE  IInv'
<1>1. ReceiverRest("destroy")
  BY DEF DestroyRest, DestroyEnds
<1>2. /\ listeners' = ListenersLeft
      /\ up' \in UpAfterDispose
      /\ subscribed' = FALSE
      /\ binding' = [binding EXCEPT !.bound = ~binding.unbinds]
      /\ UNCHANGED <<connectionState, shouldResubscribe, isDestroyed, notifications, history>>
  BY DEF DestroyRest, DestroyEnds
<1>3. /\ listeners' \in [Slots -> Seq(Listeners)]
      /\ listeners'["state"] = listeners["state"]
  <2>1. <<>> \in Seq(Listeners)
    OBVIOUS
  <2>2. QED
    BY <1>2, <2>1 DEF IInv, TypeOK, ListenersLeft, Slots
<1>4. /\ stack # <<>>
      /\ stack[Len(stack)].cause = "destroy"
      /\ stack' \in Seq(Frame)
      /\ EverybodyIsTold' /\ ConnectedIsBelow'
  BY <1>1, <1>2, <1>3, PopSteps
<1>5. /\ binding' \in [bound : BOOLEAN, unbinds : BOOLEAN, threw : BOOLEAN]
      /\ binding'.bound <=> ~binding.unbinds
      /\ binding'.unbinds = binding.unbinds
      /\ binding'.threw = binding.threw
  BY <1>2 DEF IInv, TypeOK
<1>6. up' \in BOOLEAN
  BY <1>2 DEF IInv, TypeOK, UpAfterDispose
<1>7. TypeOK'
  BY <1>2, <1>3, <1>4, <1>5, <1>6 DEF IInv, TypeOK
<1>8. isDestroyed
  <2>1. Pending({"destroy"})
    BY <1>1, <1>4, PopSteps, TypesUnfolded DEF IInv, Pending
  <2>2. QED
    BY <2>1 DEF IInv, BoundUntilDestroyed
<1>9. OwedIsPending' /\ BoundUntilDestroyed'
  BY <1>2, <1>8 DEF OwedIsPending, BoundUntilDestroyed
<1>10. DestructionIsPending'
  BY <1>2, <1>5 DEF IInv, DestructionIsPending
<1>11. QED
  BY <1>4, <1>7, <1>9, <1>10 DEF IInv

(***************************************************************************)
(* Transitions that begin.                                                 *)
(***************************************************************************)

\* The system event of a transition is one of those with listeners, or none.
LEMMA AnnouncedIsAnEvent ==
  ASSUME NEW from, NEW to, NEW error
  PROVE  Announced(from, to, error) \in SystemEvents \cup {"nothing"}
BY DEF Announced, SystemEvents

\* A transition puts itself above those that are under way; if it changes the state
\* it has everybody still to tell.
LEMMA PushSteps ==
  ASSUME IInv, NEW cause \in Causes, NEW to \in States, NEW error \in BOOLEAN,
         Transition(cause, to, error), UNCHANGED listeners, history'.told = history.told
  PROVE  /\ stack' \in Seq(Frame)
         /\ Len(stack) \in Nat
         /\ Len(stack') = Len(stack) + 1
         /\ \A i \in 1..Len(stack) : stack'[i] = stack[i]
         /\ stack'[Len(stack')].cause = cause
         /\ connectionState' = to
         /\ EverybodyIsTold'
<1> DEFINE rest == [cause |-> cause, loop |-> "rest", running |-> None, todo |-> <<>>]
           event == Announced(connectionState, to, error)
<1>1. /\ stack \in Seq(Frame)
      /\ Len(stack) \in Nat
      /\ listeners \in [Slots -> Seq(Listeners)]
      /\ connectionState \in States
  BY TypesUnfolded DEF IInv, TypeOK
<1>2. <<>> \in Seq(Listeners)
  OBVIOUS
<1>3. rest \in Frame /\ rest.cause = cause
  BY <1>2 DEF Frame, Causes
<1>4. \E frame \in Frame :
        /\ stack' = Append(stack, frame)
        /\ frame.cause = cause
        /\ connectionState' = to
        /\ frame.loop \in {"report", "system"} \/ UNCHANGED connectionState
  <2>1. CASE connectionState = to /\ ~error
    BY <1>3, <2>1 DEF Transition
  <2>2. CASE ~(connectionState = to /\ ~error) /\ event = "connection_failed"
    <3> DEFINE frame == [rest EXCEPT !.loop = "report", !.running = OnError]
    <3>1. stack' = Append(stack, frame) /\ connectionState' = to
      BY <2>2 DEF Transition
    <3>2. frame \in Frame /\ frame.cause = cause /\ frame.loop = "report"
      BY <1>3 DEF Frame
    <3>3. QED
      BY <3>1, <3>2
  <2>3. CASE ~(connectionState = to /\ ~error) /\ event # "connection_failed"
    <3> DEFINE frame == Announce(rest, event)
    <3>1. stack' = Append(stack, frame) /\ connectionState' = to
      BY <2>3 DEF Transition
    <3>2. event = "nothing" \/ listeners[event] \in Seq(Listeners)
      BY <1>1, AnnouncedIsAnEvent DEF Slots
    <3>3. frame \in Frame /\ frame.cause = cause /\ frame.loop = "system"
      BY <1>2, <1>3, <3>2 DEF Announce, Frame
    <3> HIDE DEF frame
    <3>4. QED
      BY <3>1, <3>3
  <2>4. QED
    BY <2>1, <2>2, <2>3
<1>5. PICK frame \in Frame :
        /\ stack' = Append(stack, frame)
        /\ frame.cause = cause
        /\ connectionState' = to
        /\ frame.loop \in {"report", "system"} \/ UNCHANGED connectionState
  BY <1>4
<1>6. /\ stack' \in Seq(Frame)
      /\ Len(stack') = Len(stack) + 1
      /\ \A i \in 1..Len(stack) : stack'[i] = stack[i]
      /\ stack'[Len(stack')] = frame
  BY <1>1, <1>5
<1>7. EverybodyIsTold'
  <2>1. CASE frame.loop \in {"report", "system"}
    <3>1. \A f : WillTell(stack'[Len(stack')], f)
      BY <1>6, <2>1 DEF WillTell
    <3>2. Len(stack') \in 1..Len(stack')
      BY <1>1, <1>6
    <3>3. QED
      BY <3>1, <3>2 DEF EverybodyIsTold, WillTell
  <2>2. CASE UNCHANGED connectionState
    BY <1>1, <1>6, <2>2 DEF IInv, EverybodyIsTold, WillTell
  <2>3. QED
    BY <1>5, <2>1, <2>2
<1>8. QED
  BY <1>1, <1>5, <1>6, <1>7

\* A notification is a transition as long as the transport is bound.
LEMMA NotifySteps ==
  ASSUME IInv, NEW status, NEW error \in BOOLEAN, Notify(status, error),
         history'.told = history.told
  PROVE  /\ stack' \in Seq(Frame)
         /\ Len(stack) \in Nat
         /\ Len(stack') \in {Len(stack), Len(stack) + 1}
         /\ \A i \in 1..Len(stack) : stack'[i] = stack[i]
         /\ binding.bound =>
              /\ Len(stack') = Len(stack) + 1
              /\ stack'[Len(stack')].cause = status
              /\ connectionState' = status
         /\ ~binding.bound => stack' = stack /\ connectionState' = connectionState
         /\ connectionState' \in States
         /\ status \in Statuses
         /\ notifications' \in 0..MaxNotifications
         /\ UNCHANGED <<listeners, shouldResubscribe, subscribed, isDestroyed, binding>>
         /\ ~Pending({"destroy"}) => ~Pending({"destroy"})'
         /\ \A causes : Pending(causes) => Pending(causes)'
         /\ EverybodyIsTold'
<1>1. /\ status \in Statuses
      /\ status \in Causes
      /\ status \in States
      /\ status # "destroy"
      /\ notifications' \in 0..MaxNotifications
      /\ UNCHANGED <<listeners, shouldResubscribe, subscribed, isDestroyed, binding>>
  BY StatusesAssumption, BoundsAssumption DEF Notify, Causes, States, IInv, TypeOK
<1>2. CASE binding.bound
  <2>1. Transition(status, status, error)
    BY <1>2 DEF Notify
  <2>2. /\ stack' \in Seq(Frame)
        /\ Len(stack) \in Nat
        /\ Len(stack') = Len(stack) + 1
        /\ \A i \in 1..Len(stack) : stack'[i] = stack[i]
        /\ stack'[Len(stack')].cause = status
        /\ connectionState' = status
        /\ EverybodyIsTold'
    BY <1>1, <2>1, PushSteps
  <2>3. /\ ~Pending({"destroy"}) => ~Pending({"destroy"})'
        /\ \A causes : Pending(causes) => Pending(causes)'
    BY <1>1, <2>2 DEF Pending
  <2>4. QED
    BY <1>1, <1>2, <2>2, <2>3
<1>3. CASE ~binding.bound
  <2>1. UNCHANGED <<stack, connectionState>>
    BY <1>3 DEF Notify
  <2>2. /\ ~Pending({"destroy"}) => ~Pending({"destroy"})'
        /\ \A causes : Pending(causes) => Pending(causes)'
    BY <2>1 DEF Pending
  <2>3. EverybodyIsTold'
    BY <1>1, <2>1 DEF IInv, EverybodyIsTold, WillTell
  <2>4. QED
    BY <1>1, <1>3, <2>1, <2>2, <2>3, TypesUnfolded DEF IInv, TypeOK
<1>4. QED
  BY <1>2, <1>3

\* The socket connects, with no transition below.
LEMMA ConnectInv ==
  ASSUME IInv, Connect
  PROVE  IInv'
<1>1. /\ Notify("connected", FALSE)
      /\ stack = <<>>
      /\ ~up
      /\ up' = TRUE
      /\ history' = history
  BY DEF Connect
<1>2. TypeOK'
  BY <1>1, NotifySteps DEF IInv, TypeOK
<1>3. ConnectedIsBelow'
  <2>1. Len(stack) = 0
    BY <1>1
  <2>2. Len(stack') \in {Len(stack), Len(stack) + 1}
    BY <1>1, NotifySteps
  <2>3. QED
    BY <2>1, <2>2 DEF ConnectedIsBelow
<1>4. OwedIsPending'
  <2>1. ~isDestroyed => Len(stack') = 1 /\ stack'[1].cause = "connected"
    <3>1. binding.bound => /\ Len(stack') = Len(stack) + 1
                           /\ stack'[Len(stack')].cause = "connected"
      BY <1>1, NotifySteps
    <3>2. Len(stack) = 0
      BY <1>1
    <3>3. QED
      BY <3>1, <3>2 DEF IInv, BoundUntilDestroyed
  <2>2. Pending({"disconnected", "reconnecting"}) => Pending({"disconnected", "reconnecting"})'
    BY <1>1, NotifySteps
  <2>3. UNCHANGED <<shouldResubscribe, subscribed, isDestroyed, history>>
    BY <1>1, NotifySteps
  <2>4. QED
    BY <2>1, <2>2, <2>3 DEF IInv, OwedIsPending
<1>5. BoundUntilDestroyed'
  BY <1>1, NotifySteps DEF IInv, BoundUntilDestroyed
<1>6. DestructionIsPending'
  <2>1. ~Pending({"destroy"})
    BY <1>1 DEF Pending
  <2>2. QED
    BY <1>1, <2>1, NotifySteps DEF IInv, DestructionIsPending
<1>7. QED
  BY <1>1, <1>2, <1>3, <1>4, <1>5, <1>6, NotifySteps DEF IInv

\* The connection is lost, possibly inside a transition.
LEMMA DisconnectInv ==
  ASSUME IInv, Disconnect
  PROVE  IInv'
<1>1. /\ Notify("disconnected", FALSE)
      /\ up' = FALSE
      /\ history' = [history EXCEPT !.owed = @ \/ subscribed]
  BY DEF Disconnect
<1>2. /\ history' \in [told : [Listeners -> States], owed : BOOLEAN]
      /\ history'.told = history.told
      /\ history'.owed <=> history.owed \/ subscribed
  BY <1>1 DEF IInv, TypeOK
<1>3. TypeOK'
  BY <1>1, <1>2, NotifySteps DEF IInv, TypeOK
<1>4. ConnectedIsBelow'
  <2>1. CASE binding.bound
    <3>1. /\ Len(stack) \in Nat
          /\ Len(stack') = Len(stack) + 1
          /\ \A i \in 1..Len(stack) : stack'[i] = stack[i]
          /\ stack'[Len(stack')].cause = "disconnected"
      BY <1>1, <1>2, <2>1, NotifySteps
    <3>2. QED
      BY <3>1 DEF IInv, ConnectedIsBelow
  <2>2. CASE ~binding.bound
    <3>1. stack' = stack
      BY <1>1, <1>2, <2>2, NotifySteps
    <3>2. QED
      BY <3>1 DEF IInv, ConnectedIsBelow
  <2>3. QED
    BY <2>1, <2>2
<1>5. OwedIsPending'
  <2>1. ~isDestroyed => /\ Len(stack') \in Nat \ {0}
                       /\ stack'[Len(stack')].cause = "disconnected"
    <3>1. binding.bound => /\ Len(stack') = Len(stack) + 1
                           /\ stack'[Len(stack')].cause = "disconnected"
      BY <1>1, <1>2, NotifySteps
    <3>2. Len(stack) \in Nat
      BY <1>1, <1>2, NotifySteps
    <3>3. QED
      BY <3>1, <3>2 DEF IInv, BoundUntilDestroyed
  <2>2. ~isDestroyed => Pending({"disconnected", "reconnecting"})'
    BY <2>1 DEF Pending
  <2>3. UNCHANGED <<shouldResubscribe, subscribed, isDestroyed>>
    BY <1>1, <1>2, NotifySteps
  <2>4. history.owed /\ ~isDestroyed => subscribed
    BY DEF IInv, OwedIsPending
  <2>5. QED
    BY <1>1, <1>2, <2>2, <2>3, <2>4 DEF OwedIsPending
<1>6. BoundUntilDestroyed'
  BY <1>1, <1>2, NotifySteps DEF IInv, BoundUntilDestroyed
<1>7. DestructionIsPending'
  <2>1. /\ connectionState' \in {"disconnected", connectionState}
        /\ UNCHANGED <<isDestroyed, binding>>
        /\ Pending({"destroy"}) => Pending({"destroy"})'
    BY <1>1, <1>2, NotifySteps DEF IInv, TypeOK
  <2>2. QED
    BY <2>1 DEF IInv, DestructionIsPending
<1>8. QED
  BY <1>1, <1>2, <1>3, <1>4, <1>5, <1>6, <1>7, NotifySteps DEF IInv

\* An attempt begins or fails while the socket is down.
LEMMA AttemptInv ==
  ASSUME IInv, Attempt
  PROVE  IInv'
<1>1. /\ stack = <<>>
      /\ ~up
      /\ UNCHANGED <<up, history>>
  BY DEF Attempt
<1>2. PICK status \in {"connecting", "reconnecting", "failed"}, error \in BOOLEAN :
        Notify(status, error)
  BY DEF Attempt
<1>3. TypeOK'
  BY <1>1, <1>2, NotifySteps DEF IInv, TypeOK
<1>4. ConnectedIsBelow'
  <2>1. Len(stack) = 0
    BY <1>1
  <2>2. Len(stack') \in {Len(stack), Len(stack) + 1}
    BY <1>1, <1>2, NotifySteps
  <2>3. QED
    BY <2>1, <2>2 DEF ConnectedIsBelow
<1>5. OwedIsPending'
  <2>1. Pending({"disconnected", "reconnecting"}) => Pending({"disconnected", "reconnecting"})'
    BY <1>1, <1>2, NotifySteps
  <2>2. UNCHANGED <<shouldResubscribe, subscribed, isDestroyed, history>>
    BY <1>1, <1>2, NotifySteps
  <2>3. QED
    BY <1>1, <2>1, <2>2 DEF IInv, OwedIsPending
<1>6. BoundUntilDestroyed'
  BY <1>1, <1>2, NotifySteps DEF IInv, BoundUntilDestroyed
<1>7. DestructionIsPending'
  <2>1. ~Pending({"destroy"})
    BY <1>1 DEF Pending
  <2>2. QED
    BY <1>1, <1>2, <2>1, NotifySteps DEF IInv, DestructionIsPending
<1>8. QED
  BY <1>1, <1>2, <1>3, <1>4, <1>5, <1>6, <1>7, NotifySteps DEF IInv

(***************************************************************************)
(* Calls of user code.                                                     *)
(***************************************************************************)

\* destroy() begins with its own transition.
LEMMA DestroyInv ==
  ASSUME IInv, Destroy
  PROVE  IInv'
<1>1. /\ Transition("destroy", "disconnected", FALSE)
      /\ ~isDestroyed
      /\ isDestroyed' = TRUE
      /\ UNCHANGED <<listeners, shouldResubscribe, subscribed, history>>
      /\ UNCHANGED <<up, binding, notifications>>
  BY DEF Destroy, transport
<1>2. /\ stack' \in Seq(Frame)
      /\ Len(stack) \in Nat
      /\ Len(stack') = Len(stack) + 1
      /\ \A i \in 1..Len(stack) : stack'[i] = stack[i]
      /\ stack'[Len(stack')].cause = "destroy"
      /\ connectionState' = "disconnected"
      /\ EverybodyIsTold'
  BY <1>1, PushSteps DEF Causes, States
<1>3. TypeOK'
  BY <1>1, <1>2 DEF IInv, TypeOK, States
<1>4. ConnectedIsBelow'
  BY <1>2 DEF IInv, ConnectedIsBelow
<1>5. OwedIsPending' /\ BoundUntilDestroyed'
  BY <1>1 DEF OwedIsPending, BoundUntilDestroyed
<1>6. DestructionIsPending'
  <2>1. Pending({"destroy"})'
    BY <1>2 DEF Pending
  <2>2. QED
    BY <1>2, <2>1 DEF DestructionIsPending
<1>7. QED
  BY <1>2, <1>3, <1>4, <1>5, <1>6 DEF IInv

\* Steps that leave stack and state of the connection alone.
LEMMA StackKept ==
  ASSUME IInv, UNCHANGED <<stack, connectionState>>,
         \A f \in ToSet(listeners'["state"]) :
           history'.told[f] # connectionState =>
             f \in ToSet(listeners["state"]) /\ history.told[f] # connectionState
  PROVE  EverybodyIsTold' /\ ConnectedIsBelow' /\ \A causes : Pending(causes)' <=> Pending(causes)
BY DEF IInv, EverybodyIsTold, ConnectedIsBelow, Pending, WillTell

\* DestroyThrows destroys by name and leaves everything else.
LEMMA DestroyThrowsInv ==
  ASSUME IInv, DestroyThrows
  PROVE  IInv'
<1>1. /\ isDestroyed' = TRUE
      /\ binding' = [binding EXCEPT !.threw = TRUE]
      /\ UNCHANGED <<connectionState, listeners, shouldResubscribe, subscribed, stack,
                     up, notifications, history>>
  BY DEF DestroyThrows
<1>2. /\ binding' \in [bound : BOOLEAN, unbinds : BOOLEAN, threw : BOOLEAN]
      /\ binding'.threw
  BY <1>1 DEF IInv, TypeOK
<1>3. TypeOK'
  BY <1>1, <1>2 DEF IInv, TypeOK
<1>4. EverybodyIsTold' /\ ConnectedIsBelow'
  BY <1>1, StackKept
<1>5. OwedIsPending' /\ BoundUntilDestroyed' /\ DestructionIsPending'
  BY <1>1, <1>2 DEF OwedIsPending, BoundUntilDestroyed, DestructionIsPending
<1>6. QED
  BY <1>3, <1>4, <1>5 DEF IInv

\* A listener that is added knows the state: it is what its owner can read.
LEMMA RegisterInv ==
  ASSUME IInv, NEW slot \in Slots, NEW f \in Listeners, Register(slot, f)
  PROVE  IInv'
<1>1. /\ listeners' = [listeners EXCEPT ![slot] = Append(@, f)]
      /\ history' = IF slot = "state" THEN [history EXCEPT !.told[f] = connectionState] ELSE history
      /\ UNCHANGED <<connectionState, shouldResubscribe, subscribed, isDestroyed, stack>>
      /\ UNCHANGED <<up, binding, notifications>>
  BY DEF Register, transport
<1>2. /\ listeners \in [Slots -> Seq(Listeners)]
      /\ history \in [told : [Listeners -> States], owed : BOOLEAN]
      /\ connectionState \in States
  BY DEF IInv, TypeOK
<1>3. /\ listeners' \in [Slots -> Seq(Listeners)]
      /\ slot = "state" => listeners'["state"] = Append(listeners["state"], f)
      /\ slot # "state" => listeners'["state"] = listeners["state"]
  BY <1>1, <1>2 DEF Slots
<1>4. /\ history' \in [told : [Listeners -> States], owed : BOOLEAN]
      /\ history'.owed = history.owed
      /\ slot = "state" => history'.told[f] = connectionState
      /\ \A g \in Listeners \ {f} : history'.told[g] = history.told[g]
      /\ slot # "state" => history' = history
  BY <1>1, <1>2
<1>5. ASSUME NEW g \in ToSet(listeners'["state"]), history'.told[g] # connectionState
      PROVE  g \in ToSet(listeners["state"]) /\ history.told[g] # connectionState
  <2>1. g \in Listeners
    BY <1>3 DEF ToSet, Slots
  <2>2. CASE slot = "state"
    <3>1. g # f
      BY <1>4, <1>5, <2>2
    <3>2. \A h \in ToSet(Append(listeners["state"], f)) : h = f \/ h \in ToSet(listeners["state"])
      <4>1. listeners["state"] \in Seq(Listeners)
        BY <1>2 DEF Slots
      <4>2. QED
        BY <4>1 DEF ToSet
    <3>3. QED
      BY <1>3, <1>4, <1>5, <2>1, <2>2, <3>1, <3>2
  <2>3. CASE slot # "state"
    BY <1>3, <1>4, <1>5, <2>3
  <2>4. QED
    BY <2>2, <2>3
<1>6. TypeOK'
  BY <1>1, <1>3, <1>4 DEF IInv, TypeOK
<1>7. QED
  BY <1>1, <1>4, <1>5, <1>6, StackKept
  DEF IInv, OwedIsPending, BoundUntilDestroyed, DestructionIsPending

\* A listener that is removed need not be told.
LEMMA CleanupInv ==
  ASSUME IInv, NEW slot \in Slots, NEW f \in Listeners, Cleanup(slot, f)
  PROVE  IInv'
<1>1. /\ listeners' = [listeners EXCEPT ![slot] = RemoveFirst(@, f)]
      /\ UNCHANGED <<connectionState, shouldResubscribe, subscribed, isDestroyed, stack, history>>
      /\ UNCHANGED <<up, binding, notifications>>
  BY DEF Cleanup, transport
<1>2. listeners \in [Slots -> Seq(Listeners)]
  BY DEF IInv, TypeOK
<1>3. /\ RemoveFirst(listeners[slot], f) \in Seq(Listeners)
      /\ ToSet(RemoveFirst(listeners[slot], f)) \subseteq ToSet(listeners[slot])
  BY <1>2, Removal
<1>4. /\ listeners' \in [Slots -> Seq(Listeners)]
      /\ ToSet(listeners'["state"]) \subseteq ToSet(listeners["state"])
  BY <1>1, <1>2, <1>3 DEF Slots
<1>5. TypeOK'
  BY <1>1, <1>4 DEF IInv, TypeOK
<1>6. QED
  BY <1>1, <1>4, <1>5, StackKept
  DEF IInv, OwedIsPending, BoundUntilDestroyed, DestructionIsPending

\* An operation that settles leaves nothing owed.
LEMMA ChangeSubscriptionInv ==
  ASSUME IInv, ChangeSubscription
  PROVE  IInv'
<1>1. /\ subscribed' = ~subscribed
      /\ history' = [history EXCEPT !.owed = FALSE]
      /\ UNCHANGED <<connectionState, listeners, shouldResubscribe, isDestroyed, stack>>
      /\ UNCHANGED <<up, binding, notifications>>
  BY DEF ChangeSubscription, transport
<1>2. /\ history' \in [told : [Listeners -> States], owed : BOOLEAN]
      /\ history'.told = history.told
      /\ ~history'.owed
  BY <1>1 DEF IInv, TypeOK
<1>3. TypeOK'
  BY <1>1, <1>2 DEF IInv, TypeOK
<1>4. QED
  BY <1>1, <1>2, <1>3, StackKept
  DEF IInv, OwedIsPending, BoundUntilDestroyed, DestructionIsPending

\* A step of something else changes nothing here.
LEMMA StutterInv ==
  ASSUME IInv, UNCHANGED vars
  PROVE  IInv'
<1>1. UNCHANGED <<connectionState, listeners, shouldResubscribe, subscribed, isDestroyed,
                  stack, up, binding, notifications, history>>
  BY DEF vars, runtime, transport
<1>2. TypeOK'
  BY <1>1 DEF IInv, TypeOK
<1>3. QED
  BY <1>1, <1>2, StackKept
  DEF IInv, OwedIsPending, BoundUntilDestroyed, DestructionIsPending

\* Every step keeps the invariant.
LEMMA NextInv ==
  ASSUME IInv, [Next]_vars
  PROVE  IInv'
BY CallNextInv, LoopInv, RememberLossInv, ResubscribeInv, ReceiverDoneInv, DestroyRestInv,
   ConnectInv, DisconnectInv, AttemptInv, DestroyInv, DestroyThrowsInv, RegisterInv,
   CleanupInv, ChangeSubscriptionInv, StutterInv DEF Next

\* The inductive invariant: each promise to listeners and subscriptions is kept
\* already, or by a transition that is under way.
THEOREM Inductive == Spec => []IInv
<1>1. QED
  BY InitInv, NextInv, PTL DEF Spec

\* Every variable keeps its type, however deep transitions nest.
THEOREM TypeCorrect == Spec => []TypeOK
<1>1. IInv => TypeOK
  BY DEF IInv
<1>2. QED
  BY <1>1, Inductive, PTL

\* onConnectionState: once no transition is under way, every listener has last been
\* told what connectionState() says, though transitions nest and overlap.
THEOREM ListenersCurrent == Spec => []ListenersAreCurrent
<1>1. IInv => ListenersAreCurrent
  BY DEF IInv, EverybodyIsTold, ListenersAreCurrent
<1>2. QED
  BY <1>1, Inductive, PTL

\* createTransportConnectionReceiver: a subscription that a loss has cost is scheduled
\* again by the time the connection is up and its transition over.
THEOREM NothingForgotten == Spec => []NoSubscriptionForgotten
<1>1. IInv => NoSubscriptionForgotten
  <2> SUFFICES ASSUME IInv, stack = <<>>, up, ~isDestroyed
               PROVE  ~history.owed
    BY DEF NoSubscriptionForgotten
  <2>1. Len(stack) = 0
    OBVIOUS
  <2>2. QED
    BY <2>1 DEF IInv, OwedIsPending
<1>2. QED
  BY <1>1, Inductive, PTL

\* destroy() is final: a transport that can be unbound and did not throw out of it
\* never makes the runtime look connected again.
THEOREM StaysDestroyed == Spec => []DestroyedIsDisconnected
<1>1. IInv => DestroyedIsDisconnected
  BY DEF IInv, DestructionIsPending, DestroyedIsDisconnected
<1>2. QED
  BY <1>1, Inductive, PTL
===============================================================================
