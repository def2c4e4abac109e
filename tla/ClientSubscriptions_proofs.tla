---------------------- MODULE ClientSubscriptions_proofs ----------------------
(***************************************************************************)
(* Proofs about ClientSubscriptions: IInv and AgreementInv are inductive,  *)
(* and with them, for any keys, any number of calls and sessions and any   *)
(* faults,                                                                 *)
(*   TypeCorrect   the variables keep their types;                         *)
(*   Serialization operations on one key run one at a time, in order;      *)
(*   Destroyed     a destroyed runtime holds no subscription;              *)
(*   Agreement     at rest, client and server agree on every membership.   *)
(*                                                                         *)
(* Keys do not interact, so both arguments are about the operations q of   *)
(* one key: an operation moves on, one is added, an undo is added, or only *)
(* requests change.                                                        *)
(***************************************************************************)
EXTENDS ClientSubscriptions, TLAPS

\* What a sequence of operations is made of.
LEMMA OpsUnfolded ==
  ASSUME NEW q \in Seq(Op)
  PROVE  /\ Len(q) \in Nat
         /\ DOMAIN q = 1..Len(q)
         /\ \A n \in DOMAIN q : /\ q[n] \in Op
                                /\ q[n].kind \in Kind
                                /\ q[n].prev \in Nat
                                /\ q[n].stage \in Stage
<1>1. /\ Len(q) \in Nat
      /\ DOMAIN q = 1..Len(q)
      /\ \A n \in DOMAIN q : q[n] \in Op
  OBVIOUS
<1>2. \A o \in Op : o.kind \in Kind /\ o.prev \in Nat /\ o.stage \in Stage
  BY DEF Op
<1>3. QED
  BY <1>1, <1>2

(***************************************************************************)
(* The order of the operations of one key.                                 *)
(***************************************************************************)

\* When the predecessor of a queued operation has settled, so has everything before.
LEMMA TurnHasCome ==
  ASSUME NEW q \in Seq(Op), NEW chain, NEW destroyed, Orderly(q, chain, destroyed),
         NEW n \in DOMAIN q, q[n].stage = "queued", q[q[n].prev].stage = "done"
  PROVE  \A i \in DOMAIN q : i < n => q[i].stage = "done"
<1>1. /\ DOMAIN q = 1..Len(q)
      /\ Len(q) \in Nat
      /\ n > 1
      /\ q[n].prev = n - 1
      /\ q[n].kind # "undo"
  BY OpsUnfolded DEF Orderly, WaitsForPrevious, UndosAreDetached
<1>2. n - 1 \in DOMAIN q /\ q[n - 1].stage = "done"
  BY <1>1
<1>3. \A i \in DOMAIN q : i < n => q[i].kind # "undo"
  BY <1>1 DEF Orderly, UndosAreDetached
<1>4. \A i \in DOMAIN q : i < n - 1 => q[i].stage = "done"
  BY <1>1, <1>2, <1>3 DEF Orderly, InOrder
<1>5. QED
  BY <1>1, <1>2, <1>4

\* An operation that runs has everything before it settled.
LEMMA OthersAreDone ==
  ASSUME NEW q \in Seq(Op), NEW chain, NEW destroyed, Orderly(q, chain, destroyed),
         NEW n \in DOMAIN q, q[n].kind # "undo", q[n].stage # "queued"
  PROVE  \A i \in DOMAIN q : i < n => q[i].stage = "done"
<1>1. DOMAIN q = 1..Len(q) /\ Len(q) \in Nat
  BY OpsUnfolded
<1>2. \A i \in DOMAIN q : i < n => q[i].kind # "undo"
  BY <1>1 DEF Orderly, UndosAreDetached
<1>3. QED
  BY <1>1, <1>2 DEF Orderly, InOrder

\* An operation moves on, the chain entry with it.
LEMMA MoveKeepsOrder ==
  ASSUME NEW q \in Seq(Op), NEW chain, NEW destroyed, Orderly(q, chain, destroyed),
         NEW n \in DOMAIN q, q[n].kind # "undo",
         NEW r \in Seq(Op), Len(r) = Len(q),
         \A i \in DOMAIN q : i # n => r[i] = q[i],
         r[n].kind = q[n].kind, r[n].prev = q[n].prev,
         r[n].stage \notin {"queued", "detached"},
         q[n].stage = "done" => r[n].stage = "done",
         \A i \in DOMAIN q : i < n => q[i].stage = "done",
         NEW next, next = IF r[n].stage = "done" THEN ChainAfter(chain, n) ELSE chain
  PROVE  Orderly(r, next, destroyed)
<1>1. /\ DOMAIN q = 1..Len(q)
      /\ DOMAIN r = DOMAIN q
      /\ Len(q) \in Nat
  BY OpsUnfolded
<1>2. \A i \in DOMAIN q : r[i].kind = q[i].kind
  BY <1>1
<1>3. InOrder(r)
  <2>1. \A i \in DOMAIN q : q[i].stage = "done" => r[i].stage = "done"
    BY <1>1
  <2>2. SUFFICES ASSUME NEW i \in DOMAIN q, NEW j \in DOMAIN q, i < j,
                        q[i].kind # "undo", q[j].kind # "undo", r[j].stage # "queued"
                 PROVE  q[i].stage = "done"
    BY <1>1, <1>2, <2>1 DEF InOrder
  <2>3. CASE j = n
    BY <2>2, <2>3
  <2>4. CASE j # n
    BY <1>1, <2>2, <2>4 DEF Orderly, InOrder
  <2>5. QED
    BY <2>3, <2>4
<1>4. WaitsForPrevious(r)
  BY <1>1 DEF Orderly, WaitsForPrevious
<1>5. UndosAreDetached(r)
  BY <1>1, <1>2 DEF Orderly, UndosAreDetached
<1>6. ChainIsLast(r, next, destroyed)
  <2>1. CASE destroyed
    BY <2>1 DEF Orderly, ChainIsLast, ChainAfter
  <2>2. CASE ~destroyed /\ chain = 0
    BY <1>1, <1>2, <2>2 DEF Orderly, ChainIsLast, ChainAfter
  <2>3. CASE ~destroyed /\ chain # 0 /\ chain = n /\ r[n].stage = "done"
    <3>1. n = Len(q)
      BY <2>3 DEF Orderly, ChainIsLast
    <3>2. \A i \in DOMAIN q : r[i].stage = "done"
      BY <1>1, <2>3, <3>1
    <3>3. QED
      BY <1>1, <1>2, <2>3, <3>2 DEF Orderly, ChainIsLast, ChainAfter
  <2>4. CASE ~destroyed /\ chain # 0 /\ (chain # n \/ r[n].stage # "done")
    BY <1>1, <1>2, <2>4 DEF Orderly, ChainIsLast, ChainAfter
  <2>5. QED
    BY <2>1, <2>2, <2>3, <2>4
<1>7. QED
  BY <1>3, <1>4, <1>5, <1>6 DEF Orderly

\* Only requests change, and undos nobody waits for end with them.
LEMMA RequestsKeepOrder ==
  ASSUME NEW q \in Seq(Op), NEW chain, NEW destroyed, Orderly(q, chain, destroyed),
         NEW r \in Seq(Op), Len(r) = Len(q),
         \A i \in DOMAIN q :
           /\ r[i].kind = q[i].kind
           /\ r[i].prev = q[i].prev
           /\ r[i].stage = q[i].stage \/ (q[i].stage = "detached" /\ r[i].stage = "done")
  PROVE  Orderly(r, chain, destroyed)
<1>1. /\ DOMAIN q = 1..Len(q)
      /\ DOMAIN r = DOMAIN q
      /\ Len(q) \in Nat
  BY OpsUnfolded
<1>2. InOrder(r)
  BY <1>1 DEF Orderly, InOrder
<1>3. WaitsForPrevious(r)
  BY <1>1 DEF Orderly, WaitsForPrevious
<1>4. UndosAreDetached(r)
  BY <1>1 DEF Orderly, UndosAreDetached
<1>5. ChainIsLast(r, chain, destroyed)
  BY <1>1 DEF Orderly, ChainIsLast, UndosAreDetached
<1>6. QED
  BY <1>2, <1>3, <1>4, <1>5 DEF Orderly

\* enqueueChannelOperation: the new operation begins when nothing is chained, and
\* waits for the last one otherwise.
LEMMA EnqueueKeepsOrder ==
  ASSUME NEW q \in Seq(Op), NEW chain, Orderly(q, chain, FALSE),
         NEW o \in Op, o.kind # "undo", o.prev = chain,
         IF chain = 0 THEN o.stage \in {"awaiting", "done"} ELSE o.stage = "queued"
  PROVE  Orderly(Append(q, o), ChainWith(Append(q, o)), FALSE)
<1> DEFINE r == Append(q, o)
<1>1. /\ Len(q) \in Nat
      /\ DOMAIN q = 1..Len(q)
      /\ r \in Seq(Op)
      /\ Len(r) = Len(q) + 1
      /\ DOMAIN r = 1..(Len(q) + 1)
      /\ \A i \in DOMAIN q : r[i] = q[i]
      /\ r[Len(q) + 1] = o
  BY OpsUnfolded
<1> HIDE DEF r
<1>2. \A i \in DOMAIN r : i \in DOMAIN q \/ i = Len(q) + 1
  BY <1>1
<1>3. InOrder(r)
  <2>1. CASE chain = 0
    <3>1. \A i \in DOMAIN q : q[i].stage = "done"
      BY <2>1 DEF Orderly, ChainIsLast
    <3>2. QED
      BY <1>1, <1>2, <3>1 DEF InOrder
  <2>2. CASE chain # 0
    BY <1>1, <1>2, <2>2 DEF Orderly, InOrder
  <2>3. QED
    BY <2>1, <2>2
<1>4. WaitsForPrevious(r)
  <2>1. CASE chain = 0
    BY <1>1, <1>2, <2>1 DEF Orderly, WaitsForPrevious
  <2>2. CASE chain # 0
    <3>1. chain = Len(q) /\ chain \in DOMAIN q
      <4>1. chain = Len(q)
        BY <2>2 DEF Orderly, ChainIsLast
      <4>2. QED
        BY <1>1, <2>2, <4>1
    <3>2. QED
      BY <1>1, <1>2, <2>2, <3>1 DEF Orderly, WaitsForPrevious
  <2>3. QED
    BY <2>1, <2>2
<1>5. \A i \in DOMAIN r : r[i].kind # "undo"
  BY <1>1, <1>2 DEF Orderly, ChainIsLast
<1>6. UndosAreDetached(r)
  <2>1. o.stage # "detached"
    OBVIOUS
  <2>2. QED
    BY <1>1, <1>2, <1>5, <2>1 DEF Orderly, UndosAreDetached
<1>7. ChainIsLast(r, ChainWith(r), FALSE)
  <2>1. CASE o.stage = "done"
    <3>1. chain = 0
      BY <2>1
    <3>2. \A i \in DOMAIN q : q[i].stage = "done"
      BY <3>1 DEF Orderly, ChainIsLast
    <3>3. ChainWith(r) = 0
      BY <1>1, <2>1 DEF ChainWith
    <3>4. QED
      BY <1>1, <1>2, <1>5, <2>1, <3>2, <3>3 DEF ChainIsLast
  <2>2. CASE o.stage # "done"
    BY <1>1, <1>5, <2>2 DEF ChainIsLast, ChainWith
  <2>3. QED
    BY <2>1, <2>2
<1>8. QED
  BY <1>3, <1>4, <1>6, <1>7 DEF Orderly, r

\* An undo comes last, once the runtime is destroyed.
LEMMA UndoKeepsOrder ==
  ASSUME NEW q \in Seq(Op), Orderly(q, 0, TRUE),
         NEW o \in Op, o.kind = "undo", o.stage = "detached"
  PROVE  Orderly(Append(q, o), 0, TRUE)
<1> DEFINE r == Append(q, o)
<1>1. /\ Len(q) \in Nat
      /\ DOMAIN q = 1..Len(q)
      /\ DOMAIN r = 1..(Len(q) + 1)
      /\ \A i \in DOMAIN q : r[i] = q[i]
      /\ r[Len(q) + 1] = o
  BY OpsUnfolded
<1> HIDE DEF r
<1>2. \A i \in DOMAIN r : i \in DOMAIN q \/ i = Len(q) + 1
  BY <1>1
<1>3. InOrder(r)
  BY <1>1, <1>2 DEF Orderly, InOrder
<1>4. WaitsForPrevious(r)
  BY <1>1, <1>2 DEF Orderly, WaitsForPrevious
<1>5. UndosAreDetached(r)
  BY <1>1, <1>2 DEF Orderly, UndosAreDetached
<1>6. ChainIsLast(r, 0, TRUE)
  BY DEF ChainIsLast
<1>7. QED
  BY <1>3, <1>4, <1>5, <1>6 DEF Orderly, r

\* destroy() forgets the chain.
LEMMA DestroyKeepsOrder ==
  ASSUME NEW q, NEW chain, Orderly(q, chain, FALSE)
  PROVE  Orderly(q, 0, TRUE)
BY DEF Orderly, ChainIsLast

(***************************************************************************)
(* Steps of one operation.                                                 *)
(***************************************************************************)

\* Another record in the place of operation n of key k.
LEMMA OpReplaced ==
  ASSUME TypeOK, NEW k \in Keys, NEW n \in DOMAIN ops[k], NEW o \in Op,
         ops' = [ops EXCEPT ![k] = [ops[k] EXCEPT ![n] = o]]
  PROVE  /\ ops' \in [Keys -> Seq(Op)]
         /\ \A j \in Keys : j # k => ops'[j] = ops[j]
         /\ Len(ops'[k]) = Len(ops[k])
         /\ \A i \in DOMAIN ops[k] : i # n => ops'[k][i] = ops[k][i]
         /\ ops'[k][n] = o
<1>1. ops \in [Keys -> Seq(Op)]
  BY DEF TypeOK
<1>2. ops[k] \in Seq(Op)
  BY <1>1
<1>3. /\ [ops[k] EXCEPT ![n] = o] \in Seq(Op)
      /\ Len([ops[k] EXCEPT ![n] = o]) = Len(ops[k])
  BY <1>2
<1>4. ops'[k] = [ops[k] EXCEPT ![n] = o]
  BY <1>1
<1>5. QED
  BY <1>1, <1>2, <1>3, <1>4

\* An operation that is on turn begins, fails or succeeds: its key stays in order.
LEMMA MoveSteps ==
  ASSUME IInv, NEW k \in Keys, NEW n \in DOMAIN ops[k], ops[k][n].kind # "undo",
         \/ ops[k][n].stage # "queued"
         \/ ops[k][ops[k][n].prev].stage = "done",
         NEW o \in Op, o.kind = ops[k][n].kind, o.prev = ops[k][n].prev,
         o.stage \notin {"queued", "detached"},
         ops[k][n].stage = "done" => o.stage = "done",
         ops' = [ops EXCEPT ![k] = [ops[k] EXCEPT ![n] = o]],
         channelOperationChains' =
           IF o.stage = "done" THEN [channelOperationChains EXCEPT ![k] = ChainAfter(@, n)]
           ELSE channelOperationChains,
         UNCHANGED isDestroyed
  PROVE  /\ ops' \in [Keys -> Seq(Op)]
         /\ channelOperationChains' \in [Keys -> Nat]
         /\ \A j \in Keys : Orderly(ops'[j], channelOperationChains'[j], isDestroyed')
<1> DEFINE chain == channelOperationChains[k]
<1>1. /\ ops \in [Keys -> Seq(Op)]
      /\ channelOperationChains \in [Keys -> Nat]
      /\ \A j \in Keys : Orderly(ops[j], channelOperationChains[j], isDestroyed)
  BY DEF IInv, TypeOK
<1>2. /\ ops' \in [Keys -> Seq(Op)]
      /\ \A j \in Keys : j # k => ops'[j] = ops[j]
      /\ Len(ops'[k]) = Len(ops[k])
      /\ \A i \in DOMAIN ops[k] : i # n => ops'[k][i] = ops[k][i]
      /\ ops'[k][n] = o
  BY OpReplaced DEF IInv
<1>3. /\ channelOperationChains' \in [Keys -> Nat]
      /\ \A j \in Keys : j # k => channelOperationChains'[j] = channelOperationChains[j]
      /\ channelOperationChains'[k] = IF o.stage = "done" THEN ChainAfter(chain, n) ELSE chain
  BY <1>1 DEF ChainAfter
<1>4. \A i \in DOMAIN ops[k] : i < n => ops[k][i].stage = "done"
  BY <1>1, TurnHasCome, OthersAreDone
<1>5. ops[k] \in Seq(Op) /\ ops'[k] \in Seq(Op) /\ Orderly(ops[k], chain, isDestroyed)
  BY <1>1, <1>2
<1> HIDE DEF chain
<1>6. Orderly(ops'[k], channelOperationChains'[k], isDestroyed)
  <2>1. ASSUME NEW q \in Seq(Op), q = ops[k],
               NEW r \in Seq(Op), r = ops'[k],
               NEW next, next = channelOperationChains'[k]
        PROVE  Orderly(r, next, isDestroyed)
    <3>1. next = IF r[n].stage = "done" THEN ChainAfter(chain, n) ELSE chain
      BY <1>2, <1>3, <2>1
    <3>2. /\ n \in DOMAIN q
          /\ q[n].kind # "undo"
          /\ r[n].kind = q[n].kind
          /\ r[n].prev = q[n].prev
          /\ r[n].stage \notin {"queued", "detached"}
          /\ q[n].stage = "done" => r[n].stage = "done"
      BY <1>2, <2>1
    <3>3. /\ Len(r) = Len(q)
          /\ \A i \in DOMAIN q : i # n => r[i] = q[i]
          /\ \A i \in DOMAIN q : i < n => q[i].stage = "done"
          /\ Orderly(q, chain, isDestroyed)
      BY <1>2, <1>4, <1>5, <2>1
    <3>4. QED
      BY <3>1, <3>2, <3>3, MoveKeepsOrder
  <2>2. QED
    BY <1>5, <2>1
<1>7. QED
  BY <1>1, <1>2, <1>3, <1>6 DEF chain

\* A request changes, or an undo nobody waits for ends: its key stays in order.
LEMMA RequestSteps ==
  ASSUME IInv, NEW k \in Keys, NEW n \in DOMAIN ops[k],
         NEW o \in Op, o.kind = ops[k][n].kind, o.prev = ops[k][n].prev,
         o.stage = ops[k][n].stage \/ (ops[k][n].stage = "detached" /\ o.stage = "done"),
         ops' = [ops EXCEPT ![k] = [ops[k] EXCEPT ![n] = o]],
         UNCHANGED <<channelOperationChains, isDestroyed>>
  PROVE  /\ ops' \in [Keys -> Seq(Op)]
         /\ channelOperationChains' \in [Keys -> Nat]
         /\ \A j \in Keys : Orderly(ops'[j], channelOperationChains'[j], isDestroyed')
<1>1. /\ ops \in [Keys -> Seq(Op)]
      /\ channelOperationChains \in [Keys -> Nat]
      /\ \A j \in Keys : Orderly(ops[j], channelOperationChains[j], isDestroyed)
  BY DEF IInv, TypeOK
<1>2. /\ ops' \in [Keys -> Seq(Op)]
      /\ \A j \in Keys : j # k => ops'[j] = ops[j]
      /\ Len(ops'[k]) = Len(ops[k])
      /\ \A i \in DOMAIN ops[k] : i # n => ops'[k][i] = ops[k][i]
      /\ ops'[k][n] = o
  BY OpReplaced DEF IInv
<1>3. /\ ops[k] \in Seq(Op)
      /\ ops'[k] \in Seq(Op)
      /\ Orderly(ops[k], channelOperationChains[k], isDestroyed)
      /\ \A i \in DOMAIN ops[k] :
           /\ ops'[k][i].kind = ops[k][i].kind
           /\ ops'[k][i].prev = ops[k][i].prev
           /\ \/ ops'[k][i].stage = ops[k][i].stage
              \/ ops[k][i].stage = "detached" /\ ops'[k][i].stage = "done"
  BY <1>1, <1>2
<1>4. Orderly(ops'[k], channelOperationChains[k], isDestroyed)
  BY <1>2, <1>3, RequestsKeepOrder
<1>5. QED
  BY <1>1, <1>2, <1>4

\* The parts of the types that the steps of operations change.
LEMMA TypeSteps ==
  ASSUME IInv,
         ops' \in [Keys -> Seq(Op)], channelOperationChains' \in [Keys -> Nat],
         \A j \in Keys : Orderly(ops'[j], channelOperationChains'[j], isDestroyed'),
         \/ UNCHANGED channelSubscriptions
         \/ \E k \in Keys : channelSubscriptions' = [channelSubscriptions EXCEPT ![k] = 0]
         \/ /\ ~isDestroyed
            /\ \E k \in Keys, n \in Nat :
                 channelSubscriptions' = [channelSubscriptions EXCEPT ![k] = n],
         member' \in [Keys -> BOOLEAN],
         strayed' \in SUBSET (Keys \X {"giveUp", "reorder", "leave", "verdict"}),
         attached' \in BOOLEAN,
         UNCHANGED <<connection, isDestroyed>>
  PROVE  IInv'
<1>1. TypeOK'
  <2>1. channelSubscriptions' \in [Keys -> Nat]
    <3>1. channelSubscriptions \in [Keys -> Nat]
      BY DEF IInv, TypeOK
    <3>2. CASE \E k \in Keys, n \in Nat :
                 channelSubscriptions' = [channelSubscriptions EXCEPT ![k] = n]
      BY <3>1, <3>2
    <3>3. CASE UNCHANGED channelSubscriptions
      BY <3>1, <3>3
    <3>4. QED
      BY <3>2, <3>3
  <2>2. UNCHANGED <<shouldResubscribe, online, session, isDestroyed>>
    BY DEF connection
  <2>3. QED
    BY <2>1, <2>2 DEF IInv, TypeOK
<1>2. NoSubscriptionAfterDestroy'
  BY DEF IInv, TypeOK, NoSubscriptionAfterDestroy
<1>3. QED
  BY <1>1, <1>2 DEF IInv
\* An operation whose turn has come ends or awaits the transport.
LEMMA BegunFacts ==
  ASSUME NEW o \in Op, NEW sub \in Nat, NEW up \in BOOLEAN, NEW aborted \in BOOLEAN
  PROVE  /\ Begun(o, sub, up, aborted) \in Op
         /\ Begun(o, sub, up, aborted).kind = o.kind
         /\ Begun(o, sub, up, aborted).prev = o.prev
         /\ Begun(o, sub, up, aborted).stage \in {"awaiting", "done"}
BY DEF Begun, Emitted, Op, Stage, Wire

\* The operation that undoes a late subscribe is one.
LEMMA UndoFacts ==
  ASSUME NEW up \in BOOLEAN
  PROVE  Undo(up) \in Op /\ Undo(up).kind = "undo" /\ Undo(up).stage = "detached"
BY DEF Undo, NewOp, Emitted, Op, Kind, Stage, Wire

\* A queued operation begins.
LEMMA TakeTurnStep ==
  ASSUME IInv, NEW k \in Keys, NEW n \in DOMAIN ops[k], TakeTurn(k, n)
  PROVE  IInv'
<1>1. PICK aborted \in BOOLEAN :
        ops' = [ops EXCEPT ![k][n] =
                  Begun(ops[k][n], channelSubscriptions[k], online, aborted \/ isDestroyed)]
  BY DEF TakeTurn, MayBeAborted
<1> DEFINE o == Begun(ops[k][n], channelSubscriptions[k], online, aborted \/ isDestroyed)
<1>2. ops[k] \in Seq(Op) /\ ops[k][n] \in Op
  BY OpsUnfolded DEF IInv, TypeOK
<1>3. /\ o \in Op
      /\ o.kind = ops[k][n].kind
      /\ o.prev = ops[k][n].prev
      /\ o.stage \in {"awaiting", "done"}
  <2>1. channelSubscriptions[k] \in Nat /\ online \in BOOLEAN /\ (aborted \/ isDestroyed) \in BOOLEAN
    BY DEF IInv, TypeOK
  <2>2. QED
    BY <1>2, <2>1, BegunFacts
<1>4. ops' = [ops EXCEPT ![k] = [ops[k] EXCEPT ![n] = o]]
  BY <1>1, <1>2 DEF IInv, TypeOK
<1> HIDE DEF o
<1>5. ops'[k][n] = o
  BY <1>3, <1>4, OpReplaced DEF IInv
<1>6. ops[k][n].kind # "undo" /\ ops[k][n].stage = "queued" /\ ops[k][ops[k][n].prev].stage = "done"
  BY DEF TakeTurn, IInv, Orderly, UndosAreDetached
<1>7. channelOperationChains' =
        IF o.stage = "done" THEN [channelOperationChains EXCEPT ![k] = ChainAfter(@, n)]
        ELSE channelOperationChains
  BY <1>5 DEF TakeTurn
<1>8. UNCHANGED <<channelSubscriptions, connection, isDestroyed, member, attached, strayed>>
  BY DEF TakeTurn, server
<1>9. /\ ops' \in [Keys -> Seq(Op)]
      /\ channelOperationChains' \in [Keys -> Nat]
      /\ \A j \in Keys : Orderly(ops'[j], channelOperationChains'[j], isDestroyed')
  BY <1>3, <1>4, <1>6, <1>7, <1>8, MoveSteps
<1>10. QED
  BY <1>8, <1>9, TypeSteps DEF IInv, TypeOK

\* An operation that awaits the transport fails: what is left of the subscription
\* is what was there or nothing.
LEMMA FailStep ==
  ASSUME IInv, NEW k \in Keys, NEW n \in DOMAIN ops[k], NEW wire \in Wire,
         ops[k][n].stage = "awaiting", Fail(k, n, wire),
         strayed' \in SUBSET (Keys \X {"giveUp", "reorder", "leave", "verdict"}),
         UNCHANGED <<connection, isDestroyed, member, attached>>
  PROVE  IInv'
<1>1. TypeOK /\ ops[k] \in Seq(Op) /\ ops[k][n] \in Op /\ ops[k][n].kind # "undo"
  BY OpsUnfolded DEF IInv, TypeOK, Orderly, UndosAreDetached
<1>2. PICK a \in {"announcing", "done"} :
        /\ ops' = [ops EXCEPT ![k][n].stage = a, ![k][n].wire = wire]
        /\ channelOperationChains' =
             IF a = "done" THEN [channelOperationChains EXCEPT ![k] = ChainAfter(@, n)]
             ELSE channelOperationChains
  BY DEF Fail
<1> DEFINE o == [ops[k][n] EXCEPT !.stage = a, !.wire = wire]
<1>3. o \in Op /\ o.kind = ops[k][n].kind /\ o.prev = ops[k][n].prev /\ o.stage = a
  BY <1>1 DEF Op, Stage
<1>4. ops' = [ops EXCEPT ![k] = [ops[k] EXCEPT ![n] = o]]
  BY <1>1, <1>2 DEF TypeOK
<1> HIDE DEF o
<1>5. /\ ops' \in [Keys -> Seq(Op)]
      /\ channelOperationChains' \in [Keys -> Nat]
      /\ \A j \in Keys : Orderly(ops'[j], channelOperationChains'[j], isDestroyed')
  BY <1>1, <1>2, <1>3, <1>4, MoveSteps
<1>6. \/ UNCHANGED channelSubscriptions
      \/ channelSubscriptions' = [channelSubscriptions EXCEPT ![k] = 0]
  BY <1>1 DEF Fail, KeptOnFailure, TypeOK
<1>7. QED
  BY <1>1, <1>5, <1>6, TypeSteps DEF TypeOK

\* A timer, a signal or a negative answer ends what an operation awaits.
LEMMA FailingSteps ==
  ASSUME IInv, NEW k \in Keys, NEW n \in DOMAIN ops[k],
         TimeOut(k, n) \/ Abort(k, n) \/ ReceiveDenial(k, n)
  PROVE  IInv'
<1>1. ops[k][n].wire \in Wire /\ "closed" \in Wire /\ strayed' \in SUBSET (Keys \X {"giveUp", "reorder", "leave", "verdict"})
  <2>1. ops[k][n] \in Op /\ "closed" \in Wire
    BY OpsUnfolded DEF IInv, TypeOK, Wire
  <2>2. QED
    BY <2>1 DEF IInv, TypeOK, Op, TimeOut, Abort, ReceiveDenial, GiveUp, server
<1>2. CASE GiveUp(k, n)
  BY <1>1, <1>2, FailStep DEF GiveUp
<1>3. CASE ReceiveDenial(k, n)
  BY <1>1, <1>3, FailStep DEF ReceiveDenial, server
<1>4. QED
  BY <1>2, <1>3 DEF TimeOut, Abort

\* The announcement of a failed resubscription ends.
LEMMA EndAnnouncementStep ==
  ASSUME IInv, NEW k \in Keys, NEW n \in DOMAIN ops[k], EndAnnouncement(k, n)
  PROVE  IInv'
<1>1. TypeOK /\ ops[k][n].kind # "undo"
  BY DEF IInv, Orderly, UndosAreDetached, EndAnnouncement
<1> DEFINE o == [ops[k][n] EXCEPT !.stage = "done"]
<1>2. o \in Op /\ o.kind = ops[k][n].kind /\ o.prev = ops[k][n].prev /\ o.stage = "done"
  <2>1. ops[k][n] \in Op
    BY <1>1, OpsUnfolded DEF TypeOK
  <2>2. QED
    BY <2>1 DEF Op, Stage
<1>3. ops' = [ops EXCEPT ![k] = [ops[k] EXCEPT ![n] = o]]
  BY <1>1 DEF TypeOK, EndAnnouncement
<1> HIDE DEF o
<1>4. UNCHANGED <<channelSubscriptions, connection, isDestroyed, member, attached, strayed>>
  BY DEF EndAnnouncement, server
<1>5. /\ ops' \in [Keys -> Seq(Op)]
      /\ channelOperationChains' \in [Keys -> Nat]
      /\ \A j \in Keys : Orderly(ops'[j], channelOperationChains'[j], isDestroyed')
  BY <1>1, <1>2, <1>3, <1>4, MoveSteps DEF EndAnnouncement
<1>6. QED
  BY <1>1, <1>4, <1>5, TypeSteps DEF TypeOK
\* A positive answer ends a subscribe of a live runtime, or another operation.
LEMMA GrantStep ==
  ASSUME IInv, NEW k \in Keys, NEW n \in DOMAIN ops[k], ReceiveGrant(k, n),
         ~(isDestroyed /\ ops[k][n].kind = "subscribe")
  PROVE  IInv'
<1> DEFINE o == [ops[k][n] EXCEPT !.stage = "done", !.wire = "closed"]
<1>1. /\ TypeOK /\ ops[k] \in Seq(Op) /\ ops[k][n] \in Op /\ n \in Nat
      /\ ops[k][n].stage = "awaiting" /\ ops[k][n].kind # "undo"
  <2>1. TypeOK /\ ops[k] \in Seq(Op)
    BY DEF IInv, TypeOK
  <2>2. ops[k][n] \in Op /\ n \in Nat
    BY <2>1, OpsUnfolded
  <2>3. ops[k][n].stage = "awaiting" /\ ops[k][n].kind # "undo"
    BY DEF IInv, Orderly, UndosAreDetached, ReceiveGrant
  <2>4. QED
    BY <2>1, <2>2, <2>3
<1>2. o \in Op /\ o.kind = ops[k][n].kind /\ o.prev = ops[k][n].prev /\ o.stage = "done"
  BY <1>1 DEF Op, Stage, Wire
<1>3. ops' = [ops EXCEPT ![k] = [ops[k] EXCEPT ![n] = o]]
  BY <1>1 DEF TypeOK, ReceiveGrant, SubscribeSucceeds, OtherSucceeds
<1> HIDE DEF o
<1>4. UNCHANGED <<connection, isDestroyed, member, attached, strayed>>
  BY DEF ReceiveGrant, server
<1>5. channelOperationChains' = [channelOperationChains EXCEPT ![k] = ChainAfter(@, n)]
  BY DEF ReceiveGrant
<1>6. /\ ops' \in [Keys -> Seq(Op)]
      /\ channelOperationChains' \in [Keys -> Nat]
      /\ \A j \in Keys : Orderly(ops'[j], channelOperationChains'[j], isDestroyed')
  BY <1>1, <1>2, <1>3, <1>4, <1>5, MoveSteps
<1>7. \/ UNCHANGED channelSubscriptions
      \/ channelSubscriptions' = [channelSubscriptions EXCEPT ![k] = 0]
      \/ ~isDestroyed /\ channelSubscriptions' = [channelSubscriptions EXCEPT ![k] = n]
  BY DEF ReceiveGrant, SubscribeSucceeds, OtherSucceeds
<1>8. QED
  BY <1>1, <1>4, <1>6, <1>7, TypeSteps DEF TypeOK

\* A positive answer to a subscribe reaches a destroyed runtime, which leaves again.
LEMMA LateGrantStep ==
  ASSUME IInv, NEW k \in Keys, NEW n \in DOMAIN ops[k], ReceiveGrant(k, n),
         isDestroyed, ops[k][n].kind = "subscribe"
  PROVE  IInv'
<1> DEFINE settled == [ops[k] EXCEPT ![n].stage = "done", ![n].wire = "closed"]
<1>1. /\ TypeOK /\ ops \in [Keys -> Seq(Op)] /\ ops[k] \in Seq(Op) /\ ops[k][n] \in Op
      /\ ops[k][n].stage = "awaiting" /\ ops[k][n].kind # "undo"
      /\ Orderly(ops[k], 0, TRUE) /\ channelOperationChains[k] = 0
  BY OpsUnfolded DEF IInv, TypeOK, Orderly, UndosAreDetached, ChainIsLast, ReceiveGrant
<1>2. /\ settled \in Seq(Op)
      /\ Len(settled) = Len(ops[k])
      /\ \A i \in DOMAIN ops[k] : i # n => settled[i] = ops[k][i]
      /\ settled[n].kind = ops[k][n].kind /\ settled[n].prev = ops[k][n].prev
      /\ settled[n].stage = "done"
  <2> DEFINE o == [ops[k][n] EXCEPT !.stage = "done", !.wire = "closed"]
  <2>1. o \in Op /\ o.kind = ops[k][n].kind /\ o.prev = ops[k][n].prev /\ o.stage = "done"
    BY <1>1 DEF Op, Stage, Wire
  <2>2. settled = [ops[k] EXCEPT ![n] = o]
    BY <1>1
  <2> HIDE DEF o, settled
  <2>3. QED
    BY <1>1, <2>1, <2>2
<1>3. ops' = [ops EXCEPT ![k] = Append(settled, Undo(online))]
  BY DEF ReceiveGrant, SubscribeSucceeds
<1> HIDE DEF settled
<1>4. Orderly(settled, 0, TRUE)
  <2>1. \A i \in DOMAIN ops[k] : i < n => ops[k][i].stage = "done"
    BY <1>1, OthersAreDone
  <2>2. ASSUME NEW next, next = 0
        PROVE  Orderly(settled, next, TRUE)
    <3>1. next = IF settled[n].stage = "done" THEN ChainAfter(0, n) ELSE 0
      BY <2>2 DEF ChainAfter
    <3>2. settled[n].stage \notin {"queued", "detached"}
      BY <1>2
    <3>3. QED
      BY <1>1, <1>2, <2>1, <3>1, <3>2, MoveKeepsOrder
  <2>3. QED
    BY <2>2
<1>5. Undo(online) \in Op /\ Undo(online).kind = "undo" /\ Undo(online).stage = "detached"
  BY UndoFacts DEF IInv, TypeOK
<1>6. Orderly(Append(settled, Undo(online)), 0, TRUE)
  BY <1>2, <1>4, <1>5, UndoKeepsOrder
<1>7. /\ ops' \in [Keys -> Seq(Op)]
      /\ \A j \in Keys : j # k => ops'[j] = ops[j]
      /\ ops'[k] = Append(settled, Undo(online))
  <2>1. Append(settled, Undo(online)) \in Seq(Op)
    BY <1>2, <1>5
  <2>2. QED
    BY <1>1, <1>3, <2>1
<1>8. channelOperationChains' = channelOperationChains
  BY <1>1 DEF ReceiveGrant, ChainAfter, TypeOK
<1>9. UNCHANGED <<channelSubscriptions, connection, isDestroyed, member, attached, strayed>>
  BY DEF ReceiveGrant, SubscribeSucceeds, server
<1>10. \A j \in Keys : Orderly(ops'[j], channelOperationChains'[j], isDestroyed')
  BY <1>1, <1>6, <1>7, <1>8, <1>9 DEF IInv
<1>11. QED
  BY <1>1, <1>7, <1>8, <1>9, <1>10, TypeSteps DEF TypeOK

\* A request moves on or is lost, or an answer nobody awaits is dropped.
LEMMA RequestChanges ==
  ASSUME IInv, NEW k \in Keys, NEW n \in DOMAIN ops[k],
         \/ DropAnswer(k, n) \/ Miss(k, n)
         \/ ServerGrants(k, n) \/ ServerDenies(k, n)
  PROVE  IInv'
<1>1. TypeOK /\ ops \in [Keys -> Seq(Op)] /\ ops[k] \in Seq(Op) /\ ops[k][n] \in Op
  BY OpsUnfolded DEF IInv, TypeOK
<1>2. PICK o \in Op :
        /\ o.kind = ops[k][n].kind /\ o.prev = ops[k][n].prev
        /\ o.stage = ops[k][n].stage \/ (ops[k][n].stage = "detached" /\ o.stage = "done")
        /\ ops' = [ops EXCEPT ![k] = [ops[k] EXCEPT ![n] = o]]
  <2>1. CASE DropAnswer(k, n)
    <3> DEFINE o == [ops[k][n] EXCEPT !.stage = "done", !.wire = "closed"]
    <3>1. o \in Op /\ o.kind = ops[k][n].kind /\ o.prev = ops[k][n].prev /\ o.stage = "done"
      BY <1>1 DEF Op, Stage, Wire
    <3>2. ops' = [ops EXCEPT ![k] = [ops[k] EXCEPT ![n] = o]]
      BY <1>1, <2>1 DEF DropAnswer
    <3> HIDE DEF o
    <3>3. QED
      BY <2>1, <3>1, <3>2 DEF DropAnswer
  <2>2. CASE Miss(k, n)
    <3> DEFINE a == IF ops[k][n].stage = "detached" THEN "done" ELSE ops[k][n].stage
               o == [ops[k][n] EXCEPT !.wire = "lost", !.stage = a]
    <3>1. o \in Op /\ o.kind = ops[k][n].kind /\ o.prev = ops[k][n].prev /\ o.stage = a
      BY <1>1 DEF Op, Stage, Wire
    <3>2. ops' = [ops EXCEPT ![k] = [ops[k] EXCEPT ![n] = o]]
      BY <1>1, <2>2 DEF Miss
    <3>3. a = ops[k][n].stage \/ (ops[k][n].stage = "detached" /\ a = "done")
      OBVIOUS
    <3> HIDE DEF o, a
    <3>4. QED
      BY <3>1, <3>2, <3>3
  <2>3. CASE ServerGrants(k, n) \/ ServerDenies(k, n)
    <3>1. PICK wire \in Wire : ops' = [ops EXCEPT ![k][n].wire = wire]
      BY <2>3 DEF ServerGrants, ServerDenies, Answer, Wire
    <3> DEFINE o == [ops[k][n] EXCEPT !.wire = wire]
    <3>2. /\ o \in Op /\ o.kind = ops[k][n].kind /\ o.prev = ops[k][n].prev
          /\ o.stage = ops[k][n].stage
      BY <1>1 DEF Op
    <3>3. ops' = [ops EXCEPT ![k] = [ops[k] EXCEPT ![n] = o]]
      BY <1>1, <3>1
    <3> HIDE DEF o
    <3>4. QED
      BY <3>2, <3>3
  <2>4. QED
    BY <2>1, <2>2, <2>3
<1>3. UNCHANGED <<channelSubscriptions, channelOperationChains, connection, isDestroyed, attached>>
  BY DEF DropAnswer, Miss, ServerGrants, ServerDenies, Answer, server
<1>4. /\ ops' \in [Keys -> Seq(Op)]
      /\ channelOperationChains' \in [Keys -> Nat]
      /\ \A j \in Keys : Orderly(ops'[j], channelOperationChains'[j], isDestroyed')
  BY <1>2, <1>3, RequestSteps
<1>5. /\ member' \in [Keys -> BOOLEAN]
      /\ strayed' \in SUBSET (Keys \X {"giveUp", "reorder", "leave", "verdict"})
  <2>1. CASE DropAnswer(k, n) \/ Miss(k, n)
    BY <1>1, <2>1 DEF DropAnswer, Miss, server, TypeOK
  <2>2. CASE ServerGrants(k, n)
    <3>1. Joins(ops[k][n]) \in BOOLEAN
      BY DEF Joins
    <3>2. member' \in [Keys -> BOOLEAN]
      BY <1>1, <2>2, <3>1 DEF ServerGrants, TypeOK
    <3>3. strayed' \in SUBSET (Keys \X {"giveUp", "reorder", "leave", "verdict"})
      BY <1>1, <2>2 DEF ServerGrants, TypeOK
    <3>4. QED
      BY <3>2, <3>3
  <2>3. CASE ServerDenies(k, n)
    <3>1. member \in [Keys -> BOOLEAN]
      BY <1>1 DEF TypeOK
    <3>2. member' \in [Keys -> BOOLEAN]
      BY <2>3, <3>1 DEF ServerDenies
    <3>3. /\ strayed \in SUBSET (Keys \X {"giveUp", "reorder", "leave", "verdict"})
          /\ strayed' \in {strayed, strayed \cup {<<k, "verdict">>},
                           strayed \cup {<<k, "leave">>}}
      BY <1>1, <2>3 DEF ServerDenies, TypeOK
    <3>4. strayed' \in SUBSET (Keys \X {"giveUp", "reorder", "leave", "verdict"})
      BY <3>3
    <3>5. QED
      BY <3>2, <3>4
  <2>4. QED
    BY <2>1, <2>2, <2>3
<1>6. QED
  BY <1>1, <1>3, <1>4, <1>5, TypeSteps DEF TypeOK
(***************************************************************************)
(* Calls, the connection receiver and destroy.                             *)
(***************************************************************************)

\* An operation added to the chain of a live runtime.
LEMMA EnqueuedFacts ==
  ASSUME IInv, ~isDestroyed, NEW k \in Keys,
         NEW kind \in {"subscribe", "unsubscribe", "resubscribe"}, NEW target \in Nat,
         NEW up \in BOOLEAN, NEW aborted \in BOOLEAN
  PROVE  /\ Enqueued(k, kind, target, up, aborted) \in Seq(Op)
         /\ Len(Enqueued(k, kind, target, up, aborted)) = Len(ops[k]) + 1
         /\ Orderly(Enqueued(k, kind, target, up, aborted),
                    ChainWith(Enqueued(k, kind, target, up, aborted)), FALSE)
<1> DEFINE o == NewOp(kind, target, channelOperationChains[k])
           b == Begun(o, channelSubscriptions[k], up, aborted)
<1>1. /\ ops[k] \in Seq(Op) /\ channelOperationChains[k] \in Nat
      /\ channelSubscriptions[k] \in Nat
      /\ Orderly(ops[k], channelOperationChains[k], FALSE)
  BY DEF IInv, TypeOK
<1>2. /\ o \in Op /\ o.kind = kind /\ o.prev = channelOperationChains[k]
      /\ o.stage = "queued"
  BY <1>1 DEF NewOp, Op, Kind, Stage, Wire
<1>3. b \in Op /\ b.kind = o.kind /\ b.prev = o.prev /\ b.stage \in {"awaiting", "done"}
  <2> HIDE DEF o
  <2>1. ASSUME NEW p \in Op
        PROVE  /\ Begun(p, channelSubscriptions[k], up, aborted) \in Op
               /\ Begun(p, channelSubscriptions[k], up, aborted).kind = p.kind
               /\ Begun(p, channelSubscriptions[k], up, aborted).prev = p.prev
               /\ Begun(p, channelSubscriptions[k], up, aborted).stage \in {"awaiting", "done"}
    BY <1>1, BegunFacts
  <2>2. QED
    BY <1>2, <2>1
<1>4. PICK p \in Op :
        /\ p.kind # "undo" /\ p.prev = channelOperationChains[k]
        /\ IF channelOperationChains[k] = 0 THEN p.stage \in {"awaiting", "done"}
           ELSE p.stage = "queued"
        /\ Enqueued(k, kind, target, up, aborted) = Append(ops[k], p)
  <2>1. Enqueued(k, kind, target, up, aborted) =
          Append(ops[k], IF channelOperationChains[k] = 0 THEN b ELSE o)
    BY <1>2 DEF Enqueued
  <2> HIDE DEF o, b
  <2>2. QED
    BY <1>2, <1>3, <2>1
<1>5. Orderly(Append(ops[k], p), ChainWith(Append(ops[k], p)), FALSE)
  BY <1>1, <1>4, EnqueueKeepsOrder
<1>6. Append(ops[k], p) \in Seq(Op) /\ Len(Append(ops[k], p)) = Len(ops[k]) + 1
  BY <1>1
<1>7. QED
  BY <1>4, <1>5, <1>6

\* The chain entry after an operation was added is the number of an operation.
LEMMA ChainWithType ==
  ASSUME NEW q \in Seq(Op)
  PROVE  ChainWith(q) \in Nat
BY DEF ChainWith

\* subscribeChannel and unsubscribeChannel.
LEMMA CallStep ==
  ASSUME IInv, NEW k \in Keys, NEW kind \in {"subscribe", "unsubscribe"}, Call(k, kind)
  PROVE  IInv'
<1>1. PICK aborted \in BOOLEAN : ops' = [ops EXCEPT ![k] = Enqueued(k, kind, 0, online, aborted)]
  BY DEF Call, MayBeAborted
<1> DEFINE q == Enqueued(k, kind, 0, online, aborted)
<1>2. /\ ops \in [Keys -> Seq(Op)] /\ channelOperationChains \in [Keys -> Nat]
      /\ online \in BOOLEAN /\ ~isDestroyed /\ TypeOK
  BY DEF IInv, TypeOK, Call
<1>3. /\ q \in Seq(Op)
      /\ Orderly(q, ChainWith(q), FALSE)
  BY <1>2, EnqueuedFacts
<1>4. ops' = [ops EXCEPT ![k] = q]
  BY <1>1
<1> HIDE DEF q
<1>5. /\ ops' \in [Keys -> Seq(Op)]
      /\ ops'[k] = q
      /\ \A j \in Keys : j # k => ops'[j] = ops[j]
  BY <1>2, <1>3, <1>4
<1>6. channelOperationChains' = [channelOperationChains EXCEPT ![k] = ChainWith(q)]
  BY <1>5 DEF Call
<1>7. /\ channelOperationChains' \in [Keys -> Nat]
      /\ channelOperationChains'[k] = ChainWith(q)
      /\ \A j \in Keys : j # k => channelOperationChains'[j] = channelOperationChains[j]
  BY <1>2, <1>3, <1>6, ChainWithType
<1>8. UNCHANGED <<channelSubscriptions, connection, isDestroyed, member, attached, strayed>>
  BY DEF Call, server
<1>9. \A j \in Keys : Orderly(ops'[j], channelOperationChains'[j], isDestroyed')
  <2>1. isDestroyed' = FALSE
    BY <1>2, <1>8 DEF TypeOK
  <2>2. isDestroyed = FALSE
    BY <1>2 DEF TypeOK
  <2>3. QED
    BY <1>3, <1>5, <1>7, <2>1, <2>2 DEF IInv
<1>10. QED
  BY <1>2, <1>5, <1>7, <1>8, <1>9, TypeSteps DEF TypeOK

\* What a new session and a lost one do to the operations of a key: requests only.
LEMMA SessionFacts ==
  ASSUME NEW q \in Seq(Op)
  PROVE  /\ AfterFlush(q) \in Seq(Op) /\ AfterLoss(q) \in Seq(Op)
         /\ Len(AfterFlush(q)) = Len(q) /\ Len(AfterLoss(q)) = Len(q)
         /\ \A i \in DOMAIN q :
              /\ AfterFlush(q)[i].kind = q[i].kind
              /\ AfterFlush(q)[i].prev = q[i].prev
              /\ AfterFlush(q)[i].stage = q[i].stage
              /\ AfterLoss(q)[i].kind = q[i].kind
              /\ AfterLoss(q)[i].prev = q[i].prev
              /\ \/ AfterLoss(q)[i].stage = q[i].stage
                 \/ q[i].stage = "detached" /\ AfterLoss(q)[i].stage = "done"
<1>1. DOMAIN q = 1..Len(q) /\ Len(q) \in Nat /\ \A i \in DOMAIN q : q[i] \in Op
  BY OpsUnfolded
<1>2. ASSUME NEW i \in DOMAIN q
      PROVE  /\ AfterFlush(q)[i] \in Op
             /\ AfterFlush(q)[i].kind = q[i].kind
             /\ AfterFlush(q)[i].prev = q[i].prev
             /\ AfterFlush(q)[i].stage = q[i].stage
  BY <1>1 DEF AfterFlush, Op, Wire
<1>3. ASSUME NEW i \in DOMAIN q
      PROVE  /\ AfterLoss(q)[i] \in Op
             /\ AfterLoss(q)[i].kind = q[i].kind
             /\ AfterLoss(q)[i].prev = q[i].prev
             /\ \/ AfterLoss(q)[i].stage = q[i].stage
                \/ q[i].stage = "detached" /\ AfterLoss(q)[i].stage = "done"
  <2>1. q[i] \in Op
    BY <1>1
  <2>2. CASE q[i].wire \in {"sent", "granted", "denied"}
    BY <2>1, <2>2 DEF AfterLoss, Op, Wire, Stage
  <2>3. CASE q[i].wire \notin {"sent", "granted", "denied"}
    BY <2>1, <2>3 DEF AfterLoss
  <2>4. QED
    BY <2>2, <2>3
<1>4. /\ AfterFlush(q) \in [1..Len(q) -> Op]
      /\ AfterLoss(q) \in [1..Len(q) -> Op]
  <2>1. /\ AfterFlush(q) = [i \in 1..Len(q) |-> AfterFlush(q)[i]]
        /\ AfterLoss(q) = [i \in 1..Len(q) |-> AfterLoss(q)[i]]
    BY <1>1 DEF AfterFlush, AfterLoss
  <2>2. \A i \in 1..Len(q) : AfterFlush(q)[i] \in Op /\ AfterLoss(q)[i] \in Op
    BY <1>1, <1>2, <1>3
  <2>3. QED
    BY <2>1, <2>2
<1>5. /\ AfterFlush(q) \in Seq(Op) /\ AfterLoss(q) \in Seq(Op)
      /\ Len(AfterFlush(q)) = Len(q) /\ Len(AfterLoss(q)) = Len(q)
  BY <1>1, <1>4
<1>6. QED
  BY <1>2, <1>3, <1>5
\* The steps that change no operation of their own: the parts of IInv.
LEMMA KeyByKey ==
  ASSUME IInv,
         ops' = [k \in Keys |-> ops'[k]],
         channelOperationChains' = [k \in Keys |-> channelOperationChains'[k]],
         \A k \in Keys : /\ ops'[k] \in Seq(Op)
                         /\ channelOperationChains'[k] \in Nat
                         /\ Orderly(ops'[k], channelOperationChains'[k], isDestroyed'),
         channelSubscriptions' \in [Keys -> Nat],
         member' \in [Keys -> BOOLEAN],
         strayed' \in SUBSET (Keys \X {"giveUp", "reorder", "leave", "verdict"}),
         attached' \in BOOLEAN, online' \in BOOLEAN, shouldResubscribe' \in BOOLEAN,
         session' \in Nat, isDestroyed' \in BOOLEAN,
         NoSubscriptionAfterDestroy'
  PROVE  IInv'
<1>1. ops' \in [Keys -> Seq(Op)] /\ channelOperationChains' \in [Keys -> Nat]
  OBVIOUS
<1>2. TypeOK'
  BY <1>1 DEF TypeOK
<1>3. QED
  BY <1>2 DEF IInv

\* A session starts: what was buffered is sent, stored subscriptions are chained
\* again.
LEMMA ConnectStep ==
  ASSUME IInv, Connect
  PROVE  IInv'
<1> DEFINE Q(k) == IF k \in ToResubscribe
                   THEN Enqueued(k, "resubscribe", channelSubscriptions[k], TRUE, FALSE)
                   ELSE ops[k]
<1>1. /\ ops' = [k \in Keys |-> AfterFlush(Q(k))]
      /\ channelOperationChains' = [k \in Keys |->
           IF k \in ToResubscribe THEN ChainWith(ops'[k]) ELSE channelOperationChains[k]]
  BY DEF Connect
<1>2. isDestroyed' = isDestroyed /\ channelSubscriptions' = channelSubscriptions
  BY DEF Connect
<1>3. ASSUME NEW k \in Keys
      PROVE  /\ ops'[k] \in Seq(Op)
             /\ channelOperationChains'[k] \in Nat
             /\ Orderly(ops'[k], channelOperationChains'[k], isDestroyed')
  <2>1. /\ ops[k] \in Seq(Op) /\ channelOperationChains[k] \in Nat
        /\ channelSubscriptions[k] \in Nat
        /\ Orderly(ops[k], channelOperationChains[k], isDestroyed)
    BY DEF IInv, TypeOK
  <2>2. CASE k \in ToResubscribe
    <3>1. PICK q : q = Enqueued(k, "resubscribe", channelSubscriptions[k], TRUE, FALSE)
      OBVIOUS
    <3>2. ~isDestroyed
      BY <2>2 DEF ToResubscribe
    <3>3. q \in Seq(Op) /\ Len(q) = Len(ops[k]) + 1 /\ Orderly(q, ChainWith(q), FALSE)
      BY <2>1, <3>1, <3>2, EnqueuedFacts
    <3>4. ops'[k] = AfterFlush(q) /\ channelOperationChains'[k] = ChainWith(ops'[k])
      BY <1>1, <2>2, <3>1
    <3>5. /\ ops'[k] \in Seq(Op) /\ Len(ops'[k]) = Len(q)
          /\ \A i \in DOMAIN q : /\ ops'[k][i].kind = q[i].kind
                                 /\ ops'[k][i].prev = q[i].prev
                                 /\ ops'[k][i].stage = q[i].stage
      BY <3>3, <3>4, SessionFacts
    <3>6. ChainWith(ops'[k]) = ChainWith(q)
      <4>1. Len(q) \in DOMAIN q
        BY <2>1, <3>3
      <4>2. QED
        BY <3>5, <4>1 DEF ChainWith
    <3>7. ASSUME NEW r, r = ops'[k], NEW chain, chain = ChainWith(q)
          PROVE  Orderly(r, chain, FALSE)
      BY <3>3, <3>5, <3>7, RequestsKeepOrder
    <3>8. isDestroyed' = FALSE
      BY <1>2, <3>2 DEF IInv, TypeOK
    <3>9. QED
      BY <3>3, <3>4, <3>5, <3>6, <3>7, <3>8, ChainWithType
  <2>3. CASE k \notin ToResubscribe
    <3>1. ops'[k] = AfterFlush(ops[k]) /\ channelOperationChains'[k] = channelOperationChains[k]
      BY <1>1, <2>3
    <3>2. /\ ops'[k] \in Seq(Op) /\ Len(ops'[k]) = Len(ops[k])
          /\ \A i \in DOMAIN ops[k] : /\ ops'[k][i].kind = ops[k][i].kind
                                      /\ ops'[k][i].prev = ops[k][i].prev
                                      /\ ops'[k][i].stage = ops[k][i].stage
      BY <2>1, <3>1, SessionFacts
    <3>3. ASSUME NEW q, q = ops[k], NEW r, r = ops'[k]
          PROVE  Orderly(r, channelOperationChains[k], isDestroyed)
      BY <2>1, <3>2, <3>3, RequestsKeepOrder
    <3>4. QED
      BY <1>2, <2>1, <3>1, <3>2, <3>3
  <2>4. QED
    BY <2>2, <2>3
<1>4. /\ TypeOK
      /\ member' = member /\ strayed' = strayed
      /\ attached' \in BOOLEAN /\ online' \in BOOLEAN /\ shouldResubscribe' \in BOOLEAN
      /\ session' \in Nat
  BY DEF Connect, IInv, TypeOK
<1>5. NoSubscriptionAfterDestroy'
  BY <1>2 DEF IInv, NoSubscriptionAfterDestroy
<1>6. /\ ops' = [k \in Keys |-> ops'[k]]
      /\ channelOperationChains' = [k \in Keys |-> channelOperationChains'[k]]
  BY <1>1
<1>7. QED
  BY <1>2, <1>3, <1>4, <1>5, <1>6, KeyByKey DEF TypeOK

\* A session breaks: what was under way is lost.
LEMMA DisconnectStep ==
  ASSUME IInv, Disconnect
  PROVE  IInv'
<1>1. /\ ops' = [k \in Keys |-> AfterLoss(ops[k])]
      /\ channelOperationChains' = channelOperationChains
      /\ isDestroyed' = isDestroyed
      /\ channelSubscriptions' = channelSubscriptions
  BY DEF Disconnect
<1>2. ASSUME NEW k \in Keys
      PROVE  /\ ops'[k] \in Seq(Op)
             /\ channelOperationChains'[k] \in Nat
             /\ Orderly(ops'[k], channelOperationChains'[k], isDestroyed')
  <2>1. /\ ops[k] \in Seq(Op) /\ channelOperationChains[k] \in Nat
        /\ Orderly(ops[k], channelOperationChains[k], isDestroyed)
    BY DEF IInv, TypeOK
  <2>2. ops'[k] = AfterLoss(ops[k])
    BY <1>1
  <2>3. /\ ops'[k] \in Seq(Op) /\ Len(ops'[k]) = Len(ops[k])
        /\ \A i \in DOMAIN ops[k] :
             /\ ops'[k][i].kind = ops[k][i].kind
             /\ ops'[k][i].prev = ops[k][i].prev
             /\ \/ ops'[k][i].stage = ops[k][i].stage
                \/ ops[k][i].stage = "detached" /\ ops'[k][i].stage = "done"
    BY <2>1, <2>2, SessionFacts
  <2>4. ASSUME NEW q, q = ops[k], NEW r, r = ops'[k]
        PROVE  Orderly(r, channelOperationChains[k], isDestroyed)
    BY <2>1, <2>3, <2>4, RequestsKeepOrder
  <2>5. QED
    BY <1>1, <2>1, <2>3, <2>4
<1>3. /\ TypeOK
      /\ member' \in [Keys -> BOOLEAN] /\ strayed' = {}
      /\ attached' \in BOOLEAN /\ online' \in BOOLEAN /\ shouldResubscribe' \in BOOLEAN
      /\ session' = session
  BY DEF Disconnect, IInv, TypeOK
<1>4. NoSubscriptionAfterDestroy'
  BY <1>1 DEF IInv, NoSubscriptionAfterDestroy
<1>5. /\ ops' = [k \in Keys |-> ops'[k]]
      /\ channelOperationChains' = [k \in Keys |-> channelOperationChains'[k]]
  BY <1>1, <1>3 DEF TypeOK
<1>6. QED
  BY <1>1, <1>2, <1>3, <1>4, <1>5, KeyByKey DEF TypeOK

\* destroy() leaves what is stored and forgets the chains.
LEMMA DestroyStep ==
  ASSUME IInv, Destroy
  PROVE  IInv'
<1>1. /\ ops' = [k \in Keys |-> IF channelSubscriptions[k] = 0 THEN ops[k]
                                ELSE Append(ops[k], Undo(online))]
      /\ channelOperationChains' = [k \in Keys |-> 0]
      /\ channelSubscriptions' = [k \in Keys |-> 0]
      /\ isDestroyed = FALSE /\ isDestroyed' = TRUE
  BY DEF Destroy, IInv, TypeOK
<1>2. ASSUME NEW k \in Keys
      PROVE  /\ ops'[k] \in Seq(Op)
             /\ channelOperationChains'[k] \in Nat
             /\ Orderly(ops'[k], channelOperationChains'[k], isDestroyed')
  <2>1. ops[k] \in Seq(Op) /\ Orderly(ops[k], channelOperationChains[k], FALSE)
    BY <1>1 DEF IInv, TypeOK
  <2>2. Orderly(ops[k], 0, TRUE)
    BY <2>1, DestroyKeepsOrder
  <2>3. Undo(online) \in Op /\ Undo(online).kind = "undo" /\ Undo(online).stage = "detached"
    BY UndoFacts DEF IInv, TypeOK
  <2>4. /\ Append(ops[k], Undo(online)) \in Seq(Op)
        /\ Orderly(Append(ops[k], Undo(online)), 0, TRUE)
    <3>1. ASSUME NEW q \in Seq(Op), q = ops[k], NEW o \in Op, o = Undo(online)
          PROVE  Append(q, o) \in Seq(Op) /\ Orderly(Append(q, o), 0, TRUE)
      <4>1. Orderly(q, 0, TRUE) /\ o.kind = "undo" /\ o.stage = "detached"
        BY <2>2, <2>3, <3>1
      <4>2. Orderly(Append(q, o), 0, TRUE)
        BY <4>1, UndoKeepsOrder
      <4>3. Append(q, o) \in Seq(Op)
        OBVIOUS
      <4>4. QED
        BY <4>2, <4>3, Zenon
    <3>2. QED
      BY <2>1, <2>3, <3>1
  <2>5. QED
    BY <1>1, <2>1, <2>2, <2>4
<1>3. /\ TypeOK
      /\ UNCHANGED <<shouldResubscribe, online, session, member, attached, strayed>>
  BY DEF Destroy, IInv, connection, server
<1>4. NoSubscriptionAfterDestroy'
  BY <1>1 DEF NoSubscriptionAfterDestroy
<1>5. channelSubscriptions' \in [Keys -> Nat]
  BY <1>1
<1>6. /\ ops' = [k \in Keys |-> ops'[k]]
      /\ channelOperationChains' = [k \in Keys |-> channelOperationChains'[k]]
  BY <1>1
<1>7. QED
  BY <1>1, <1>2, <1>3, <1>4, <1>5, <1>6, KeyByKey DEF TypeOK

(***************************************************************************)
(* The theorems.                                                           *)
(***************************************************************************)

\* No key has an operation at first.
LEMMA InitInv == Init => IInv
<1>1. ASSUME NEW q \in Seq(Op), q = <<>>
      PROVE  Orderly(q, 0, FALSE)
  <2>1. DOMAIN q = {}
    BY <1>1
  <2>2. QED
    BY <2>1 DEF Orderly, InOrder, WaitsForPrevious, UndosAreDetached, ChainIsLast
<1>2. <<>> \in Seq(Op)
  OBVIOUS
<1>3. Orderly(<<>>, 0, FALSE)
  BY <1>1, <1>2
<1>4. QED
  <2> SUFFICES ASSUME Init PROVE IInv
    OBVIOUS
  <2>1. TypeOK
    BY <1>2 DEF Init, TypeOK
  <2>2. ASSUME NEW k \in Keys
        PROVE  Orderly(ops[k], channelOperationChains[k], isDestroyed)
    <3>1. ops[k] = <<>> /\ channelOperationChains[k] = 0 /\ isDestroyed = FALSE
      BY DEF Init
    <3>2. QED
      BY <1>3, <3>1
  <2>3. NoSubscriptionAfterDestroy
    BY DEF Init, NoSubscriptionAfterDestroy
  <2>4. QED
    BY <2>1, <2>2, <2>3 DEF IInv

\* Every step, and every stutter, keeps the invariant.
LEMMA NextInv == IInv /\ [Next]_vars => IInv'
<1> SUFFICES ASSUME IInv, [Next]_vars
             PROVE  IInv'
  OBVIOUS
<1>1. ASSUME NEW k \in Keys, NEW kind \in {"subscribe", "unsubscribe"}, Call(k, kind)
      PROVE  IInv'
  BY <1>1, CallStep
<1>2. ASSUME NEW k \in Keys, NEW n \in DOMAIN ops[k], Step(k, n)
      PROVE  IInv'
  BY <1>2, TakeTurnStep, FailingSteps, EndAnnouncementStep, GrantStep, LateGrantStep,
     RequestChanges DEF Step
<1>3. CASE Connect
  BY <1>3, ConnectStep
<1>4. CASE Disconnect
  BY <1>4, DisconnectStep
<1>5. CASE Destroy
  BY <1>5, DestroyStep
<1>6. CASE ReconnectAttempt \/ Attach
  <2>1. UNCHANGED <<client, online, session, isDestroyed, member, strayed>>
    BY <1>6 DEF ReconnectAttempt, Attach, connection, server
  <2>2. shouldResubscribe' \in BOOLEAN /\ attached' \in BOOLEAN
    BY <1>6 DEF ReconnectAttempt, Attach, connection, server, IInv, TypeOK
  <2>3. TypeOK'
    BY <2>1, <2>2 DEF client, IInv, TypeOK
  <2>4. NoSubscriptionAfterDestroy'
    BY <2>1 DEF client, IInv, NoSubscriptionAfterDestroy
  <2>5. QED
    BY <2>1, <2>3, <2>4 DEF client, IInv
<1>7. CASE UNCHANGED vars
  BY <1>7 DEF vars, client, connection, server, IInv, TypeOK, NoSubscriptionAfterDestroy
<1>8. QED
  BY <1>1, <1>2, <1>3, <1>4, <1>5, <1>6, <1>7 DEF Next

\* The order of the operations of every key holds from the start and forever.
THEOREM Inductive == Spec => []IInv
BY InitInv, NextInv, PTL DEF Spec

\* The variables keep their types: an operation is never in a stage or with a
\* request the runtime has no code for.
THEOREM TypeCorrect == Spec => []TypeOK
<1>1. IInv => TypeOK
  BY DEF IInv
<1>2. QED
  BY <1>1, Inductive, PTL

\* subscribeChannel, unsubscribeChannel and resubscription on one key run one at a
\* time in the order of the calls, for any number of calls, sessions and faults.
THEOREM Serialization == Spec => []Serialized
<1>1. IInv => Serialized
  BY DEF IInv, Orderly, InOrder, Serialized
<1>2. QED
  BY <1>1, Inductive, PTL

\* Whatever answer arrives after destroy(), the runtime holds no subscription.
THEOREM Destroyed == Spec => []NoSubscriptionAfterDestroy
<1>1. IInv => NoSubscriptionAfterDestroy
  BY DEF IInv
<1>2. QED
  BY <1>1, Inductive, PTL

(***************************************************************************)
(* Client, wire and server of one key: KeyHolds survives what happens to   *)
(* its operations q, which become r.                                       *)
(***************************************************************************)

\* Operation n of q moves on, in r.
Moves(q, r, n) ==
  /\ n \in DOMAIN q
  /\ DOMAIN r = DOMAIN q
  /\ \A i \in DOMAIN q \ {n} : r[i] = q[i]
  /\ r[n].kind = q[n].kind
  /\ r[n].target = q[n].target

\* No two operations of a key await their answer.
LEMMA OneAwaits ==
  ASSUME NEW q \in Seq(Op), NEW chain, NEW destroyed, Orderly(q, chain, destroyed),
         NEW i \in DOMAIN q, NEW n \in DOMAIN q,
         q[i].stage = "awaiting", q[n].stage = "awaiting"
  PROVE  i = n
<1>1. DOMAIN q = 1..Len(q) /\ Len(q) \in Nat
  BY OpsUnfolded
<1>2. q[i].kind # "undo" /\ q[n].kind # "undo"
  BY DEF Orderly, UndosAreDetached
<1>3. QED
  BY <1>1, <1>2 DEF Orderly, InOrder

\* An operation whose turn has come, or that is settled with it.
LEMMA BeginHolds ==
  ASSUME NEW q, NEW r, NEW n, Moves(q, r, n),
         NEW sub, NEW joined, NEW destroyed \in BOOLEAN, NEW up \in BOOLEAN, NEW astray,
         KeyHolds(q, sub, joined, destroyed, up, astray),
         destroyed => sub = 0,
         q[n].stage = "queued",
         \/ /\ r[n].stage = "done" /\ r[n].wire = "closed"
            /\ destroyed \/ q[n].kind # "resubscribe" \/ sub # q[n].target
         \/ /\ r[n].stage = "awaiting" /\ r[n].wire = Emitted(up)
            /\ ~destroyed
            /\ q[n].kind = "resubscribe" => sub = q[n].target
  PROVE  KeyHolds(r, sub, joined, destroyed, up, astray)
<1> USE DEF Moves, Emitted
<1>1. RequestsFit(q, up) /\ q[n].wire = "none"
  BY DEF KeyHolds, RequestsFit
<1>2. RequestsFit(r, up)
  BY <1>1 DEF RequestsFit, GivenUp
<1>3. StoredIsRestored(r, sub, destroyed)
  BY <1>1 DEF KeyHolds, StoredIsRestored, RequestsFit
<1>4. ~astray => UndoFollows(r, destroyed)
  <2> SUFFICES ASSUME ~astray, destroyed, NEW m \in DOMAIN r,
                      r[m].kind = "resubscribe", r[m].stage = "awaiting",
                      r[m].wire \in {"buffered", "sent"}
               PROVE  \E u \in DOMAIN r : r[u].kind = "undo" /\ r[u].wire = r[m].wire
    BY DEF UndoFollows
  <2>1. m # n /\ r[m] = q[m]
    OBVIOUS
  <2>2. PICK u \in DOMAIN q : q[u].kind = "undo" /\ q[u].wire = q[m].wire
    BY <2>1 DEF KeyHolds, UndoFollows
  <2>3. u # n
    BY <1>1, <2>1, <2>2
  <2>4. QED
    BY <2>1, <2>2, <2>3
<1>5. up /\ ~astray /\ ~Doomed(r, joined) => Reconciled(r, sub, joined, destroyed)
  <2> SUFFICES ASSUME up, ~astray, ~Doomed(r, joined)
               PROVE  Reconciled(r, sub, joined, destroyed)
    OBVIOUS
  <2>1. ~Doomed(q, joined)
    BY <1>1 DEF Doomed, GivenUp
  <2>2. Reconciled(q, sub, joined, destroyed)
    BY <2>1 DEF KeyHolds
  <2>3. sub = 0 /\ joined => \E i \in DOMAIN r :
          \/ r[i].kind = "subscribe" /\ r[i].stage = "awaiting" /\ r[i].wire = "granted"
          \/ r[i].kind = "undo" /\ r[i].wire = "sent"
    BY <1>1, <2>2 DEF Reconciled
  <2>4. sub # 0 /\ ~joined => \E i \in DOMAIN r :
          \/ r[i].kind = "unsubscribe" /\ r[i].stage = "awaiting" /\ r[i].wire = "granted"
          \/ /\ r[i].kind = "resubscribe" /\ r[i].target = sub
             /\ r[i].stage \in {"queued", "awaiting"}
    BY <1>1, <2>2 DEF Reconciled
  <2>5. QED
    BY <2>2, <2>3, <2>4 DEF Reconciled
<1>6. QED
  BY <1>2, <1>3, <1>4, <1>5 DEF KeyHolds

\* The operation that awaits an answer fails: it is given up, or denied.
LEMMA FailHolds ==
  ASSUME NEW q \in Seq(Op), NEW r, NEW n, Moves(q, r, n),
         NEW sub, NEW joined, NEW destroyed, NEW up \in BOOLEAN, NEW astray, NEW chain,
         KeyHolds(q, sub, joined, destroyed, up, astray), Orderly(q, chain, destroyed),
         q[n].stage = "awaiting", GivenUp(r[n]),
         \/ r[n].wire = q[n].wire /\ ("giveUp" \in Faults \/ q[n].wire = "lost")
         \/ q[n].wire = "denied" /\ r[n].wire = "closed",
         NEW rest, q[n].kind = "resubscribe" => rest = 0,
         q[n].kind # "resubscribe" => rest = sub,
         NEW strays, astray => strays, q[n].wire = "granted" => strays
  PROVE  KeyHolds(r, rest, joined, destroyed, up, strays)
<1> USE DEF Moves
<1>1. /\ RequestsFit(q, up)
      /\ q[n].wire \in {"buffered", "sent", "granted", "denied", "lost"}
  <2>1. RequestsFit(q, up)
    BY DEF KeyHolds
  <2>2. q[n].wire \in Wire
    <3>1. q[n] \in Op
      BY OpsUnfolded
    <3>2. QED
      BY <3>1 DEF Op
  <2>3. QED
    BY <2>1, <2>2 DEF RequestsFit, Wire
<1>2. \A i \in DOMAIN q \ {n} : q[i].stage # "awaiting" /\ r[i].stage # "awaiting"
  BY OneAwaits
<1>3. q[n].kind # "undo"
  BY DEF Orderly, UndosAreDetached
<1>4. RequestsFit(r, up)
  BY <1>1 DEF RequestsFit, GivenUp
<1>5. StoredIsRestored(r, rest, destroyed)
  BY <1>2 DEF StoredIsRestored, GivenUp
<1>6. ~strays => UndoFollows(r, destroyed)
  BY <1>2 DEF UndoFollows, GivenUp
<1>7. up /\ ~strays /\ ~Doomed(r, joined) => Reconciled(r, rest, joined, destroyed)
  <2> SUFFICES ASSUME up, ~strays, ~Doomed(r, joined)
               PROVE  Reconciled(r, rest, joined, destroyed)
    OBVIOUS
  <2>1. ~Doomed(q, joined)
    BY DEF Doomed, GivenUp
  <2>2. Reconciled(q, sub, joined, destroyed) /\ q[n].wire # "granted"
    BY <2>1 DEF KeyHolds
  <2>3. q[n].kind = "resubscribe" => ~joined
    <3>1. q[n].wire # "buffered"
      BY <1>1 DEF RequestsFit
    <3>2. q[n].kind = "resubscribe" /\ q[n].wire = "sent" => ~joined
      BY DEF Doomed, Joins
    <3>3. q[n].kind = "resubscribe" /\ q[n].wire \in {"denied", "lost"} => ~joined
      BY <2>2 DEF Reconciled, Joins
    <3>4. QED
      BY <1>1, <2>2, <3>1, <3>2, <3>3
  <2>4. rest = 0 /\ joined => \E i \in DOMAIN r :
          \/ r[i].kind = "subscribe" /\ r[i].stage = "awaiting" /\ r[i].wire = "granted"
          \/ r[i].kind = "undo" /\ r[i].wire = "sent"
    BY <1>3, <2>2, <2>3 DEF Reconciled
  <2>5. rest # 0 /\ ~joined => \E i \in DOMAIN r :
          \/ r[i].kind = "unsubscribe" /\ r[i].stage = "awaiting" /\ r[i].wire = "granted"
          \/ /\ r[i].kind = "resubscribe" /\ r[i].target = rest
             /\ r[i].stage \in {"queued", "awaiting"}
    BY <2>2 DEF Reconciled
  <2>6. \A i \in DOMAIN r : r[i].stage # "awaiting"
    BY <1>2 DEF GivenUp
  <2>7. QED
    BY <2>4, <2>5, <2>6 DEF Reconciled
<1>8. QED
  BY <1>4, <1>5, <1>6, <1>7 DEF KeyHolds

\* An operation that awaits nothing any more comes to its end: its announcement is
\* over, or its answer is dropped.
LEMMA EndHolds ==
  ASSUME NEW q, NEW r, NEW n, Moves(q, r, n),
         NEW sub, NEW joined, NEW destroyed, NEW up \in BOOLEAN, NEW astray,
         KeyHolds(q, sub, joined, destroyed, up, astray),
         q[n].stage \in {"announcing", "done", "detached"}, r[n].stage = "done",
         \/ r[n].wire = q[n].wire /\ q[n].stage = "announcing"
         \/ r[n].wire = "closed" /\ q[n].wire \in {"granted", "denied"}
  PROVE  KeyHolds(r, sub, joined, destroyed, up, astray)
<1> USE DEF Moves
<1>1. RequestsFit(q, up)
  BY DEF KeyHolds
<1>2. RequestsFit(r, up)
  BY <1>1 DEF RequestsFit, GivenUp
<1>3. StoredIsRestored(r, sub, destroyed)
  BY DEF KeyHolds, StoredIsRestored
<1>4. ~astray => UndoFollows(r, destroyed)
  <2> SUFFICES ASSUME ~astray, destroyed, NEW m \in DOMAIN r,
                      r[m].kind = "resubscribe", r[m].stage = "awaiting",
                      r[m].wire \in {"buffered", "sent"}
               PROVE  \E u \in DOMAIN r : r[u].kind = "undo" /\ r[u].wire = r[m].wire
    BY DEF UndoFollows
  <2>1. m # n /\ r[m] = q[m]
    OBVIOUS
  <2>2. PICK u \in DOMAIN q : q[u].kind = "undo" /\ q[u].wire = q[m].wire
    BY <2>1 DEF KeyHolds, UndoFollows
  <2>3. r[u].kind = "undo" /\ r[u].wire = r[m].wire
    BY <2>1, <2>2
  <2>4. QED
    BY <2>3
<1>5. up /\ ~astray /\ ~Doomed(r, joined) => Reconciled(r, sub, joined, destroyed)
  <2> SUFFICES ASSUME up, ~astray, ~Doomed(r, joined)
               PROVE  Reconciled(r, sub, joined, destroyed)
    OBVIOUS
  <2>1. ~Doomed(q, joined)
    <3>1. ASSUME NEW i \in DOMAIN q, Joins(q[i]), GivenUp(q[i]), q[i].wire = "sent"
          PROVE  Joins(r[i]) /\ GivenUp(r[i]) /\ r[i].wire = "sent"
      BY <3>1 DEF Joins, GivenUp
    <3>2. QED
      BY <3>1 DEF Doomed
  <2>2. Reconciled(q, sub, joined, destroyed)
    BY <2>1 DEF KeyHolds
  <2>3. sub = 0 /\ joined => \E i \in DOMAIN r :
          \/ r[i].kind = "subscribe" /\ r[i].stage = "awaiting" /\ r[i].wire = "granted"
          \/ r[i].kind = "undo" /\ r[i].wire = "sent"
    BY <2>2 DEF Reconciled
  <2>4. sub # 0 /\ ~joined => \E i \in DOMAIN r :
          \/ r[i].kind = "unsubscribe" /\ r[i].stage = "awaiting" /\ r[i].wire = "granted"
          \/ /\ r[i].kind = "resubscribe" /\ r[i].target = sub
             /\ r[i].stage \in {"queued", "awaiting"}
    BY <2>2 DEF Reconciled
  <2>5. QED
    BY <2>2, <2>3, <2>4 DEF Reconciled
<1>6. QED
  BY <1>2, <1>3, <1>4, <1>5 DEF KeyHolds

\* A positive answer settles the operation that awaits it: what it stores or drops
\* is what the server did.
LEMMA GrantHolds ==
  ASSUME NEW q \in Seq(Op), NEW r, NEW n, Moves(q, r, n),
         NEW sub, NEW joined \in BOOLEAN, NEW destroyed \in BOOLEAN, NEW up \in BOOLEAN,
         NEW astray, NEW chain,
         KeyHolds(q, sub, joined, destroyed, up, astray), Orderly(q, chain, destroyed),
         destroyed => sub = 0 /\ q[n].kind # "subscribe",
         q[n].stage = "awaiting", q[n].wire = "granted",
         r[n].stage = "done", r[n].wire = "closed",
         NEW rest,
         q[n].kind = "subscribe" => rest # 0,
         q[n].kind = "unsubscribe" => rest = 0,
         q[n].kind \notin {"subscribe", "unsubscribe"} => rest = sub
  PROVE  KeyHolds(r, rest, joined, destroyed, up, astray)
<1> USE DEF Moves
<1>1. RequestsFit(q, up)
  BY DEF KeyHolds
<1>2. \A i \in DOMAIN q \ {n} : q[i].stage # "awaiting" /\ r[i].stage # "awaiting"
  BY OneAwaits
<1>3. q[n].kind # "undo"
  BY DEF Orderly, UndosAreDetached
<1>4. RequestsFit(r, up)
  BY <1>1 DEF RequestsFit, GivenUp
<1>5. StoredIsRestored(r, rest, destroyed)
  BY <1>2 DEF StoredIsRestored
<1>6. UndoFollows(r, destroyed)
  BY <1>2 DEF UndoFollows
<1>7. up /\ ~astray /\ ~Doomed(r, joined) => Reconciled(r, rest, joined, destroyed)
  <2> SUFFICES ASSUME up, ~astray, ~Doomed(r, joined)
               PROVE  Reconciled(r, rest, joined, destroyed)
    OBVIOUS
  <2>1. ~Doomed(q, joined)
    BY DEF Doomed, GivenUp
  <2>2. Reconciled(q, sub, joined, destroyed)
    BY <2>1 DEF KeyHolds
  <2>3. ~destroyed => joined = Joins(q[n])
    BY <2>2 DEF Reconciled
  <2>4. q[n].kind \in {"subscribe", "unsubscribe", "resubscribe"}
    <3>1. q[n].kind \in Kind
      BY OpsUnfolded
    <3>2. QED
      BY <1>3, <3>1 DEF Kind
  <2>5. rest = 0 /\ joined => \E i \in DOMAIN r :
          \/ r[i].kind = "subscribe" /\ r[i].stage = "awaiting" /\ r[i].wire = "granted"
          \/ r[i].kind = "undo" /\ r[i].wire = "sent"
    <3> SUFFICES ASSUME rest = 0, joined
                 PROVE  \E i \in DOMAIN r :
          \/ r[i].kind = "subscribe" /\ r[i].stage = "awaiting" /\ r[i].wire = "granted"
          \/ r[i].kind = "undo" /\ r[i].wire = "sent"
      OBVIOUS
    <3>1. q[n].kind # "subscribe" /\ sub = 0
      BY <2>3, <2>4 DEF Joins
    <3>2. QED
      BY <1>2, <1>3, <2>2, <3>1 DEF Reconciled
  <2>6. rest # 0 /\ ~joined => \E i \in DOMAIN r :
          \/ r[i].kind = "unsubscribe" /\ r[i].stage = "awaiting" /\ r[i].wire = "granted"
          \/ /\ r[i].kind = "resubscribe" /\ r[i].target = rest
             /\ r[i].stage \in {"queued", "awaiting"}
    BY <2>3, <2>4 DEF Joins
  <2>7. \A i \in DOMAIN r : r[i].stage # "awaiting"
    BY <1>2
  <2>8. QED
    BY <2>5, <2>6, <2>7 DEF Reconciled
<1>8. QED
  BY <1>4, <1>5, <1>6, <1>7 DEF KeyHolds

\* A request is dropped by a server that has no handlers for it yet.
LEMMA MissHolds ==
  ASSUME NEW q \in Seq(Op), NEW r, NEW n, Moves(q, r, n),
         NEW sub, NEW joined, NEW destroyed \in BOOLEAN, NEW up \in BOOLEAN,
         NEW astray, NEW chain,
         KeyHolds(q, sub, joined, destroyed, up, astray), Orderly(q, chain, destroyed),
         ~joined,
         q[n].wire = "sent", \A i \in 1 .. n - 1 : q[i].wire # "sent",
         q[n].stage = "detached" => r[n].stage = "done",
         q[n].stage # "detached" => r[n].stage = q[n].stage,
         r[n].wire = "lost"
  PROVE  KeyHolds(r, sub, joined, destroyed, up, astray)
<1> USE DEF Moves
<1>1. RequestsFit(q, up) /\ up
  BY DEF KeyHolds, RequestsFit
<1>2. RequestsFit(r, up)
  BY <1>1 DEF RequestsFit, GivenUp
<1>3. StoredIsRestored(r, sub, destroyed)
  BY DEF KeyHolds, StoredIsRestored
<1>4. DOMAIN q = 1..Len(q) /\ Len(q) \in Nat
  BY OpsUnfolded
<1>5. ~astray => UndoFollows(r, destroyed)
  <2> SUFFICES ASSUME ~astray, destroyed, NEW m \in DOMAIN r,
                      r[m].kind = "resubscribe", r[m].stage = "awaiting",
                      r[m].wire \in {"buffered", "sent"}
               PROVE  \E u \in DOMAIN r : r[u].kind = "undo" /\ r[u].wire = r[m].wire
    BY DEF UndoFollows
  <2>1. m # n /\ r[m] = q[m] /\ q[m].wire = "sent"
    BY <1>1 DEF RequestsFit
  <2>2. PICK u \in DOMAIN q : q[u].kind = "undo" /\ q[u].wire = q[m].wire
    BY <2>1 DEF KeyHolds, UndoFollows
  <2>3. m < u
    BY <1>4, <2>1, <2>2 DEF Orderly, UndosAreDetached
  <2>4. m >= n
    BY <1>4, <2>1
  <2>5. u # n
    BY <1>4, <2>1, <2>3, <2>4
  <2>6. QED
    BY <2>1, <2>2, <2>5
<1>6. up /\ ~astray /\ ~Doomed(r, joined) => Reconciled(r, sub, joined, destroyed)
  <2> SUFFICES ASSUME up, ~astray
               PROVE  Reconciled(r, sub, joined, destroyed)
    OBVIOUS
  <2>1. Reconciled(q, sub, joined, destroyed)
    BY DEF KeyHolds, Doomed
  <2>2. sub # 0 => \E i \in DOMAIN r :
          \/ r[i].kind = "unsubscribe" /\ r[i].stage = "awaiting" /\ r[i].wire = "granted"
          \/ /\ r[i].kind = "resubscribe" /\ r[i].target = sub
             /\ r[i].stage \in {"queued", "awaiting"}
    <3> SUFFICES ASSUME sub # 0
                 PROVE  \E i \in DOMAIN r :
          \/ r[i].kind = "unsubscribe" /\ r[i].stage = "awaiting" /\ r[i].wire = "granted"
          \/ /\ r[i].kind = "resubscribe" /\ r[i].target = sub
             /\ r[i].stage \in {"queued", "awaiting"}
      OBVIOUS
    <3>1. PICK i \in DOMAIN q :
          \/ q[i].kind = "unsubscribe" /\ q[i].stage = "awaiting" /\ q[i].wire = "granted"
          \/ /\ q[i].kind = "resubscribe" /\ q[i].target = sub
             /\ q[i].stage \in {"queued", "awaiting"}
      BY <2>1 DEF Reconciled
    <3>2. CASE i = n
      BY <3>1, <3>2
    <3>3. CASE i # n
      BY <3>1, <3>3
    <3>4. QED
      BY <3>2, <3>3
  <2>3. \A i \in DOMAIN r : r[i].stage = "awaiting" /\ r[i].wire = "granted" =>
          i \in DOMAIN q /\ r[i] = q[i]
    OBVIOUS
  <2>4. QED
    BY <2>1, <2>2, <2>3 DEF Reconciled
<1>7. QED
  BY <1>2, <1>3, <1>5, <1>6 DEF KeyHolds

\* The server grants a request.  Unless that strays, a session that was doomed still
\* is not: what was given up would have been answered first.
LEMMA ServerGrantsHolds ==
  ASSUME NEW q \in Seq(Op), NEW r, NEW n, Moves(q, r, n),
         NEW sub, NEW joined \in BOOLEAN, NEW destroyed \in BOOLEAN, NEW up \in BOOLEAN,
         NEW astray, NEW chain,
         KeyHolds(q, sub, joined, destroyed, up, astray), Orderly(q, chain, destroyed),
         destroyed => sub = 0,
         q[n].wire = "sent", r[n].stage = q[n].stage, r[n].wire = "granted",
         NEW strays, astray => strays, GivenUp(q[n]) => strays,
         ~strays => \A i \in 1 .. n - 1 : q[i].wire # "sent",
         NEW joins, joins = Joins(q[n])
  PROVE  KeyHolds(r, sub, joins, destroyed, up, strays)
<1> USE DEF Moves
<1>1. RequestsFit(q, up) /\ up
  BY DEF KeyHolds, RequestsFit
<1>2. DOMAIN q = 1..Len(q) /\ Len(q) \in Nat
  BY OpsUnfolded
<1>3. \A i \in DOMAIN q \ {n} : q[n].stage = "awaiting" => r[i].stage # "awaiting"
  BY OneAwaits
<1>4. RequestsFit(r, up)
  BY <1>1 DEF RequestsFit, GivenUp
<1>5. StoredIsRestored(r, sub, destroyed)
  BY DEF KeyHolds, StoredIsRestored
<1>6. ASSUME ~strays
      PROVE  /\ ~Doomed(q, joined)
             /\ q[n].stage = "awaiting" \/ q[n].kind = "undo"
             /\ q[n].stage = "awaiting" => q[n].kind # "undo"
             /\ q[n].kind \in Kind
  <2>1. \A i \in DOMAIN q : i < n => q[i].wire # "sent"
    BY <1>2, <1>6
  <2>2. ASSUME NEW m \in DOMAIN q, Joins(q[m]), GivenUp(q[m]), q[m].wire = "sent"
        PROVE  FALSE
    <3>1. n < m
      BY <1>2, <1>6, <2>1, <2>2
    <3>2. q[m].kind # "undo" /\ q[m].stage # "queued"
      BY <2>2 DEF Joins, GivenUp
    <3>3. q[n].stage = "done"
      BY <3>1, <3>2, OthersAreDone
    <3>4. QED
      BY <1>6, <3>3 DEF GivenUp
  <2>3. q[n].stage \in Stage /\ q[n].kind \in Kind
    BY OpsUnfolded
  <2>4. q[n].stage \in {"awaiting", "detached"}
    BY <1>1, <1>6, <2>3 DEF RequestsFit, GivenUp, Stage
  <2>5. QED
    BY <2>2, <2>3, <2>4 DEF Doomed, Orderly, UndosAreDetached
<1>7. ~strays => UndoFollows(r, destroyed)
  <2> SUFFICES ASSUME ~strays, destroyed, NEW m \in DOMAIN r,
                      r[m].kind = "resubscribe", r[m].stage = "awaiting",
                      r[m].wire \in {"buffered", "sent"}
               PROVE  \E u \in DOMAIN r : r[u].kind = "undo" /\ r[u].wire = r[m].wire
    BY DEF UndoFollows
  <2>1. m # n /\ r[m] = q[m] /\ q[m].wire = "sent"
    BY <1>1 DEF RequestsFit
  <2>2. PICK u \in DOMAIN q : q[u].kind = "undo" /\ q[u].wire = q[m].wire
    BY <2>1 DEF KeyHolds, UndoFollows
  <2>3. m < u
    BY <1>2, <2>1, <2>2 DEF Orderly, UndosAreDetached
  <2>4. m >= n
    BY <1>2, <2>1
  <2>5. u # n
    BY <1>2, <2>1, <2>3, <2>4
  <2>6. QED
    BY <2>1, <2>2, <2>5
<1>8. up /\ ~strays /\ ~Doomed(r, Joins(q[n])) => Reconciled(r, sub, Joins(q[n]), destroyed)
  <2> SUFFICES ASSUME up, ~strays
               PROVE  Reconciled(r, sub, Joins(q[n]), destroyed)
    OBVIOUS
  <2>1. Reconciled(q, sub, joined, destroyed)
    BY <1>6 DEF KeyHolds
  <2>2. q[n].stage = "awaiting" => q[n].kind \in {"subscribe", "unsubscribe", "resubscribe"}
    BY <1>6 DEF Kind
  <2>3. sub = 0 /\ Joins(q[n]) => \E i \in DOMAIN r :
          \/ r[i].kind = "subscribe" /\ r[i].stage = "awaiting" /\ r[i].wire = "granted"
          \/ r[i].kind = "undo" /\ r[i].wire = "sent"
    <3> SUFFICES ASSUME sub = 0, Joins(q[n])
                 PROVE  \E i \in DOMAIN r :
          \/ r[i].kind = "subscribe" /\ r[i].stage = "awaiting" /\ r[i].wire = "granted"
          \/ r[i].kind = "undo" /\ r[i].wire = "sent"
      OBVIOUS
    <3>1. q[n].stage = "awaiting"
      BY <1>6 DEF Joins
    <3>2. CASE q[n].kind = "subscribe"
      BY <3>1, <3>2
    <3>3. CASE q[n].kind = "resubscribe"
      <4>1. destroyed
        BY <3>1, <3>3 DEF KeyHolds, StoredIsRestored
      <4>2. PICK u \in DOMAIN q : q[u].kind = "undo" /\ q[u].wire = "sent"
        BY <3>1, <3>3, <4>1 DEF KeyHolds, UndoFollows
      <4>3. u # n
        BY <3>3, <4>2
      <4>4. QED
        BY <4>2, <4>3
    <3>4. QED
      BY <3>2, <3>3 DEF Joins
  <2>4. sub # 0 /\ ~Joins(q[n]) => \E i \in DOMAIN r :
          \/ r[i].kind = "unsubscribe" /\ r[i].stage = "awaiting" /\ r[i].wire = "granted"
          \/ /\ r[i].kind = "resubscribe" /\ r[i].target = sub
             /\ r[i].stage \in {"queued", "awaiting"}
    <3> SUFFICES ASSUME sub # 0, ~Joins(q[n])
                 PROVE  q[n].kind = "unsubscribe" /\ q[n].stage = "awaiting"
      OBVIOUS
    <3>1. q[n].kind # "undo"
      BY DEF Orderly, ChainIsLast
    <3>2. QED
      BY <1>6, <2>2, <3>1 DEF Joins
  <2>5. \A i \in DOMAIN r : r[i].stage = "awaiting" =>
          /\ r[i].wire = "granted" /\ ~destroyed => Joins(q[n]) = Joins(r[i])
          /\ r[i].wire \in {"denied", "lost"} /\ Joins(r[i]) => ~Joins(q[n])
    <3>1. CASE q[n].stage = "awaiting"
      BY <1>3, <3>1 DEF Joins
    <3>2. CASE q[n].kind = "undo"
      <4>1. destroyed /\ ~Joins(q[n])
        BY <3>2 DEF Orderly, ChainIsLast, Joins
      <4>2. QED
        BY <4>1
    <3>3. QED
      BY <1>6, <3>1, <3>2
  <2>6. QED
    BY <2>3, <2>4, <2>5 DEF Reconciled
<1>9. KeyHolds(r, sub, Joins(q[n]), destroyed, up, strays)
  BY <1>4, <1>5, <1>7, <1>8 DEF KeyHolds
<1>10. QED
  BY <1>9

\* The server denies a request: what does not stray is a join of an absent member.
LEMMA ServerDeniesHolds ==
  ASSUME NEW q \in Seq(Op), NEW r, NEW n, Moves(q, r, n),
         NEW sub, NEW joined \in BOOLEAN, NEW destroyed \in BOOLEAN, NEW up \in BOOLEAN,
         NEW astray, NEW chain,
         KeyHolds(q, sub, joined, destroyed, up, astray), Orderly(q, chain, destroyed),
         q[n].wire = "sent", r[n].stage = q[n].stage, r[n].wire = "denied",
         NEW strays, astray => strays,
         NEW left \in BOOLEAN, ~strays => Joins(q[n]) /\ ~joined /\ ~left
  PROVE  KeyHolds(r, sub, left, destroyed, up, strays)
<1> USE DEF Moves
<1>1. RequestsFit(q, up) /\ up
  BY DEF KeyHolds, RequestsFit
<1>2. RequestsFit(r, up)
  BY <1>1 DEF RequestsFit, GivenUp
<1>3. StoredIsRestored(r, sub, destroyed)
  BY DEF KeyHolds, StoredIsRestored
<1>4. ~strays => UndoFollows(r, destroyed)
  <2> SUFFICES ASSUME ~strays, destroyed, NEW m \in DOMAIN r,
                      r[m].kind = "resubscribe", r[m].stage = "awaiting",
                      r[m].wire \in {"buffered", "sent"}
               PROVE  \E u \in DOMAIN r : r[u].kind = "undo" /\ r[u].wire = r[m].wire
    BY DEF UndoFollows
  <2>1. m # n /\ r[m] = q[m]
    OBVIOUS
  <2>2. PICK u \in DOMAIN q : q[u].kind = "undo" /\ q[u].wire = q[m].wire
    BY <2>1 DEF KeyHolds, UndoFollows
  <2>3. u # n
    BY <2>2 DEF Joins
  <2>4. QED
    BY <2>1, <2>2, <2>3
<1>5. up /\ ~strays /\ ~Doomed(r, left) => Reconciled(r, sub, left, destroyed)
  <2> SUFFICES ASSUME up, ~strays
               PROVE  Reconciled(r, sub, left, destroyed)
    OBVIOUS
  <2>1. Reconciled(q, sub, joined, destroyed)
    BY DEF KeyHolds, Doomed
  <2>2. sub # 0 => \E i \in DOMAIN r :
          \/ r[i].kind = "unsubscribe" /\ r[i].stage = "awaiting" /\ r[i].wire = "granted"
          \/ /\ r[i].kind = "resubscribe" /\ r[i].target = sub
             /\ r[i].stage \in {"queued", "awaiting"}
    <3> SUFFICES ASSUME sub # 0
                 PROVE  \E i \in DOMAIN r :
          \/ r[i].kind = "unsubscribe" /\ r[i].stage = "awaiting" /\ r[i].wire = "granted"
          \/ /\ r[i].kind = "resubscribe" /\ r[i].target = sub
             /\ r[i].stage \in {"queued", "awaiting"}
      OBVIOUS
    <3>1. PICK i \in DOMAIN q :
          \/ q[i].kind = "unsubscribe" /\ q[i].stage = "awaiting" /\ q[i].wire = "granted"
          \/ /\ q[i].kind = "resubscribe" /\ q[i].target = sub
             /\ q[i].stage \in {"queued", "awaiting"}
      BY <2>1 DEF Reconciled
    <3>2. CASE i = n
      BY <3>1, <3>2
    <3>3. CASE i # n
      BY <3>1, <3>3
    <3>4. QED
      BY <3>2, <3>3
  <2>3. \A i \in DOMAIN r : r[i].stage = "awaiting" /\ r[i].wire = "granted" =>
          i \in DOMAIN q /\ r[i] = q[i]
    OBVIOUS
  <2>4. ~left /\ ~joined /\ left = joined
    OBVIOUS
  <2>5. QED
    BY <2>1, <2>2, <2>3, <2>4 DEF Reconciled
<1>6. QED
  BY <1>2, <1>3, <1>4, <1>5 DEF KeyHolds

\* One more operation m of q, in r.
Grows(q, r, m) ==
  /\ m \notin DOMAIN q
  /\ DOMAIN r = DOMAIN q \cup {m}
  /\ \A i \in DOMAIN q : r[i] = q[i]

\* A call is chained, begins, or settles at once.
LEMMA CallHolds ==
  ASSUME NEW q, NEW r, NEW m, Grows(q, r, m),
         NEW sub, NEW joined, NEW destroyed, ~destroyed, NEW up \in BOOLEAN, NEW astray,
         KeyHolds(q, sub, joined, destroyed, up, astray),
         r[m].kind \in {"subscribe", "unsubscribe"},
         \/ r[m].stage = "queued" /\ r[m].wire = "none"
         \/ r[m].stage = "done" /\ r[m].wire = "closed"
         \/ r[m].stage = "awaiting" /\ r[m].wire = Emitted(up)
  PROVE  KeyHolds(r, sub, joined, destroyed, up, astray)
<1> USE DEF Grows, Emitted
<1>1. RequestsFit(r, up)
  BY DEF KeyHolds, RequestsFit, GivenUp
<1>2. StoredIsRestored(r, sub, destroyed)
  BY DEF KeyHolds, StoredIsRestored
<1>3. UndoFollows(r, destroyed)
  BY DEF UndoFollows
<1>4. up /\ ~astray /\ ~Doomed(r, joined) => Reconciled(r, sub, joined, destroyed)
  <2> SUFFICES ASSUME up, ~astray, ~Doomed(r, joined)
               PROVE  Reconciled(r, sub, joined, destroyed)
    OBVIOUS
  <2>1. ~Doomed(q, joined)
    BY DEF Doomed
  <2>2. Reconciled(q, sub, joined, destroyed)
    BY <2>1 DEF KeyHolds
  <2>3. sub = 0 /\ joined => \E i \in DOMAIN r :
          \/ r[i].kind = "subscribe" /\ r[i].stage = "awaiting" /\ r[i].wire = "granted"
          \/ r[i].kind = "undo" /\ r[i].wire = "sent"
    BY <2>2 DEF Reconciled
  <2>4. sub # 0 /\ ~joined => \E i \in DOMAIN r :
          \/ r[i].kind = "unsubscribe" /\ r[i].stage = "awaiting" /\ r[i].wire = "granted"
          \/ /\ r[i].kind = "resubscribe" /\ r[i].target = sub
             /\ r[i].stage \in {"queued", "awaiting"}
    BY <2>2 DEF Reconciled
  <2>5. QED
    BY <2>2, <2>3, <2>4 DEF Reconciled
<1>5. QED
  BY <1>1, <1>2, <1>3, <1>4 DEF KeyHolds

\* A positive answer to a subscribe reaches a destroyed runtime: the undo is sent in
\* the same turn.
LEMMA LateGrantHolds ==
  ASSUME NEW q \in Seq(Op), NEW s, NEW r, NEW n, NEW m, Moves(q, s, n), Grows(s, r, m),
         NEW joined, NEW up \in BOOLEAN, NEW astray, NEW chain,
         KeyHolds(q, 0, joined, TRUE, up, astray), Orderly(q, chain, TRUE),
         q[n].stage = "awaiting", q[n].wire = "granted",
         s[n].stage = "done", s[n].wire = "closed",
         r[m].kind = "undo", r[m].stage = "detached", r[m].wire = Emitted(up)
  PROVE  KeyHolds(r, 0, joined, TRUE, up, astray)
<1> USE DEF Moves, Grows, Emitted
<1>1. RequestsFit(q, up)
  BY DEF KeyHolds
<1>2. RequestsFit(r, up)
  <2>1. RequestsFit(s, up)
    BY <1>1 DEF RequestsFit, GivenUp
  <2>2. QED
    BY <2>1 DEF RequestsFit, GivenUp
<1>3. StoredIsRestored(r, 0, TRUE)
  BY DEF StoredIsRestored
<1>4. \A i \in DOMAIN r : r[i].stage # "awaiting"
  <2>1. \A i \in DOMAIN q \ {n} : q[i].stage # "awaiting"
    BY OneAwaits
  <2>2. QED
    BY <2>1
<1>5. UndoFollows(r, TRUE)
  BY <1>4 DEF UndoFollows
<1>6. up => Reconciled(r, 0, joined, TRUE)
  BY <1>4 DEF Reconciled
<1>7. QED
  BY <1>2, <1>3, <1>5, <1>6 DEF KeyHolds

\* destroy(): what is stored is left, behind what is under way.
LEMMA DestroyHolds ==
  ASSUME NEW q, NEW r, NEW sub, NEW joined, NEW up \in BOOLEAN, NEW astray,
         KeyHolds(q, sub, joined, FALSE, up, astray),
         sub = 0 => r = q,
         sub # 0 => \E m : /\ Grows(q, r, m)
                            /\ r[m].kind = "undo" /\ r[m].stage = "detached"
                            /\ r[m].wire = Emitted(up)
  PROVE  KeyHolds(r, 0, joined, TRUE, up, astray)
<1> USE DEF Emitted
<1>1. CASE sub = 0
  <2>1. UndoFollows(q, TRUE)
    BY <1>1 DEF KeyHolds, StoredIsRestored, UndoFollows
  <2>2. ~Doomed(q, joined) /\ up /\ ~astray => Reconciled(q, 0, joined, TRUE)
    BY <1>1 DEF KeyHolds, Reconciled
  <2>3. QED
    BY <1>1, <2>1, <2>2 DEF KeyHolds, StoredIsRestored
<1>2. CASE sub # 0
  <2>1. PICK m : /\ Grows(q, r, m)
                 /\ r[m].kind = "undo" /\ r[m].stage = "detached"
                 /\ r[m].wire = Emitted(up)
    BY <1>2
  <2>2. RequestsFit(r, up)
    BY <2>1 DEF KeyHolds, RequestsFit, GivenUp, Grows
  <2>3. UndoFollows(r, TRUE)
    BY <2>1, <2>2 DEF UndoFollows, RequestsFit, Grows
  <2>4. Doomed(q, joined) => Doomed(r, joined)
    BY <2>1 DEF Doomed, Grows
  <2>5. up /\ Reconciled(q, sub, joined, FALSE) => Reconciled(r, 0, joined, TRUE)
    BY <2>1 DEF Reconciled, Grows
  <2>6. QED
    BY <2>2, <2>3, <2>4, <2>5 DEF KeyHolds, StoredIsRestored
<1>3. QED
  BY <1>1, <1>2

\* r is q with the buffered requests sent.
Flushes(q, r) ==
  /\ DOMAIN q \subseteq DOMAIN r
  /\ \A i \in DOMAIN q :
       /\ r[i].kind = q[i].kind /\ r[i].target = q[i].target /\ r[i].stage = q[i].stage
       /\ q[i].wire = "buffered" => r[i].wire = "sent"
       /\ q[i].wire # "buffered" => r[i].wire = q[i].wire

\* What r adds to q restores the subscription, if there is one.
Restores(q, r, sub) ==
  /\ \A m \in DOMAIN r \ DOMAIN q :
       /\ r[m].kind = "resubscribe" /\ r[m].target = sub /\ sub # 0
       /\ \/ r[m].stage = "queued" /\ r[m].wire = "none"
          \/ r[m].stage = "awaiting" /\ r[m].wire = "sent"
  /\ sub # 0 => DOMAIN r \ DOMAIN q # {}

\* A session starts: what was buffered is sent, and what is stored resubscribed.
LEMMA ConnectHolds ==
  ASSUME NEW q, NEW r, NEW sub, NEW joined \in BOOLEAN, NEW destroyed \in BOOLEAN,
         NEW astray, NEW up \in BOOLEAN, NEW next \in BOOLEAN,
         KeyHolds(q, sub, joined, destroyed, up, astray), ~joined, ~up, ~astray, next,
         Flushes(q, r), Restores(q, r, sub),
         destroyed => sub = 0
  PROVE  KeyHolds(r, sub, joined, destroyed, next, astray)
<1> USE DEF Flushes, Restores
<1>1. RequestsFit(q, up)
  BY DEF KeyHolds
<1>2. ASSUME NEW n \in DOMAIN r
      PROVE  /\ r[n].stage = "queued" <=> r[n].wire = "none"
             /\ r[n].wire # "buffered"
             /\ r[n].stage = "awaiting" => r[n].wire # "closed"
             /\ GivenUp(r[n]) => r[n].wire \in {"closed", "lost"} \/ "giveUp" \in Faults
             /\ r[n].kind = "resubscribe" => r[n].target # 0
  <2>1. CASE n \in DOMAIN q
    BY <1>1, <2>1 DEF RequestsFit, GivenUp
  <2>2. CASE n \notin DOMAIN q
    BY <2>2 DEF GivenUp
  <2>3. QED
    BY <2>1, <2>2
<1>3. RequestsFit(r, next)
  BY <1>2 DEF RequestsFit
<1>4. StoredIsRestored(r, sub, destroyed)
  BY DEF KeyHolds, StoredIsRestored
<1>5. UndoFollows(r, destroyed)
  <2> SUFFICES ASSUME destroyed, NEW m \in DOMAIN r,
                      r[m].kind = "resubscribe", r[m].stage = "awaiting",
                      r[m].wire \in {"buffered", "sent"}
               PROVE  \E u \in DOMAIN r : r[u].kind = "undo" /\ r[u].wire = r[m].wire
    BY DEF UndoFollows
  <2>1. m \in DOMAIN q /\ q[m].wire = "buffered"
    BY <1>1 DEF RequestsFit
  <2>2. PICK u \in DOMAIN q : q[u].kind = "undo" /\ q[u].wire = q[m].wire
    BY <2>1 DEF KeyHolds, UndoFollows
  <2>3. QED
    BY <2>1, <2>2
<1>6. Reconciled(r, sub, joined, destroyed)
  <2>1. sub # 0 => \E i \in DOMAIN r : /\ r[i].kind = "resubscribe" /\ r[i].target = sub
                                       /\ r[i].stage \in {"queued", "awaiting"}
    OBVIOUS
  <2>2. \A i \in DOMAIN r : r[i].wire # "granted"
    BY <1>1 DEF RequestsFit
  <2>3. QED
    BY <2>1, <2>2 DEF Reconciled
<1>7. QED
  BY <1>3, <1>4, <1>5, <1>6 DEF KeyHolds

\* r is q with what was under way lost.
Loses(q, r) ==
  /\ DOMAIN r = DOMAIN q
  /\ \A i \in DOMAIN q :
       /\ r[i].kind = q[i].kind /\ r[i].target = q[i].target
       /\ q[i].wire \in {"sent", "granted", "denied"} =>
            /\ r[i].wire = "lost"
            /\ q[i].stage = "detached" => r[i].stage = "done"
            /\ q[i].stage # "detached" => r[i].stage = q[i].stage
       /\ q[i].wire \notin {"sent", "granted", "denied"} =>
            r[i].wire = q[i].wire /\ r[i].stage = q[i].stage

\* A session breaks: nothing is asked, nobody is a member, and no fault is left.
LEMMA LossHolds ==
  ASSUME NEW q, NEW r, NEW sub, NEW joined, NEW destroyed \in BOOLEAN, NEW astray,
         NEW up \in BOOLEAN, NEW next \in BOOLEAN, NEW left, NEW strays,
         KeyHolds(q, sub, joined, destroyed, up, astray), up, ~next,
         Loses(q, r)
  PROVE  KeyHolds(r, sub, left, destroyed, next, strays)
<1> USE DEF Loses
<1>1. RequestsFit(q, up)
  BY DEF KeyHolds
<1>2. RequestsFit(r, next)
  BY <1>1 DEF RequestsFit, GivenUp
<1>3. StoredIsRestored(r, sub, destroyed)
  BY DEF KeyHolds, StoredIsRestored
<1>4. \A i \in DOMAIN r : r[i].wire \notin {"buffered", "sent"}
  BY <1>1 DEF RequestsFit
<1>5. UndoFollows(r, destroyed)
  BY <1>4 DEF UndoFollows
<1>6. QED
  BY <1>2, <1>3, <1>5 DEF KeyHolds

(***************************************************************************)
(* The steps of the specification keep AgreementInv.                       *)
(***************************************************************************)

\* What a step of one key has to show.
LEMMA OneKeyAgrees ==
  ASSUME AgreementInv, IInv', NEW k \in Keys,
         UNCHANGED <<connection, isDestroyed, attached>>,
         \A j \in Keys \ {k} : /\ ops'[j] = ops[j]
                               /\ channelSubscriptions'[j] = channelSubscriptions[j]
                               /\ member'[j] = member[j],
         strayed \subseteq strayed',
         strayed' \subseteq strayed \cup ({k} \X Faults), ~online => strayed' = {},
         ~online => channelSubscriptions'[k] \in {0, channelSubscriptions[k]},
         member'[k] => attached,
         KeyHolds(ops'[k], channelSubscriptions'[k], member'[k], isDestroyed, online,
                  Strayed(k)')
  PROVE  AgreementInv'
<1>1. SessionInv'
  BY DEF AgreementInv, SessionInv, connection
<1>2. ASSUME NEW j \in Keys \ {k}
      PROVE  KeyInv(j)'
  <2>1. KeyInv(j)
    BY DEF AgreementInv
  <2>2. Strayed(j)' <=> Strayed(j)
    BY DEF Strayed
  <2>3. UNCHANGED <<online, isDestroyed, attached>>
    BY DEF connection
  <2>4. ASSUME NEW x, x = Strayed(j), NEW y, y = Strayed(j)', NEW q, NEW sub, NEW joined,
               NEW destroyed, NEW up
        PROVE  KeyHolds(q, sub, joined, destroyed, up, x) =>
                 KeyHolds(q, sub, joined, destroyed, up, y)
    BY <2>2, <2>4 DEF KeyHolds
  <2>5. QED
    BY <2>1, <2>3, <2>4 DEF KeyInv
<1>3. KeyInv(k)'
  BY DEF KeyInv, connection
<1>4. QED
  BY <1>1, <1>2, <1>3 DEF AgreementInv

\* Another record in the place of operation n of key k, as a move.
LEMMA MovesInPlace ==
  ASSUME TypeOK, NEW k \in Keys, NEW n \in DOMAIN ops[k], NEW o \in Op,
         o.kind = ops[k][n].kind, o.target = ops[k][n].target,
         ops' = [ops EXCEPT ![k] = [ops[k] EXCEPT ![n] = o]]
  PROVE  /\ ops[k] \in Seq(Op)
         /\ Moves(ops[k], ops'[k], n)
         /\ ops'[k][n] = o
         /\ \A j \in Keys \ {k} : ops'[j] = ops[j]
<1>1. ops[k] \in Seq(Op) /\ ops'[k] \in Seq(Op)
  BY OpReplaced DEF TypeOK
<1>2. DOMAIN ops'[k] = DOMAIN ops[k]
  <2>1. Len(ops'[k]) = Len(ops[k])
    BY OpReplaced
  <2>2. QED
    BY <1>1, <2>1, OpsUnfolded
<1>3. QED
  BY <1>1, <1>2, OpReplaced DEF Moves

\* A queued operation begins.
LEMMA TakeTurnAgrees ==
  ASSUME AgreementInv, IInv', NEW k \in Keys, NEW n \in DOMAIN ops[k], TakeTurn(k, n)
  PROVE  AgreementInv'
<1>1. PICK aborted \in MayBeAborted(ops[k][n].kind) :
        ops' = [ops EXCEPT ![k][n] =
                  Begun(ops[k][n], channelSubscriptions[k], online, aborted \/ isDestroyed)]
  BY DEF TakeTurn
<1> DEFINE o == Begun(ops[k][n], channelSubscriptions[k], online, aborted \/ isDestroyed)
<1>0. TypeOK /\ IInv
  BY DEF AgreementInv, IInv
<1>2. ops[k] \in Seq(Op) /\ ops[k][n] \in Op /\ aborted \in BOOLEAN
  BY <1>0, OpsUnfolded DEF TypeOK, MayBeAborted
<1>3. /\ o \in Op
      /\ o.kind = ops[k][n].kind
      /\ o.target = ops[k][n].target
  BY <1>0, <1>2 DEF Begun, Emitted, Op, Stage, Wire, TypeOK
<1>4. \/ /\ o.stage = "done" /\ o.wire = "closed"
         /\ isDestroyed \/ ops[k][n].kind # "resubscribe"
                        \/ channelSubscriptions[k] # ops[k][n].target
      \/ /\ o.stage = "awaiting" /\ o.wire = Emitted(online)
         /\ ~isDestroyed
         /\ ops[k][n].kind = "resubscribe" => channelSubscriptions[k] = ops[k][n].target
  BY <1>0, <1>2 DEF Begun, Skips, MayBeAborted, Op
<1>5. ops' = [ops EXCEPT ![k] = [ops[k] EXCEPT ![n] = o]]
  BY <1>0, <1>1, <1>2 DEF TypeOK
<1> HIDE DEF o
<1>6. /\ Moves(ops[k], ops'[k], n) /\ ops'[k][n] = o
      /\ \A j \in Keys \ {k} : ops'[j] = ops[j]
  <2>0. TypeOK
    BY <1>0
  <2>1. Moves(ops[k], ops'[k], n)
    BY <2>0, <1>3, <1>5, MovesInPlace
  <2>2. ops'[k][n] = o
    BY <2>0, <1>3, <1>5, MovesInPlace
  <2>3. \A j \in Keys \ {k} : ops'[j] = ops[j]
    BY <2>0, <1>3, <1>5, MovesInPlace
  <2>4. QED
    BY <2>1, <2>2, <2>3
<1>7. UNCHANGED <<channelSubscriptions, connection, isDestroyed, member, attached, strayed>>
  BY DEF TakeTurn, server
<1>8. /\ member[k] => attached
      /\ KeyHolds(ops[k], channelSubscriptions[k], member[k], isDestroyed, online, Strayed(k))
      /\ isDestroyed => channelSubscriptions[k] = 0
      /\ isDestroyed \in BOOLEAN /\ online \in BOOLEAN
      /\ ops[k][n].stage = "queued"
  BY <1>0 DEF AgreementInv, KeyInv, IInv, TypeOK, NoSubscriptionAfterDestroy, TakeTurn
<1>9. KeyHolds(ops'[k], channelSubscriptions[k], member[k], isDestroyed, online, Strayed(k))
  BY <1>4, <1>6, <1>8, BeginHolds
<1>10. Strayed(k)' = Strayed(k)
  BY <1>7 DEF Strayed
<1>11. QED
  BY <1>6, <1>7, <1>8, <1>9, <1>10, OneKeyAgrees DEF AgreementInv, SessionInv

\* What the invariant says of one key.
LEMMA KeyBefore ==
  ASSUME AgreementInv, NEW k \in Keys
  PROVE  /\ ops[k] \in Seq(Op) /\ channelSubscriptions[k] \in Nat
         /\ member[k] \in BOOLEAN /\ isDestroyed \in BOOLEAN /\ online \in BOOLEAN
         /\ Orderly(ops[k], channelOperationChains[k], isDestroyed)
         /\ isDestroyed => channelSubscriptions[k] = 0
         /\ KeyHolds(ops[k], channelSubscriptions[k], member[k], isDestroyed, online,
                     Strayed(k))
         /\ RequestsFit(ops[k], online)
         /\ member[k] => attached
         /\ attached => online
BY DEF AgreementInv, IInv, TypeOK, NoSubscriptionAfterDestroy, KeyInv, KeyHolds, SessionInv

\* An operation fails.
LEMMA FailAgrees ==
  ASSUME AgreementInv, IInv', NEW k \in Keys, NEW n \in DOMAIN ops[k], NEW wire \in Wire,
         ops[k][n].stage = "awaiting", Fail(k, n, wire),
         UNCHANGED <<connection, isDestroyed, member, attached>>,
         \/ /\ wire = ops[k][n].wire
            /\ "giveUp" \in Faults \/ wire = "lost"
            /\ strayed' = IF wire = "granted" THEN strayed \cup {<<k, "giveUp">>} ELSE strayed
         \/ ops[k][n].wire = "denied" /\ wire = "closed" /\ UNCHANGED strayed
  PROVE  AgreementInv'
<1>0. TypeOK
  BY DEF AgreementInv, IInv
<1>1. PICK a \in {"announcing", "done"} :
        ops' = [ops EXCEPT ![k][n].stage = a, ![k][n].wire = wire]
  BY DEF Fail
<1> DEFINE o == [ops[k][n] EXCEPT !.stage = a, !.wire = wire]
<1>2. ops[k] \in Seq(Op) /\ ops[k][n] \in Op
  BY <1>0, OpsUnfolded DEF TypeOK
<1>3. /\ o \in Op
      /\ o.kind = ops[k][n].kind
      /\ o.target = ops[k][n].target
  BY <1>2 DEF Op, Stage
<1>4. GivenUp(o) /\ o.wire = wire
  BY <1>2 DEF GivenUp, Op
<1>5. ops' = [ops EXCEPT ![k] = [ops[k] EXCEPT ![n] = o]]
  BY <1>0, <1>1, <1>2 DEF TypeOK
<1> HIDE DEF o
<1>6. Moves(ops[k], ops'[k], n)
  BY <1>0, <1>3, <1>5, MovesInPlace
<1>7. ops'[k][n] = o
  BY <1>0, <1>3, <1>5, MovesInPlace
<1>8. \A j \in Keys \ {k} : ops'[j] = ops[j]
  BY <1>0, <1>3, <1>5, MovesInPlace
<1>9. GivenUp(ops'[k][n]) /\ ops'[k][n].wire = wire
  BY <1>4, <1>7
<1>10. /\ channelSubscriptions'[k] = IF ops[k][n].kind = "resubscribe" THEN 0
                                     ELSE channelSubscriptions[k]
       /\ \A j \in Keys \ {k} : channelSubscriptions'[j] = channelSubscriptions[j]
  BY <1>0 DEF Fail, KeptOnFailure, TypeOK
<1>11. /\ Strayed(k) => Strayed(k)'
       /\ ops[k][n].wire = "granted" => Strayed(k)'
  BY DEF Strayed
<1>12. /\ strayed \subseteq strayed'
       /\ strayed' \subseteq strayed \cup ({k} \X Faults)
       /\ ~online => strayed' = {}
  <2>1. ~online => ops[k][n].wire # "granted" /\ strayed = {}
    BY KeyBefore DEF RequestsFit, AgreementInv, SessionInv
  <2>2. wire = "granted" => "giveUp" \in Faults
    OBVIOUS
  <2>3. QED
    BY <2>1, <2>2
<1>13. KeyHolds(ops'[k], channelSubscriptions'[k], member[k], isDestroyed, online,
                Strayed(k)')
  <2>1. \/ /\ ops'[k][n].wire = ops[k][n].wire
           /\ "giveUp" \in Faults \/ ops[k][n].wire = "lost"
        \/ ops[k][n].wire = "denied" /\ ops'[k][n].wire = "closed"
    BY <1>9
  <2>2. /\ Orderly(ops[k], channelOperationChains[k], isDestroyed)
        /\ online \in BOOLEAN
        /\ KeyHolds(ops[k], channelSubscriptions[k], member[k], isDestroyed, online, Strayed(k))
    BY KeyBefore
  <2>3. ASSUME NEW q \in Seq(Op), q = ops[k], NEW r, r = ops'[k],
               NEW sub, sub = channelSubscriptions[k], NEW rest, rest = channelSubscriptions'[k],
               NEW strays, strays = Strayed(k)', NEW astray, astray = Strayed(k)
        PROVE  KeyHolds(r, rest, member[k], isDestroyed, online, strays)
    <3>1. /\ Moves(q, r, n) /\ GivenUp(r[n]) /\ q[n].stage = "awaiting"
          /\ q[n].kind = "resubscribe" => rest = 0
          /\ q[n].kind # "resubscribe" => rest = sub
          /\ astray => strays
          /\ q[n].wire = "granted" => strays
      BY <1>6, <1>9, <1>10, <1>11, <2>3
    <3>2. /\ Orderly(q, channelOperationChains[k], isDestroyed)
          /\ online \in BOOLEAN
          /\ KeyHolds(q, sub, member[k], isDestroyed, online, astray)
      BY <2>2, <2>3
    <3>3. \/ r[n].wire = q[n].wire /\ ("giveUp" \in Faults \/ q[n].wire = "lost")
          \/ q[n].wire = "denied" /\ r[n].wire = "closed"
      BY <2>1, <2>3
    <3>4. QED
      BY <3>1, <3>2, <3>3, FailHolds
  <2>4. QED
    BY <1>2, <2>3
<1>14. member'[k] => attached
  BY KeyBefore
<1>15. QED
  BY <1>8, <1>10, <1>12, <1>13, <1>14, OneKeyAgrees

\* A timer, a signal or a negative answer.
LEMMA FailuresAgree ==
  ASSUME AgreementInv, IInv', NEW k \in Keys, NEW n \in DOMAIN ops[k],
         TimeOut(k, n) \/ Abort(k, n) \/ ReceiveDenial(k, n)
  PROVE  AgreementInv'
<1>1. ops[k][n].wire \in Wire /\ "closed" \in Wire
  <2>1. ops[k][n] \in Op
    BY OpsUnfolded DEF AgreementInv, IInv, TypeOK
  <2>2. QED
    BY <2>1 DEF Op, Wire
<1>2. CASE TimeOut(k, n) \/ Abort(k, n)
  BY <1>1, <1>2, FailAgrees DEF TimeOut, Abort, GiveUp
<1>3. CASE ReceiveDenial(k, n)
  BY <1>1, <1>3, FailAgrees DEF ReceiveDenial, server
<1>4. QED
  BY <1>2, <1>3

\* An announcement ends, or an answer nobody awaits is dropped.
LEMMA EndsAgree ==
  ASSUME AgreementInv, IInv', NEW k \in Keys, NEW n \in DOMAIN ops[k],
         EndAnnouncement(k, n) \/ DropAnswer(k, n)
  PROVE  AgreementInv'
<1>0. TypeOK
  BY DEF AgreementInv, IInv
<1>1. ops[k] \in Seq(Op) /\ ops[k][n] \in Op
  BY <1>0, OpsUnfolded DEF TypeOK
<1>2. PICK o \in Op :
        /\ o.kind = ops[k][n].kind /\ o.target = ops[k][n].target
        /\ ops[k][n].stage \in {"announcing", "done", "detached"} /\ o.stage = "done"
        /\ \/ o.wire = ops[k][n].wire /\ ops[k][n].stage = "announcing"
           \/ o.wire = "closed" /\ ops[k][n].wire \in {"granted", "denied"}
        /\ ops' = [ops EXCEPT ![k] = [ops[k] EXCEPT ![n] = o]]
  <2>1. CASE EndAnnouncement(k, n)
    <3> DEFINE o == [ops[k][n] EXCEPT !.stage = "done"]
    <3>1. /\ o \in Op /\ o.kind = ops[k][n].kind /\ o.target = ops[k][n].target
          /\ o.stage = "done" /\ o.wire = ops[k][n].wire
      BY <1>1 DEF Op, Stage
    <3>2. ops' = [ops EXCEPT ![k] = [ops[k] EXCEPT ![n] = o]]
      BY <1>0, <2>1 DEF EndAnnouncement, TypeOK
    <3>3. ops[k][n].stage = "announcing"
      BY <2>1 DEF EndAnnouncement
    <3> HIDE DEF o
    <3>4. QED
      BY <3>1, <3>2, <3>3
  <2>2. CASE DropAnswer(k, n)
    <3> DEFINE o == [ops[k][n] EXCEPT !.stage = "done", !.wire = "closed"]
    <3>1. /\ o \in Op /\ o.kind = ops[k][n].kind /\ o.target = ops[k][n].target
          /\ o.stage = "done" /\ o.wire = "closed"
      BY <1>1 DEF Op, Stage, Wire
    <3>2. ops' = [ops EXCEPT ![k] = [ops[k] EXCEPT ![n] = o]]
      BY <1>0, <2>2 DEF DropAnswer, TypeOK
    <3>3. ops[k][n].wire \in {"granted", "denied"} /\ ops[k][n].stage \in {"done", "detached"}
      BY <2>2 DEF DropAnswer
    <3> HIDE DEF o
    <3>4. QED
      BY <3>1, <3>2, <3>3
  <2>3. QED
    BY <2>1, <2>2
<1>3. Moves(ops[k], ops'[k], n)
  BY <1>0, <1>2, MovesInPlace
<1>4. ops'[k][n] = o
  BY <1>0, <1>2, MovesInPlace
<1>5. \A j \in Keys \ {k} : ops'[j] = ops[j]
  BY <1>0, <1>2, MovesInPlace
<1>6. UNCHANGED <<channelSubscriptions, connection, isDestroyed, member, attached, strayed>>
  BY DEF EndAnnouncement, DropAnswer, server
<1>7. /\ KeyHolds(ops[k], channelSubscriptions[k], member[k], isDestroyed, online, Strayed(k))
      /\ online \in BOOLEAN /\ (member[k] => attached)
  BY KeyBefore
<1>8. KeyHolds(ops'[k], channelSubscriptions[k], member[k], isDestroyed, online, Strayed(k))
  BY <1>2, <1>3, <1>4, <1>7, EndHolds
<1>9. Strayed(k)' = Strayed(k)
  BY <1>6 DEF Strayed
<1>10. QED
  BY <1>5, <1>6, <1>7, <1>8, <1>9, OneKeyAgrees DEF AgreementInv, SessionInv

\* A positive answer ends a subscribe of a live runtime, or another operation.
LEMMA GrantAgrees ==
  ASSUME AgreementInv, IInv', NEW k \in Keys, NEW n \in DOMAIN ops[k], ReceiveGrant(k, n),
         ~(isDestroyed /\ ops[k][n].kind = "subscribe")
  PROVE  AgreementInv'
<1>0. TypeOK
  BY DEF AgreementInv, IInv
<1>1. ops[k] \in Seq(Op) /\ ops[k][n] \in Op /\ n # 0
  BY <1>0, OpsUnfolded DEF TypeOK
<1> DEFINE o == [ops[k][n] EXCEPT !.stage = "done", !.wire = "closed"]
<1>2. /\ o \in Op /\ o.kind = ops[k][n].kind /\ o.target = ops[k][n].target
      /\ o.stage = "done" /\ o.wire = "closed"
  BY <1>1 DEF Op, Stage, Wire
<1>3. ops' = [ops EXCEPT ![k] = [ops[k] EXCEPT ![n] = o]]
  BY <1>0 DEF TypeOK, ReceiveGrant, SubscribeSucceeds, OtherSucceeds
<1> HIDE DEF o
<1>4. Moves(ops[k], ops'[k], n)
  BY <1>0, <1>2, <1>3, MovesInPlace
<1>5. ops'[k][n] = o
  BY <1>0, <1>2, <1>3, MovesInPlace
<1>6. \A j \in Keys \ {k} : ops'[j] = ops[j]
  BY <1>0, <1>2, <1>3, MovesInPlace
<1>7. UNCHANGED <<connection, isDestroyed, member, attached, strayed>>
  BY DEF ReceiveGrant, server
<1>8. /\ ops[k][n].kind = "subscribe" => channelSubscriptions'[k] # 0
      /\ ops[k][n].kind = "unsubscribe" => channelSubscriptions'[k] = 0
      /\ ops[k][n].kind \notin {"subscribe", "unsubscribe"} =>
           channelSubscriptions'[k] = channelSubscriptions[k]
      /\ \A j \in Keys \ {k} : channelSubscriptions'[j] = channelSubscriptions[j]
  BY <1>0, <1>1 DEF TypeOK, ReceiveGrant, SubscribeSucceeds, OtherSucceeds
<1>9. /\ KeyHolds(ops[k], channelSubscriptions[k], member[k], isDestroyed, online, Strayed(k))
      /\ Orderly(ops[k], channelOperationChains[k], isDestroyed)
      /\ isDestroyed => channelSubscriptions[k] = 0 /\ ops[k][n].kind # "subscribe"
      /\ member[k] \in BOOLEAN /\ isDestroyed \in BOOLEAN /\ online \in BOOLEAN
      /\ member[k] => attached
  BY KeyBefore
<1>10. /\ ops[k][n].stage = "awaiting" /\ ops[k][n].wire = "granted"
       /\ ops'[k][n].stage = "done" /\ ops'[k][n].wire = "closed"
  BY <1>2, <1>5 DEF ReceiveGrant
<1>11. online
  BY <1>10, KeyBefore DEF RequestsFit
<1>12. KeyHolds(ops'[k], channelSubscriptions'[k], member[k], isDestroyed, online, Strayed(k))
  BY <1>1, <1>4, <1>8, <1>9, <1>10, GrantHolds
<1>13. Strayed(k)' = Strayed(k)
  BY <1>7 DEF Strayed
<1>14. QED
  BY <1>6, <1>7, <1>8, <1>9, <1>11, <1>12, <1>13, OneKeyAgrees

\* One more operation, as growth.
LEMMA GrowsByOne ==
  ASSUME NEW q \in Seq(Op), NEW o \in Op
  PROVE  /\ Grows(q, Append(q, o), Len(q) + 1)
         /\ Append(q, o)[Len(q) + 1] = o
<1>1. /\ Len(q) \in Nat /\ DOMAIN q = 1..Len(q)
      /\ DOMAIN Append(q, o) = 1..(Len(q) + 1)
      /\ \A i \in DOMAIN q : Append(q, o)[i] = q[i]
      /\ Append(q, o)[Len(q) + 1] = o
  BY OpsUnfolded
<1>2. QED
  BY <1>1 DEF Grows

\* A positive answer to a subscribe reaches a destroyed runtime.
LEMMA LateGrantAgrees ==
  ASSUME AgreementInv, IInv', NEW k \in Keys, NEW n \in DOMAIN ops[k], ReceiveGrant(k, n),
         isDestroyed, ops[k][n].kind = "subscribe"
  PROVE  AgreementInv'
<1>0. TypeOK
  BY DEF AgreementInv, IInv
<1>1. ops[k] \in Seq(Op) /\ ops[k][n] \in Op
  BY <1>0, OpsUnfolded DEF TypeOK
<1>2. PICK s : s = [ops[k] EXCEPT ![n].stage = "done", ![n].wire = "closed"]
  OBVIOUS
<1>3. /\ s \in Seq(Op) /\ Moves(ops[k], s, n)
      /\ s[n].stage = "done" /\ s[n].wire = "closed"
  <2> DEFINE o == [ops[k][n] EXCEPT !.stage = "done", !.wire = "closed"]
  <2>1. /\ o \in Op /\ o.kind = ops[k][n].kind /\ o.target = ops[k][n].target
        /\ o.stage = "done" /\ o.wire = "closed"
    BY <1>1 DEF Op, Stage, Wire
  <2>2. s = [ops[k] EXCEPT ![n] = o]
    BY <1>1, <1>2
  <2> HIDE DEF o
  <2>3. /\ s \in Seq(Op) /\ DOMAIN s = DOMAIN ops[k]
        /\ \A i \in DOMAIN ops[k] \ {n} : s[i] = ops[k][i]
        /\ s[n] = o
    BY <1>1, <2>1, <2>2
  <2>4. QED
    BY <2>1, <2>3 DEF Moves
<1>4. ops' = [ops EXCEPT ![k] = Append(s, Undo(online))]
  BY <1>2 DEF ReceiveGrant, SubscribeSucceeds
<1>5. PICK u \in Op : u = Undo(online) /\ u.kind = "undo" /\ u.stage = "detached"
  BY <1>0, UndoFacts DEF TypeOK
<1>6. u.wire = Emitted(online)
  BY <1>5 DEF Undo, NewOp
<1>7. /\ ops'[k] = Append(s, u)
      /\ \A j \in Keys \ {k} : ops'[j] = ops[j]
  BY <1>0, <1>4, <1>5 DEF TypeOK
<1>8. PICK m : Grows(s, ops'[k], m) /\ ops'[k][m] = u
  BY <1>3, <1>7, GrowsByOne
<1>9. UNCHANGED <<channelSubscriptions, connection, isDestroyed, member, attached, strayed>>
  BY DEF ReceiveGrant, SubscribeSucceeds, server
<1>10. /\ KeyHolds(ops[k], 0, member[k], TRUE, online, Strayed(k))
       /\ Orderly(ops[k], channelOperationChains[k], TRUE)
       /\ channelSubscriptions[k] = 0 /\ isDestroyed = TRUE /\ online \in BOOLEAN
       /\ member[k] => attached
  <2>1. isDestroyed = TRUE
    BY <1>0 DEF TypeOK
  <2>2. QED
    BY <2>1, KeyBefore
<1>11. ops[k][n].stage = "awaiting" /\ ops[k][n].wire = "granted"
  BY DEF ReceiveGrant
<1>12. KeyHolds(ops'[k], 0, member[k], TRUE, online, Strayed(k))
  BY <1>1, <1>3, <1>5, <1>6, <1>8, <1>10, <1>11, LateGrantHolds
<1>13. Strayed(k)' = Strayed(k)
  BY <1>9 DEF Strayed
<1>14. QED
  BY <1>7, <1>9, <1>10, <1>12, <1>13, OneKeyAgrees DEF AgreementInv, SessionInv

\* A request is dropped.
LEMMA MissAgrees ==
  ASSUME AgreementInv, IInv', NEW k \in Keys, NEW n \in DOMAIN ops[k], Miss(k, n)
  PROVE  AgreementInv'
<1>0. TypeOK
  BY DEF AgreementInv, IInv
<1>1. ops[k] \in Seq(Op) /\ ops[k][n] \in Op
  BY <1>0, OpsUnfolded DEF TypeOK
<1> DEFINE a == IF ops[k][n].stage = "detached" THEN "done" ELSE ops[k][n].stage
           o == [ops[k][n] EXCEPT !.wire = "lost", !.stage = a]
<1>2. /\ o \in Op /\ o.kind = ops[k][n].kind /\ o.target = ops[k][n].target
      /\ ops[k][n].stage = "detached" => o.stage = "done"
      /\ ops[k][n].stage # "detached" => o.stage = ops[k][n].stage
      /\ o.wire = "lost"
  BY <1>1 DEF Op, Stage, Wire
<1>3. ops' = [ops EXCEPT ![k] = [ops[k] EXCEPT ![n] = o]]
  BY <1>0 DEF TypeOK, Miss
<1> HIDE DEF a, o
<1>4. Moves(ops[k], ops'[k], n)
  BY <1>0, <1>2, <1>3, MovesInPlace
<1>5. ops'[k][n] = o
  BY <1>0, <1>2, <1>3, MovesInPlace
<1>6. \A j \in Keys \ {k} : ops'[j] = ops[j]
  BY <1>0, <1>2, <1>3, MovesInPlace
<1>7. UNCHANGED <<channelSubscriptions, connection, isDestroyed, member, attached, strayed>>
  BY DEF Miss, server
<1>8. /\ KeyHolds(ops[k], channelSubscriptions[k], member[k], isDestroyed, online, Strayed(k))
      /\ Orderly(ops[k], channelOperationChains[k], isDestroyed)
      /\ isDestroyed \in BOOLEAN /\ online \in BOOLEAN /\ member[k] \in BOOLEAN
      /\ ~member[k]
  BY KeyBefore DEF Miss
<1>9. ops[k][n].wire = "sent" /\ \A i \in 1 .. n - 1 : ops[k][i].wire # "sent"
  BY DEF Miss, IsNext
<1>10. KeyHolds(ops'[k], channelSubscriptions[k], member[k], isDestroyed, online, Strayed(k))
  BY <1>1, <1>2, <1>4, <1>5, <1>8, <1>9, MissHolds
<1>11. Strayed(k)' = Strayed(k)
  BY <1>7 DEF Strayed
<1>12. QED
  BY <1>6, <1>7, <1>8, <1>10, <1>11, OneKeyAgrees DEF AgreementInv, SessionInv

\* The server's answer takes the place of the request.
LEMMA AnswerMoves ==
  ASSUME AgreementInv, NEW k \in Keys, NEW n \in DOMAIN ops[k],
         NEW wire \in {"granted", "denied"}, Answer(k, n, wire)
  PROVE  /\ Moves(ops[k], ops'[k], n)
         /\ ops'[k][n].stage = ops[k][n].stage /\ ops'[k][n].wire = wire
         /\ \A j \in Keys \ {k} : ops'[j] = ops[j]
<1>0. TypeOK
  BY DEF AgreementInv, IInv
<1>1. ops[k] \in Seq(Op) /\ ops[k][n] \in Op
  BY <1>0, OpsUnfolded DEF TypeOK
<1> DEFINE o == [ops[k][n] EXCEPT !.wire = wire]
<1>2. /\ o \in Op /\ o.kind = ops[k][n].kind /\ o.target = ops[k][n].target
      /\ o.stage = ops[k][n].stage /\ o.wire = wire
  BY <1>1 DEF Op, Wire
<1>3. ops' = [ops EXCEPT ![k] = [ops[k] EXCEPT ![n] = o]]
  BY <1>0 DEF TypeOK, Answer
<1> HIDE DEF o
<1>4. Moves(ops[k], ops'[k], n)
  BY <1>0, <1>2, <1>3, MovesInPlace
<1>5. ops'[k][n] = o
  BY <1>0, <1>2, <1>3, MovesInPlace
<1>6. \A j \in Keys \ {k} : ops'[j] = ops[j]
  BY <1>0, <1>2, <1>3, MovesInPlace
<1>7. QED
  BY <1>2, <1>4, <1>5, <1>6

\* The server grants a request.
LEMMA ServerGrantsAgrees ==
  ASSUME AgreementInv, IInv', NEW k \in Keys, NEW n \in DOMAIN ops[k], ServerGrants(k, n)
  PROVE  AgreementInv'
<1>1. ops[k] \in Seq(Op) /\ member \in [Keys -> BOOLEAN]
  BY DEF AgreementInv, IInv, TypeOK
<1>2. /\ ops[k][n].wire = "sent" /\ attached
      /\ "reorder" \in Faults \/ IsNext(k, n)
      /\ UNCHANGED <<channelSubscriptions, connection, isDestroyed, attached>>
      /\ Answer(k, n, "granted")
  BY DEF ServerGrants, Answer
<1>3. Moves(ops[k], ops'[k], n)
  BY <1>2, AnswerMoves
<1>4. ops'[k][n].stage = ops[k][n].stage /\ ops'[k][n].wire = "granted"
  BY <1>2, AnswerMoves
<1>5. \A j \in Keys \ {k} : ops'[j] = ops[j]
  BY <1>2, AnswerMoves
<1>6. /\ member'[k] = Joins(ops[k][n])
      /\ \A j \in Keys \ {k} : member'[j] = member[j]
  BY <1>1 DEF ServerGrants
<1>7. /\ KeyHolds(ops[k], channelSubscriptions[k], member[k], isDestroyed, online, Strayed(k))
      /\ Orderly(ops[k], channelOperationChains[k], isDestroyed)
      /\ isDestroyed \in BOOLEAN /\ online \in BOOLEAN /\ member[k] \in BOOLEAN
      /\ isDestroyed => channelSubscriptions[k] = 0
  BY KeyBefore
<1>8. online
  BY <1>2, KeyBefore
<1>9. /\ strayed \subseteq strayed'
      /\ strayed' \subseteq strayed \cup ({k} \X Faults)
  <2>1. GivenUp(ops[k][n]) => "giveUp" \in Faults
    BY <1>2, KeyBefore DEF RequestsFit
  <2>2. strayed' = strayed \cup (IF GivenUp(ops[k][n]) THEN {<<k, "giveUp">>} ELSE {})
                           \cup (IF IsNext(k, n) THEN {} ELSE {<<k, "reorder">>})
    BY DEF ServerGrants, GivenUp
  <2>3. QED
    BY <1>2, <2>1, <2>2
<1>10. /\ Strayed(k) => Strayed(k)'
       /\ GivenUp(ops[k][n]) => Strayed(k)'
       /\ ~IsNext(k, n) => Strayed(k)'
  BY DEF Strayed, ServerGrants, GivenUp
<1>11. ~Strayed(k)' => \A i \in 1 .. n - 1 : ops[k][i].wire # "sent"
  BY <1>10 DEF IsNext
<1>12. KeyHolds(ops'[k], channelSubscriptions[k], Joins(ops[k][n]), isDestroyed, online,
                Strayed(k)')
  <2>1. ASSUME NEW q \in Seq(Op), q = ops[k], NEW r, r = ops'[k],
               NEW sub, sub = channelSubscriptions[k], NEW joined \in BOOLEAN, joined = member[k],
               NEW strays, strays = Strayed(k)', NEW astray, astray = Strayed(k),
               NEW joins, joins = Joins(q[n])
        PROVE  KeyHolds(r, sub, joins, isDestroyed, online, strays)
    <3>1. /\ astray => strays
          /\ GivenUp(q[n]) => strays
          /\ ~strays => \A i \in 1 .. n - 1 : q[i].wire # "sent"
      BY <1>10, <1>11, <2>1
    <3>2. /\ KeyHolds(q, sub, joined, isDestroyed, online, astray)
          /\ Orderly(q, channelOperationChains[k], isDestroyed)
          /\ isDestroyed \in BOOLEAN /\ online \in BOOLEAN
          /\ isDestroyed => sub = 0
          /\ joins = Joins(q[n])
      BY <1>7, <2>1
    <3>3. /\ Moves(q, r, n) /\ q[n].wire = "sent"
          /\ r[n].stage = q[n].stage /\ r[n].wire = "granted"
      BY <1>2, <1>3, <1>4, <2>1
    <3>4. QED
      BY <3>1, <3>2, <3>3, ServerGrantsHolds
  <2>2. QED
    BY <1>1, <1>7, <2>1
<1>13. QED
  BY <1>2, <1>5, <1>6, <1>8, <1>9, <1>12, OneKeyAgrees

\* The server denies a request.
LEMMA ServerDeniesAgrees ==
  ASSUME AgreementInv, IInv', NEW k \in Keys, NEW n \in DOMAIN ops[k], ServerDenies(k, n)
  PROVE  AgreementInv'
<1>1. ops[k] \in Seq(Op) /\ member \in [Keys -> BOOLEAN]
  BY DEF AgreementInv, IInv, TypeOK
<1>2. /\ ops[k][n].wire = "sent" /\ attached
      /\ UNCHANGED <<channelSubscriptions, connection, isDestroyed, attached>>
      /\ Answer(k, n, "denied")
  BY DEF ServerDenies, Answer
<1>3. Moves(ops[k], ops'[k], n)
  BY <1>2, AnswerMoves
<1>4. ops'[k][n].stage = ops[k][n].stage /\ ops'[k][n].wire = "denied"
  BY <1>2, AnswerMoves
<1>5. \A j \in Keys \ {k} : ops'[j] = ops[j]
  BY <1>2, AnswerMoves
<1>6. /\ member'[k] \in BOOLEAN
      /\ \A j \in Keys \ {k} : member'[j] = member[j]
  BY <1>1 DEF ServerDenies
<1>7. /\ KeyHolds(ops[k], channelSubscriptions[k], member[k], isDestroyed, online, Strayed(k))
      /\ Orderly(ops[k], channelOperationChains[k], isDestroyed)
      /\ isDestroyed \in BOOLEAN /\ online \in BOOLEAN /\ member[k] \in BOOLEAN
  BY KeyBefore
<1>8. online
  BY <1>2, KeyBefore
<1>9. /\ strayed \subseteq strayed'
      /\ strayed' \subseteq strayed \cup ({k} \X Faults)
  BY DEF ServerDenies
<1>10. /\ Strayed(k) => Strayed(k)'
       /\ Strayed(k)' \/ (Joins(ops[k][n]) /\ ~member[k] /\ ~member'[k])
  BY <1>1 DEF Strayed, ServerDenies
<1>11. KeyHolds(ops'[k], channelSubscriptions[k], member'[k], isDestroyed, online,
                Strayed(k)')
  <2>1. ASSUME NEW strays, strays = Strayed(k)', NEW astray, astray = Strayed(k),
               NEW left, left = member'[k]
        PROVE  KeyHolds(ops'[k], channelSubscriptions[k], left, isDestroyed, online, strays)
    <3>1. /\ astray => strays
          /\ left \in BOOLEAN
          /\ ~strays => Joins(ops[k][n]) /\ ~member[k] /\ ~left
          /\ KeyHolds(ops[k], channelSubscriptions[k], member[k], isDestroyed, online, astray)
      BY <1>6, <1>7, <1>10, <2>1
    <3>2. QED
      BY <1>1, <1>2, <1>3, <1>4, <1>7, <3>1, ServerDeniesHolds
  <2>2. QED
    BY <2>1
<1>12. QED
  BY <1>2, <1>5, <1>6, <1>8, <1>9, <1>11, OneKeyAgrees

\* What a chained operation looks like.
LEMMA EnqueuedGrows ==
  ASSUME TypeOK, NEW k \in Keys, NEW kind \in {"subscribe", "unsubscribe"},
         NEW up \in BOOLEAN, NEW aborted \in BOOLEAN
  PROVE  \E p \in Op :
           /\ Enqueued(k, kind, 0, up, aborted) = Append(ops[k], p)
           /\ p.kind = kind
           /\ \/ p.stage = "queued" /\ p.wire = "none"
              \/ p.stage = "awaiting" /\ p.wire = Emitted(up)
              \/ p.stage = "done" /\ p.wire = "closed"
<1> DEFINE o == NewOp(kind, 0, channelOperationChains[k])
           b == Begun(o, channelSubscriptions[k], up, aborted)
<1>1. /\ o \in Op /\ o.kind = kind /\ o.prev = channelOperationChains[k]
      /\ o.stage = "queued" /\ o.wire = "none"
  BY DEF NewOp, Op, Kind, Stage, Wire, TypeOK
<1>2. /\ b \in Op /\ b.kind = kind
      /\ \/ b.stage = "awaiting" /\ b.wire = Emitted(up)
         \/ b.stage = "done" /\ b.wire = "closed"
  <2> HIDE DEF o
  <2>1. QED
    BY <1>1 DEF Begun, Emitted, Op, Stage, Wire
<1>3. Enqueued(k, kind, 0, up, aborted) =
        Append(ops[k], IF channelOperationChains[k] = 0 THEN b ELSE o)
  BY <1>1 DEF Enqueued
<1> HIDE DEF o, b
<1>4. QED
  BY <1>1, <1>2, <1>3

\* subscribeChannel and unsubscribeChannel.
LEMMA CallAgrees ==
  ASSUME AgreementInv, IInv', NEW k \in Keys, NEW kind \in {"subscribe", "unsubscribe"},
         Call(k, kind)
  PROVE  AgreementInv'
<1>0. TypeOK
  BY DEF AgreementInv, IInv
<1>1. PICK aborted \in BOOLEAN :
        ops' = [ops EXCEPT ![k] = Enqueued(k, kind, 0, online, aborted)]
  BY DEF Call, MayBeAborted
<1>2. PICK p \in Op :
        /\ Enqueued(k, kind, 0, online, aborted) = Append(ops[k], p)
        /\ p.kind = kind
        /\ \/ p.stage = "queued" /\ p.wire = "none"
           \/ p.stage = "awaiting" /\ p.wire = Emitted(online)
           \/ p.stage = "done" /\ p.wire = "closed"
  <2>1. online \in BOOLEAN /\ TypeOK
    BY <1>0 DEF TypeOK
  <2>2. QED
    BY <2>1, EnqueuedGrows
<1>3. /\ ops'[k] = Append(ops[k], p)
      /\ \A j \in Keys \ {k} : ops'[j] = ops[j]
  BY <1>0, <1>1, <1>2 DEF TypeOK
<1>4. PICK m : Grows(ops[k], ops'[k], m) /\ ops'[k][m] = p
  BY <1>0, <1>3, GrowsByOne DEF TypeOK
<1>5. UNCHANGED <<channelSubscriptions, connection, isDestroyed, member, attached, strayed>>
  BY DEF Call, server
<1>6. /\ KeyHolds(ops[k], channelSubscriptions[k], member[k], isDestroyed, online, Strayed(k))
      /\ online \in BOOLEAN /\ ~isDestroyed
      /\ member[k] => attached
  BY KeyBefore DEF Call
<1>7. KeyHolds(ops'[k], channelSubscriptions[k], member[k], isDestroyed, online, Strayed(k))
  <2>1. /\ ops'[k][m].kind \in {"subscribe", "unsubscribe"}
        /\ \/ ops'[k][m].stage = "queued" /\ ops'[k][m].wire = "none"
           \/ ops'[k][m].stage = "done" /\ ops'[k][m].wire = "closed"
           \/ ops'[k][m].stage = "awaiting" /\ ops'[k][m].wire = Emitted(online)
    BY <1>2, <1>4
  <2>2. QED
    BY <1>4, <1>6, <2>1, CallHolds
<1>8. Strayed(k)' = Strayed(k)
  BY <1>5 DEF Strayed
<1>9. QED
  BY <1>3, <1>5, <1>6, <1>7, <1>8, OneKeyAgrees DEF AgreementInv, SessionInv

\* destroy().
LEMMA DestroyAgrees ==
  ASSUME AgreementInv, IInv', Destroy
  PROVE  AgreementInv'
<1>0. TypeOK /\ isDestroyed = FALSE /\ isDestroyed' = TRUE
  BY DEF AgreementInv, IInv, TypeOK, Destroy
<1>1. UNCHANGED <<shouldResubscribe, online, member, attached, strayed>>
  BY DEF Destroy, connection, server
<1>2. ASSUME NEW k \in Keys
      PROVE  KeyInv(k)'
  <2>1. /\ ops[k] \in Seq(Op) /\ online \in BOOLEAN
        /\ KeyHolds(ops[k], channelSubscriptions[k], member[k], FALSE, online, Strayed(k))
        /\ member[k] => attached
    BY <1>0, KeyBefore
  <2>2. PICK u \in Op : u = Undo(online) /\ u.kind = "undo" /\ u.stage = "detached"
    BY <1>0, UndoFacts DEF TypeOK
  <2>3. u.wire = Emitted(online)
    BY <2>2 DEF Undo, NewOp
  <2>4. /\ channelSubscriptions[k] = 0 => ops'[k] = ops[k]
        /\ channelSubscriptions[k] # 0 => ops'[k] = Append(ops[k], u)
        /\ channelSubscriptions'[k] = 0
    BY <2>2 DEF Destroy
  <2>5. channelSubscriptions[k] # 0 =>
          \E m : /\ Grows(ops[k], ops'[k], m)
                 /\ ops'[k][m].kind = "undo" /\ ops'[k][m].stage = "detached"
                 /\ ops'[k][m].wire = Emitted(online)
    <3>1. Grows(ops[k], Append(ops[k], u), Len(ops[k]) + 1)
      BY <2>1, GrowsByOne
    <3>2. Append(ops[k], u)[Len(ops[k]) + 1] = u
      BY <2>1, GrowsByOne
    <3>3. QED
      BY <2>2, <2>3, <2>4, <3>1, <3>2
  <2>6. KeyHolds(ops'[k], 0, member[k], TRUE, online, Strayed(k))
    BY <2>1, <2>4, <2>5, DestroyHolds
  <2>7. Strayed(k)' = Strayed(k)
    BY <1>1 DEF Strayed
  <2>8. QED
    BY <1>0, <1>1, <2>1, <2>4, <2>6, <2>7 DEF KeyInv
<1>3. SessionInv'
  BY <1>1 DEF AgreementInv, SessionInv, Destroy
<1>4. QED
  BY <1>2, <1>3 DEF AgreementInv

\* A session starts.
LEMMA ConnectAgrees ==
  ASSUME AgreementInv, IInv', Connect
  PROVE  AgreementInv'
<1>0. TypeOK /\ ~online /\ ~attached /\ strayed = {} /\ strayed' = strayed /\ online' = TRUE
  BY DEF AgreementInv, IInv, SessionInv, Connect
<1>1. UNCHANGED <<channelSubscriptions, isDestroyed, member>>
  BY DEF Connect
<1>2. ASSUME NEW k \in Keys
      PROVE  KeyInv(k)'
  <2>1. /\ ops[k] \in Seq(Op) /\ channelSubscriptions[k] \in Nat
        /\ isDestroyed \in BOOLEAN /\ online \in BOOLEAN
        /\ KeyHolds(ops[k], channelSubscriptions[k], member[k], isDestroyed, online, Strayed(k))
        /\ isDestroyed => channelSubscriptions[k] = 0
        /\ member[k] \in BOOLEAN /\ ~member[k]
    BY <1>0, KeyBefore
  <2>2. ~Strayed(k) /\ Strayed(k)' = Strayed(k)
    BY <1>0 DEF Strayed
  <2>3. k \in ToResubscribe <=> channelSubscriptions[k] # 0
    BY <1>0, <2>1 DEF ToResubscribe, AgreementInv, SessionInv
  <2>4. PICK p \in Op :
          /\ Enqueued(k, "resubscribe", channelSubscriptions[k], TRUE, FALSE) = Append(ops[k], p)
          /\ p.kind = "resubscribe" /\ p.target = channelSubscriptions[k]
          /\ \/ p.stage = "queued" /\ p.wire = "none"
             \/ p.stage = "awaiting" /\ p.wire = "sent"
    <3> DEFINE o == NewOp("resubscribe", channelSubscriptions[k], channelOperationChains[k])
               b == Begun(o, channelSubscriptions[k], TRUE, FALSE)
    <3>1. /\ o \in Op /\ o.kind = "resubscribe" /\ o.target = channelSubscriptions[k]
          /\ o.stage = "queued" /\ o.wire = "none" /\ o.prev = channelOperationChains[k]
      BY <1>0, <2>1 DEF NewOp, Op, Kind, Stage, Wire, TypeOK
    <3>2. b = [o EXCEPT !.stage = "awaiting", !.wire = "sent"]
      BY <3>1 DEF Begun, Skips, Emitted
    <3>3. Enqueued(k, "resubscribe", channelSubscriptions[k], TRUE, FALSE) =
            Append(ops[k], IF channelOperationChains[k] = 0 THEN b ELSE o)
      BY <3>1 DEF Enqueued
    <3> HIDE DEF b, o
    <3>4. /\ b \in Op /\ b.kind = "resubscribe" /\ b.target = channelSubscriptions[k]
          /\ b.stage = "awaiting" /\ b.wire = "sent"
      BY <3>1, <3>2 DEF Op, Stage, Wire
    <3>5. QED
      BY <3>1, <3>3, <3>4
  <2>5. PICK q \in Seq(Op) : /\ channelSubscriptions[k] = 0 => q = ops[k]
                             /\ channelSubscriptions[k] # 0 => q = Append(ops[k], p)
    <3>1. Append(ops[k], p) \in Seq(Op)
      BY <2>1
    <3>2. QED
      BY <2>1, <3>1
  <2>6. ops'[k] = AfterFlush(q)
    BY <2>3, <2>4, <2>5 DEF Connect
  <2>7. /\ DOMAIN ops'[k] = DOMAIN q
        /\ \A i \in DOMAIN q :
             /\ ops'[k][i].kind = q[i].kind /\ ops'[k][i].target = q[i].target
             /\ ops'[k][i].stage = q[i].stage
             /\ q[i].wire = "buffered" => ops'[k][i].wire = "sent"
             /\ q[i].wire # "buffered" => ops'[k][i].wire = q[i].wire
    <3>1. \A i \in DOMAIN q : q[i] \in Op
      BY OpsUnfolded
    <3>2. QED
      BY <2>6, <3>1 DEF AfterFlush, Op
  <2>8. /\ DOMAIN ops[k] \subseteq DOMAIN q
        /\ \A i \in DOMAIN ops[k] : q[i] = ops[k][i]
        /\ \A m \in DOMAIN q \ DOMAIN ops[k] : channelSubscriptions[k] # 0 /\ q[m] = p
        /\ channelSubscriptions[k] # 0 => DOMAIN q \ DOMAIN ops[k] # {}
    <3>1. CASE channelSubscriptions[k] = 0
      BY <2>5, <3>1
    <3>2. CASE channelSubscriptions[k] # 0
      <4>1. q = Append(ops[k], p)
        BY <2>5, <3>2
      <4>2. Grows(ops[k], q, Len(ops[k]) + 1) /\ q[Len(ops[k]) + 1] = p
        BY <2>1, <4>1, GrowsByOne
      <4>3. QED
        BY <3>2, <4>2 DEF Grows
    <3>3. QED
      BY <3>1, <3>2
  <2>9. Flushes(ops[k], ops'[k])
    BY <2>7, <2>8 DEF Flushes
  <2>10. Restores(ops[k], ops'[k], channelSubscriptions[k])
    BY <2>4, <2>7, <2>8 DEF Restores
  <2>11. KeyHolds(ops'[k], channelSubscriptions[k], member[k], isDestroyed, online', Strayed(k))
    <3>1. ASSUME NEW s, s = ops[k], NEW r, r = ops'[k], NEW sub, sub = channelSubscriptions[k],
                 NEW joined \in BOOLEAN, joined = member[k], NEW up \in BOOLEAN, up = online,
                 NEW next \in BOOLEAN, next = online', NEW astray, astray = Strayed(k)
          PROVE  KeyHolds(r, sub, joined, isDestroyed, next, astray)
      <4>1. /\ KeyHolds(s, sub, joined, isDestroyed, up, astray)
            /\ ~joined /\ ~up /\ ~astray /\ next
            /\ isDestroyed \in BOOLEAN /\ (isDestroyed => sub = 0)
        BY <1>0, <2>1, <2>2, <3>1
      <4>2. Flushes(s, r) /\ Restores(s, r, sub)
        BY <2>9, <2>10, <3>1
      <4>3. QED
        BY <4>1, <4>2, ConnectHolds
    <3>2. QED
      BY <1>0, <2>1, <3>1
  <2>12. QED
    BY <1>1, <2>1, <2>2, <2>11 DEF KeyInv
<1>3. SessionInv'
  BY <1>0 DEF AgreementInv, SessionInv
<1>4. QED
  BY <1>2, <1>3 DEF AgreementInv

\* A session breaks.
LEMMA DisconnectAgrees ==
  ASSUME AgreementInv, IInv', Disconnect
  PROVE  AgreementInv'
<1>0. /\ TypeOK /\ online /\ online' = FALSE /\ strayed' = {} /\ attached' = FALSE
      /\ UNCHANGED <<channelSubscriptions, isDestroyed>>
      /\ \A k \in Keys : member'[k] = FALSE
  BY DEF AgreementInv, IInv, Disconnect
<1>1. ASSUME NEW k \in Keys
      PROVE  KeyInv(k)'
  <2>1. /\ ops[k] \in Seq(Op) /\ isDestroyed \in BOOLEAN /\ online \in BOOLEAN
        /\ KeyHolds(ops[k], channelSubscriptions[k], member[k], isDestroyed, online, Strayed(k))
    BY KeyBefore
  <2>2. Loses(ops[k], ops'[k])
    <3>1. ops'[k] = AfterLoss(ops[k])
      BY DEF Disconnect
    <3>2. \A i \in DOMAIN ops[k] : ops[k][i] \in Op
      BY <2>1, OpsUnfolded
    <3>3. QED
      BY <3>1, <3>2 DEF AfterLoss, Op, Loses
  <2>3. KeyHolds(ops'[k], channelSubscriptions[k], member'[k], isDestroyed, online', Strayed(k)')
    <3>1. ASSUME NEW s, s = ops[k], NEW r, r = ops'[k], NEW sub, sub = channelSubscriptions[k],
                 NEW joined, joined = member[k], NEW up \in BOOLEAN, up = online,
                 NEW next \in BOOLEAN, next = online', NEW astray, astray = Strayed(k),
                 NEW left, left = member'[k], NEW strays, strays = Strayed(k)'
          PROVE  KeyHolds(r, sub, left, isDestroyed, next, strays)
      <4>1. /\ KeyHolds(s, sub, joined, isDestroyed, up, astray)
            /\ up /\ ~next /\ isDestroyed \in BOOLEAN
        BY <1>0, <2>1, <3>1
      <4>2. Loses(s, r)
        BY <2>2, <3>1
      <4>3. QED
        BY <4>1, <4>2, LossHolds
    <3>2. QED
      BY <1>0, <2>1, <3>1
  <2>4. QED
    BY <1>0, <2>3 DEF KeyInv
<1>2. SessionInv'
  <2>1. channelSubscriptions'= channelSubscriptions /\ shouldResubscribe' = (shouldResubscribe \/ ~isDestroyed)
    BY DEF Disconnect
  <2>2. isDestroyed => \A k \in Keys : channelSubscriptions[k] = 0
    BY DEF AgreementInv, IInv, NoSubscriptionAfterDestroy
  <2>3. QED
    BY <1>0, <2>1, <2>2 DEF SessionInv
<1>3. QED
  BY <1>1, <1>2 DEF AgreementInv

\* The steps that touch no key: an announced attempt, the handlers of a session, and
\* none at all.
LEMMA QuietStepsAgree ==
  ASSUME AgreementInv, IInv', ReconnectAttempt \/ Attach \/ UNCHANGED vars
  PROVE  AgreementInv'
<1>1. /\ UNCHANGED <<channelSubscriptions, ops, isDestroyed, member, online, strayed>>
      /\ attached => attached'
      /\ shouldResubscribe => shouldResubscribe'
      /\ attached' => online
  BY DEF ReconnectAttempt, Attach, vars, client, connection, server, AgreementInv, SessionInv
<1>2. SessionInv'
  BY <1>1 DEF AgreementInv, SessionInv
<1>3. ASSUME NEW k \in Keys
      PROVE  KeyInv(k)'
  <2>1. Strayed(k)' = Strayed(k)
    BY <1>1 DEF Strayed
  <2>2. QED
    BY <1>1, <2>1 DEF AgreementInv, KeyInv
<1>4. QED
  BY <1>2, <1>3 DEF AgreementInv

\* At first there is nothing to agree about.
LEMMA InitAgrees == Init => AgreementInv
<1> SUFFICES ASSUME Init PROVE AgreementInv
  OBVIOUS
<1>1. IInv
  BY InitInv
<1>2. SessionInv
  BY DEF Init, SessionInv
<1>3. ASSUME NEW k \in Keys
      PROVE  KeyInv(k)
  <2>1. /\ DOMAIN ops[k] = {} /\ member[k] = FALSE /\ online = FALSE
        /\ isDestroyed = FALSE
    BY DEF Init
  <2>2. RequestsFit(ops[k], online) /\ StoredIsRestored(ops[k], channelSubscriptions[k], isDestroyed)
        /\ UndoFollows(ops[k], isDestroyed)
    BY <2>1 DEF RequestsFit, StoredIsRestored, UndoFollows
  <2>3. QED
    BY <2>1, <2>2 DEF KeyInv, KeyHolds
<1>4. QED
  BY <1>1, <1>2, <1>3 DEF AgreementInv

\* Every step, and every stutter, keeps the agreement.
LEMMA NextAgrees == AgreementInv /\ [Next]_vars => AgreementInv'
<1> SUFFICES ASSUME AgreementInv, [Next]_vars
             PROVE  AgreementInv'
  OBVIOUS
<1>0. IInv'
  BY NextInv DEF AgreementInv
<1>1. ASSUME NEW k \in Keys, NEW kind \in {"subscribe", "unsubscribe"}, Call(k, kind)
      PROVE  AgreementInv'
  BY <1>0, <1>1, CallAgrees
<1>2. ASSUME NEW k \in Keys, NEW n \in DOMAIN ops[k], Step(k, n)
      PROVE  AgreementInv'
  BY <1>0, <1>2, TakeTurnAgrees, FailuresAgree, EndsAgree, GrantAgrees, LateGrantAgrees,
     MissAgrees, ServerGrantsAgrees, ServerDeniesAgrees DEF Step
<1>3. CASE Connect
  BY <1>0, <1>3, ConnectAgrees
<1>4. CASE Disconnect
  BY <1>0, <1>4, DisconnectAgrees
<1>5. CASE Destroy
  BY <1>0, <1>5, DestroyAgrees
<1>6. CASE ReconnectAttempt \/ Attach \/ UNCHANGED vars
  BY <1>0, <1>6, QuietStepsAgree
<1>7. QED
  BY <1>1, <1>2, <1>3, <1>4, <1>5, <1>6 DEF Next

(***************************************************************************)
(* The theorems on client and server.                                      *)
(***************************************************************************)

\* Client, wire and server stay reconciled, key by key, through reconnects, denials,
\* lost requests, late answers and destroy.
THEOREM AgreementInvariance == Spec => []AgreementInv
BY InitAgrees, NextAgrees, PTL DEF Spec

\* When nothing is under way on a live session, channelSubscriptions and the memberships
\* of the server name the same channels, except where the session has a recorded fault.
THEOREM Agreement == Spec => []AgreementAtRest
<1>1. AgreementInv => AgreementAtRest
  <2> SUFFICES ASSUME AgreementInv, online, AtRest, NEW k \in Keys,
                      \A fault \in Faults : <<k, fault>> \notin strayed
               PROVE  (channelSubscriptions[k] # 0) = member[k]
    BY DEF AgreementAtRest
  <2>1. ~Strayed(k)
    BY DEF AgreementInv, SessionInv, Strayed
  <2>2. /\ KeyHolds(ops[k], channelSubscriptions[k], member[k], isDestroyed, online, Strayed(k))
        /\ member[k] \in BOOLEAN
    BY KeyBefore
  <2>3. \A n \in DOMAIN ops[k] : ops[k][n].stage = "done" /\ ops[k][n].wire \in {"closed", "lost"}
    BY DEF AtRest
  <2>4. ~Doomed(ops[k], member[k])
    BY <2>3 DEF Doomed
  <2>5. Reconciled(ops[k], channelSubscriptions[k], member[k], isDestroyed)
    BY <2>1, <2>2, <2>4 DEF KeyHolds
  <2>6. ~(channelSubscriptions[k] = 0 /\ member[k]) /\ ~(channelSubscriptions[k] # 0 /\ ~member[k])
    BY <2>3, <2>5 DEF Reconciled
  <2>7. QED
    BY <2>2, <2>6
<1>2. QED
  BY <1>1, AgreementInvariance, PTL
===============================================================================
