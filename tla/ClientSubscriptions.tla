-------------------------- MODULE ClientSubscriptions --------------------------
(***************************************************************************)
(* Channel subscriptions of the client runtime: subscribeChannel,          *)
(* unsubscribeChannel, the per-key operation chain, resubscription after a *)
(* reconnect, and destroy (packages/client/src/runtime/index.ts), over a   *)
(* transport that buffers while offline and loses what a broken session    *)
(* had under way (packages/client/src/socket-io/index.ts).                 *)
(*                                                                         *)
(* The n-th operation on a key is ops[key][n]; a subscription object is    *)
(* named by the subscribe operation that created it.  A step of an         *)
(* operation ends where it awaits its predecessor or the transport.        *)
(* An operation settles in the step that runs its continuation and the     *)
(* finally of its chain entry: microtasks of one turn.                     *)
(***************************************************************************)
EXTENDS Naturals, Sequences, FiniteSets

CONSTANTS
  Keys,           \* channel instances, as subscription keys
  MaxCalls,       \* bound: subscribe and unsubscribe calls per key
  MaxSessions,    \* bound: transport sessions
  Faults          \* what the environment does beyond losing sessions:
                  \*   "giveUp"   a timer or an abort signal beats a live request
                  \*   "reorder"  the server finishes requests of a key out of order
                  \*   "leave"    the server answers a leave with an error
                  \*   "verdict"  a join of a present member is denied, which may
                  \*              take the membership with it
                  \*   "unready"  a session starts before its server handlers
                  \*              are registered

ASSUME KeysAssumption == 0 \notin Keys
ASSUME BoundsAssumption == MaxCalls \in Nat /\ MaxSessions \in Nat
ASSUME FaultsAssumption ==
  Faults \subseteq {"giveUp", "reorder", "leave", "verdict", "unready"}

VARIABLES
  channelSubscriptions,  \* key -> the subscription, 0 when there is none
  ops,                   \* key -> its operations, oldest first
  channelOperationChains,\* key -> the operation to wait for, 0 when none
  shouldResubscribe,     \* flag of the connection receiver
  isDestroyed,
  online,                \* the transport has a session with the server
  session,               \* number of sessions so far
  member,                \* key -> the server counts this session as a member
  attached,              \* the server has registered the handlers of the session
  strayed                \* <<key, fault>> that happened in this session
                         \* (history, read by the properties alone)

client == <<channelSubscriptions, ops, channelOperationChains>>
connection == <<shouldResubscribe, online, session>>
server == <<member, attached, strayed>>
vars == <<client, connection, isDestroyed, server>>

Kind == {"subscribe", "unsubscribe", "resubscribe", "undo"}

\* queued: waits for its predecessor; awaiting: waits for the transport;
\* announcing: tells user code that it failed; detached: nobody waits for its
\* transport call; done: its promise settled.
Stage == {"queued", "awaiting", "announcing", "detached", "done"}

\* Where the request of an operation is.  closed: answered or never sent.
Wire == {"none", "buffered", "sent", "granted", "denied", "lost", "closed"}

Op == [kind : Kind, target : Nat, prev : Nat, stage : Stage, wire : Wire]

TypeOK ==
  /\ channelSubscriptions \in [Keys -> Nat]
  /\ ops \in [Keys -> Seq(Op)]
  /\ channelOperationChains \in [Keys -> Nat]
  /\ shouldResubscribe \in BOOLEAN
  /\ isDestroyed \in BOOLEAN
  /\ online \in BOOLEAN
  /\ session \in Nat
  /\ member \in [Keys -> BOOLEAN]
  /\ attached \in BOOLEAN
  /\ strayed \in SUBSET (Keys \X {"giveUp", "reorder", "leave", "verdict"})

Init ==
  /\ channelSubscriptions = [k \in Keys |-> 0]
  /\ ops = [k \in Keys |-> <<>>]
  /\ channelOperationChains = [k \in Keys |-> 0]
  /\ shouldResubscribe = FALSE
  /\ isDestroyed = FALSE
  /\ online = FALSE
  /\ session = 0
  /\ member = [k \in Keys |-> FALSE]
  /\ attached = FALSE
  /\ strayed = {}

(***************************************************************************)
(* Operations and their chain.                                             *)
(***************************************************************************)

\* The error hook or a listener of join_failed is on the stack: nothing else runs in
\* the client but what it calls.
Announcing == \E k \in Keys : \E n \in DOMAIN ops[k] : ops[k][n].stage = "announcing"

\* What a transport call does with its request now.
Emitted(up) == IF up THEN "sent" ELSE "buffered"

\* The operation has nothing to ask of the transport: already subscribed, not
\* subscribed, or the subscription to restore is not the current one.
Skips(o, sub) ==
  \/ o.kind = "subscribe" /\ sub # 0
  \/ o.kind = "unsubscribe" /\ sub = 0
  \/ o.kind = "resubscribe" /\ sub # o.target

\* The abort signal of a call may be raised before its turn comes.
MayBeAborted(kind) ==
  IF "giveUp" \in Faults /\ kind # "resubscribe" THEN BOOLEAN ELSE {FALSE}

\* The operation when its turn comes, up to its transport call.
Begun(o, sub, up, aborted) ==
  IF aborted \/ Skips(o, sub)
  THEN [o EXCEPT !.stage = "done", !.wire = "closed"]
  ELSE [o EXCEPT !.stage = "awaiting", !.wire = Emitted(up)]

\* Mutant: the finally of an operation deletes whatever entry is there.
DropChain(chain, n) == 0

\* The chain entry once operation n has settled: only its own entry goes.
ChainAfter(chain, n) == IF chain = n THEN 0 ELSE chain

\* Mutant: the two states of a new operation are swapped.
MixedUpOp(kind, target, prev) ==
  [kind |-> kind, target |-> target, prev |-> prev,
   stage |-> "none", wire |-> "queued"]

NewOp(kind, target, prev) ==
  [kind |-> kind, target |-> target, prev |-> prev,
   stage |-> "queued", wire |-> "none"]

\* enqueueChannelOperation: an operation begins at once when nothing is chained.
Enqueued(k, kind, target, up, aborted) ==
  LET o == NewOp(kind, target, channelOperationChains[k])
  IN  Append(ops[k], IF o.prev = 0
                     THEN Begun(o, channelSubscriptions[k], up, aborted)
                     ELSE o)

\* The chain entry once these are the operations: the last one, unless it settled
\* at once.
ChainWith(q) == IF q[Len(q)].stage = "done" THEN 0 ELSE Len(q)

\* The bound on calls; resubscriptions and undos are bounded by sessions.
MayCall(k) ==
  Cardinality({n \in DOMAIN ops[k] : ops[k][n].kind \in {"subscribe", "unsubscribe"}})
    < MaxCalls

\* subscribeChannel and unsubscribeChannel with a valid key.
Call(k, kind) ==
  /\ ~isDestroyed
  /\ MayCall(k)
  /\ \E aborted \in MayBeAborted(kind) :
       ops' = [ops EXCEPT ![k] = Enqueued(k, kind, 0, online, aborted)]
  /\ channelOperationChains' =
       [channelOperationChains EXCEPT ![k] = ChainWith(ops'[k])]
  /\ UNCHANGED <<channelSubscriptions, connection, isDestroyed, server>>

\* A queued operation whose predecessor settled: it rejects when the runtime was
\* destroyed meanwhile, else it begins.
TakeTurn(k, n) ==
  LET o == ops[k][n]
  IN  /\ o.stage = "queued"
      /\ ~Announcing
      /\ ops[k][o.prev].stage = "done"
      /\ \E aborted \in MayBeAborted(o.kind) :
           ops' = [ops EXCEPT ![k][n] =
             Begun(o, channelSubscriptions[k], online, aborted \/ isDestroyed)]
      /\ channelOperationChains' =
           IF ops'[k][n].stage = "done"
           THEN [channelOperationChains EXCEPT ![k] = ChainAfter(@, n)]
           ELSE channelOperationChains
      /\ UNCHANGED <<channelSubscriptions, connection, isDestroyed, server>>

\* Mutant: a failed resubscription keeps the subscription.
KeptAlways(o, sub) == sub

\* What is left of the subscription of a key when an operation fails.
KeptOnFailure(o, sub) == IF o.kind = "resubscribe" THEN 0 ELSE sub

\* The awaited transport call rejects, times out or is aborted; the request may
\* still be on its way.  A call rejects; a resubscription has no caller, and tells
\* the error hook and the listeners of join_failed first.
Fail(k, n, wire) ==
  LET announces == ops[k][n].kind = "resubscribe"
  IN  /\ ops' = [ops EXCEPT ![k][n].stage = IF announces THEN "announcing" ELSE "done",
                            ![k][n].wire = wire]
      /\ channelSubscriptions' =
           [channelSubscriptions EXCEPT ![k] = KeptOnFailure(ops[k][n], @)]
      /\ channelOperationChains' =
           IF announces THEN channelOperationChains
           ELSE [channelOperationChains EXCEPT ![k] = ChainAfter(@, n)]

\* The hook and the listeners have returned or thrown; what they called is chained
\* behind this operation.
EndAnnouncement(k, n) ==
  /\ ops[k][n].stage = "announcing"
  /\ ops' = [ops EXCEPT ![k][n].stage = "done"]
  /\ channelOperationChains' =
       [channelOperationChains EXCEPT ![k] = ChainAfter(@, n)]
  /\ UNCHANGED <<channelSubscriptions, connection, isDestroyed, server>>

\* Timer or signal settles the operation before its answer does.
GiveUp(k, n) ==
  /\ ops[k][n].stage = "awaiting"
  /\ ~Announcing
  /\ Fail(k, n, ops[k][n].wire)
  /\ strayed' = IF ops[k][n].wire = "granted" THEN strayed \cup {<<k, "giveUp">>} ELSE strayed
  /\ UNCHANGED <<connection, isDestroyed, member, attached>>

TimeOut(k, n) ==
  /\ "giveUp" \in Faults \/ ops[k][n].wire = "lost"
  /\ GiveUp(k, n)

\* A resubscription has no signal.
Abort(k, n) ==
  /\ "giveUp" \in Faults
  /\ ops[k][n].kind # "resubscribe"
  /\ GiveUp(k, n)

\* A late subscribe answer reached a destroyed runtime: leave again, unawaited.
Undo(up) == [NewOp("undo", 0, 0) EXCEPT !.stage = "detached", !.wire = Emitted(up)]

\* Mutant: a late answer is stored without a look at isDestroyed.
SubscribeAnyway(k, n) ==
  /\ ops' = [ops EXCEPT ![k][n].stage = "done", ![k][n].wire = "closed"]
  /\ channelSubscriptions' = [channelSubscriptions EXCEPT ![k] = n]

\* The transport call of a subscribe resolves.
SubscribeSucceeds(k, n) ==
  LET settled == [ops[k] EXCEPT ![n].stage = "done", ![n].wire = "closed"]
  IN  IF isDestroyed
      THEN /\ ops' = [ops EXCEPT ![k] = Append(settled, Undo(online))]
           /\ UNCHANGED channelSubscriptions
      ELSE /\ ops' = [ops EXCEPT ![k] = settled]
           /\ channelSubscriptions' = [channelSubscriptions EXCEPT ![k] = n]

\* The transport call of an unsubscribe or a resubscribe resolves.
OtherSucceeds(k, n) ==
  /\ ops' = [ops EXCEPT ![k][n].stage = "done", ![k][n].wire = "closed"]
  /\ channelSubscriptions' =
       IF ops[k][n].kind = "unsubscribe"
       THEN [channelSubscriptions EXCEPT ![k] = 0]
       ELSE channelSubscriptions

\* A positive answer reaches the operation that awaits it.
ReceiveGrant(k, n) ==
  /\ ops[k][n].wire = "granted"
  /\ ops[k][n].stage = "awaiting"
  /\ ~Announcing
  /\ IF ops[k][n].kind = "subscribe"
     THEN SubscribeSucceeds(k, n)
     ELSE OtherSucceeds(k, n)
  /\ channelOperationChains' =
       [channelOperationChains EXCEPT ![k] = ChainAfter(@, n)]
  /\ UNCHANGED <<connection, isDestroyed, server>>

\* A negative answer reaches the operation that awaits it.
ReceiveDenial(k, n) ==
  /\ ops[k][n].wire = "denied"
  /\ ops[k][n].stage = "awaiting"
  /\ ~Announcing
  /\ Fail(k, n, "closed")
  /\ UNCHANGED <<connection, isDestroyed, server>>

\* An answer nobody awaits any more is dropped.
DropAnswer(k, n) ==
  /\ ops[k][n].wire \in {"granted", "denied"}
  /\ ops[k][n].stage \in {"done", "detached"}
  /\ ~Announcing
  /\ ops' = [ops EXCEPT ![k][n].stage = "done", ![k][n].wire = "closed"]
  /\ UNCHANGED <<channelSubscriptions, channelOperationChains, connection,
                 isDestroyed, server>>

(***************************************************************************)
(* The connection receiver.                                                *)
(***************************************************************************)

\* The requests of a key when the session ends: what was under way is lost.
AfterLoss(q) ==
  [n \in DOMAIN q |->
     IF q[n].wire \in {"sent", "granted", "denied"}
     THEN [q[n] EXCEPT !.wire = "lost",
                       !.stage = IF @ = "detached" THEN "done" ELSE @]
     ELSE q[n]]

\* The requests of a key when a session starts: what was buffered is sent.
AfterFlush(q) ==
  [n \in DOMAIN q |->
     IF q[n].wire = "buffered" THEN [q[n] EXCEPT !.wire = "sent"] ELSE q[n]]

\* Mutant: a reconnect schedules nothing.
ResubscribeNothing == {}

\* The keys whose subscription a connected event schedules again.
ToResubscribe ==
  IF shouldResubscribe /\ ~isDestroyed
  THEN {k \in Keys : channelSubscriptions[k] # 0}
  ELSE {}

\* The transport connects; the receiver schedules one resubscription per stored
\* subscription if the connection had been lost.
Connect ==
  /\ ~online
  /\ ~Announcing
  /\ session < MaxSessions
  /\ online' = TRUE
  /\ session' = session + 1
  /\ shouldResubscribe' = (shouldResubscribe /\ isDestroyed)
  /\ ops' = [k \in Keys |-> AfterFlush(
                IF k \in ToResubscribe
                THEN Enqueued(k, "resubscribe", channelSubscriptions[k], TRUE, FALSE)
                ELSE ops[k])]
  /\ channelOperationChains' = [k \in Keys |->
                IF k \in ToResubscribe
                THEN ChainWith(ops'[k])
                ELSE channelOperationChains[k]]
  /\ attached' = ("unready" \notin Faults)
  /\ UNCHANGED <<channelSubscriptions, isDestroyed, member, strayed>>

\* The session breaks; the server forgets its memberships.
Disconnect ==
  /\ online
  /\ online' = FALSE
  /\ shouldResubscribe' = (shouldResubscribe \/ ~isDestroyed)
  /\ ops' = [k \in Keys |-> AfterLoss(ops[k])]
  /\ member' = [k \in Keys |-> FALSE]
  /\ attached' = FALSE
  /\ strayed' = {}
  /\ UNCHANGED <<channelSubscriptions, channelOperationChains, session, isDestroyed>>

\* A transport that announces its attempts reports "reconnecting".
ReconnectAttempt ==
  /\ ~online
  /\ ~Announcing
  /\ ~isDestroyed
  /\ shouldResubscribe' = TRUE
  /\ UNCHANGED <<client, online, session, isDestroyed, server>>

\* destroy(): every stored subscription is left without awaiting the answer, the
\* maps are cleared, the receivers unbound.  The socket itself stays with its
\* owner.
Destroy ==
  /\ ~isDestroyed
  /\ isDestroyed' = TRUE
  /\ ops' = [k \in Keys |-> IF channelSubscriptions[k] = 0 THEN ops[k]
                            ELSE Append(ops[k], Undo(online))]
  /\ channelSubscriptions' = [k \in Keys |-> 0]
  /\ channelOperationChains' = [k \in Keys |-> 0]
  /\ UNCHANGED <<connection, server>>

(***************************************************************************)
(* The server, as its Socket.IO adapter answers one session.  A request    *)
(* takes effect in the step that answers it: where the server handles two  *)
(* of a key at once, all but the last were given up or left behind by      *)
(* destroy(), nobody sees their answers, and any order is allowed.         *)
(***************************************************************************)

\* Earlier requests of this session are all handled.
IsNext(k, n) == \A i \in 1 .. n - 1 : ops[k][i].wire # "sent"

\* connectionHandler has awaited onConnect and registers the handlers.
Attach ==
  /\ online
  /\ ~attached
  /\ attached' = TRUE
  /\ UNCHANGED <<client, connection, isDestroyed, member, strayed>>

\* A request that arrives before is dropped: nobody will answer it.  Requests
\* arrive in the order they were sent.
Miss(k, n) ==
  /\ ops[k][n].wire = "sent"
  /\ ~attached
  /\ IsNext(k, n)
  /\ ops' = [ops EXCEPT ![k][n].wire = "lost",
                        ![k][n].stage = IF @ = "detached" THEN "done" ELSE @]
  /\ UNCHANGED <<channelSubscriptions, channelOperationChains, connection,
                 isDestroyed, server>>

Joins(o) == o.kind \in {"subscribe", "resubscribe"}

\* The server answers a request: out of order, or one that was given up, only
\* where that fault is allowed.
Answer(k, n, wire) ==
  /\ ops[k][n].wire = "sent"
  /\ attached
  /\ "reorder" \in Faults \/ IsNext(k, n)
  /\ ops' = [ops EXCEPT ![k][n].wire = wire]
  /\ UNCHANGED <<channelSubscriptions, channelOperationChains, connection, isDestroyed,
                 attached>>

\* A join that passes makes the socket a member, a leave ends that.
ServerGrants(k, n) ==
  /\ Answer(k, n, "granted")
  /\ member' = [member EXCEPT ![k] = Joins(ops[k][n])]
  /\ strayed' = strayed \cup (IF ops[k][n].stage \in {"announcing", "done"}
                             THEN {<<k, "giveUp">>} ELSE {})
                        \cup (IF IsNext(k, n) THEN {} ELSE {<<k, "reorder">>})

\* A join is denied before it touches the membership, or it has replaced a
\* membership that exists, its hook or socket.join fails, and the rollback removes
\* it.  A leave fails before or after the membership was removed.
ServerDenies(k, n) ==
  /\ Answer(k, n, "denied")
  /\ \/ /\ Joins(ops[k][n])
        /\ member[k] => "verdict" \in Faults
        /\ member' \in {member, [member EXCEPT ![k] = FALSE]}
        /\ strayed' = IF member[k] THEN strayed \cup {<<k, "verdict">>} ELSE strayed
     \/ /\ ~Joins(ops[k][n])
        /\ "leave" \in Faults
        /\ member' \in {member, [member EXCEPT ![k] = FALSE]}
        /\ strayed' = strayed \cup {<<k, "leave">>}

Step(k, n) ==
  \/ TakeTurn(k, n)
  \/ TimeOut(k, n)
  \/ Abort(k, n)
  \/ EndAnnouncement(k, n)
  \/ ReceiveGrant(k, n)
  \/ ReceiveDenial(k, n)
  \/ DropAnswer(k, n)
  \/ Miss(k, n)
  \/ ServerGrants(k, n)
  \/ ServerDenies(k, n)

Next ==
  \/ \E k \in Keys :
       \/ \E kind \in {"subscribe", "unsubscribe"} : Call(k, kind)
       \/ \E n \in DOMAIN ops[k] : Step(k, n)
  \/ Connect
  \/ Disconnect
  \/ ReconnectAttempt
  \/ Attach
  \/ Destroy

Spec == Init /\ [][Next]_vars

(***************************************************************************)
(* Safety.                                                                 *)
(***************************************************************************)

\* Operations on one key run one at a time and in the order they were called,
\* whatever settles them and whatever reconnects add to the chain.
Serialized ==
  \A k \in Keys : \A i, j \in DOMAIN ops[k] :
    i < j /\ ops[k][i].kind # "undo" /\ ops[k][j].kind # "undo"
      /\ ops[k][j].stage # "queued" => ops[k][i].stage = "done"

\* Once destroyed, the runtime holds no subscription, although answers to what
\* it asked before keep coming.
NoSubscriptionAfterDestroy ==
  isDestroyed => \A k \in Keys : channelSubscriptions[k] = 0

AtRest ==
  \A k \in Keys : \A n \in DOMAIN ops[k] :
    ops[k][n].stage = "done" /\ ops[k][n].wire \in {"closed", "lost"}

\* When nothing is under way on a live session, the client counts itself as
\* subscribed exactly where the server counts it as a member: after reconnects,
\* denials, lost requests, late answers of earlier sessions and destroy.  The two
\* part only where, in this very session, the server granted what the client had
\* given up, finished requests of one key out of order, refused a leave or
\* refused a join of a present member; the next session mends that.
AgreementAtRest ==
  online /\ AtRest =>
    \A k \in Keys :
      (\A fault \in Faults : <<k, fault>> \notin strayed) =>
        (channelSubscriptions[k] # 0) = member[k]

\* A live runtime gives up a subscription only on the word of an operation of
\* the current session.
ReconnectKeepsSubscriptions ==
  [][\A k \in Keys :
       channelSubscriptions[k] # 0 /\ channelSubscriptions'[k] = 0 /\ ~isDestroyed' =>
         \E n \in DOMAIN ops[k] :
           /\ ops[k][n].stage = "awaiting"
           /\ ops'[k][n].stage \in {"announcing", "done"}
           /\ ops[k][n].wire # "lost"]_vars

(***************************************************************************)
(* Liveness: timers fire, queued operations get their turn, the server     *)
(* registers its handlers and answers, and answers arrive.                 *)
(***************************************************************************)
Fairness ==
  /\ WF_vars(Attach)
  /\ \A k \in Keys : \A n \in 1 .. MaxCalls + MaxSessions :
       WF_vars(n \in DOMAIN ops[k] /\ Step(k, n))

FairSpec == Spec /\ Fairness

\* On a connection that stays up, a stored subscription ends up real: the server
\* has the membership or the client has dropped the subscription.  Two things go
\* unnoticed: a leave whose success the client was not told, because it failed after
\* it left or was given up, and a join that was given up, fails late and takes with
\* it the membership that a later join of the key was granted.
SubscriptionsBecomeReal ==
  \A k \in Keys :
    <>[]online =>
      []<>(\/ channelSubscriptions[k] # 0 => member[k]
           \/ \E fault \in {"leave", "giveUp", "verdict"} : <<k, fault>> \in strayed)

(***************************************************************************)
(* The inductive invariant behind the theorems of                          *)
(* ClientSubscriptions_proofs: the order of the operations q of one key.   *)
(***************************************************************************)

\* Serialized, for one key.
InOrder(q) ==
  \A i, j \in DOMAIN q :
    i < j /\ q[i].kind # "undo" /\ q[j].kind # "undo" /\ q[j].stage # "queued" =>
      q[i].stage = "done"

\* A queued operation waits for the one before it.
WaitsForPrevious(q) ==
  \A n \in DOMAIN q : q[n].stage = "queued" => n > 1 /\ q[n].prev = n - 1

\* Undos come last, and nobody awaits them; everything else is awaited.
UndosAreDetached(q) ==
  /\ \A i, j \in DOMAIN q : i < j /\ q[i].kind = "undo" => q[j].kind = "undo"
  /\ \A n \in DOMAIN q : IF q[n].kind = "undo" THEN q[n].stage \in {"detached", "done"}
                         ELSE q[n].stage # "detached"

\* The chain names the last operation as long as it has not settled; destroy()
\* forgets it, and only then are there undos.
ChainIsLast(q, chain, destroyed) ==
  IF destroyed THEN chain = 0
  ELSE /\ \A n \in DOMAIN q : q[n].kind # "undo"
       /\ IF chain = 0 THEN \A n \in DOMAIN q : q[n].stage = "done"
          ELSE chain = Len(q) /\ q[chain].stage # "done"

Orderly(q, chain, destroyed) ==
  /\ InOrder(q) /\ WaitsForPrevious(q) /\ UndosAreDetached(q)
  /\ ChainIsLast(q, chain, destroyed)

IInv ==
  /\ TypeOK
  /\ \A k \in Keys : Orderly(ops[k], channelOperationChains[k], isDestroyed)
  /\ NoSubscriptionAfterDestroy

(***************************************************************************)
(* What client, wire and server hold of one key: q its operations, sub its *)
(* subscription, joined whether the server counts the session as a member. *)
(***************************************************************************)

Strayed(k) == \E fault \in {"giveUp", "reorder", "leave", "verdict"} : <<k, fault>> \in strayed

GivenUp(o) == o.stage \in {"announcing", "done"}

\* Where a request can be, by the stage of its operation and the session.
RequestsFit(q, up) ==
  \A n \in DOMAIN q :
    /\ q[n].stage = "queued" <=> q[n].wire = "none"
    /\ IF up THEN q[n].wire # "buffered" ELSE q[n].wire \notin {"sent", "granted", "denied"}
    /\ q[n].stage = "awaiting" => q[n].wire # "closed"
    /\ GivenUp(q[n]) => q[n].wire \in {"closed", "lost"} \/ "giveUp" \in Faults
    /\ q[n].kind = "resubscribe" => q[n].target # 0

\* A resubscription under way restores what is stored, unless the runtime was
\* destroyed, which leaves it again: with an undo that follows its request.
StoredIsRestored(q, sub, destroyed) ==
  ~destroyed => \A n \in DOMAIN q :
    q[n].kind = "resubscribe" /\ q[n].stage = "awaiting" => sub # 0

UndoFollows(q, destroyed) ==
  destroyed => \A n \in DOMAIN q :
    q[n].kind = "resubscribe" /\ q[n].stage = "awaiting"
      /\ q[n].wire \in {"buffered", "sent"} =>
        \E u \in DOMAIN q : q[u].kind = "undo" /\ q[u].wire = q[n].wire

\* A join was given up that the server has yet to answer, and the client is a member
\* already: whatever the answer, it strays.
Doomed(q, joined) ==
  joined /\ \E n \in DOMAIN q : Joins(q[n]) /\ GivenUp(q[n]) /\ q[n].wire = "sent"

\* Who is a member without a subscription is about to learn of it or to leave, who
\* has a subscription without a membership about to lose the one or get the other,
\* and an answer on its way to an operation tells what the server did.
Reconciled(q, sub, joined, destroyed) ==
  /\ sub = 0 /\ joined => \E n \in DOMAIN q :
       \/ q[n].kind = "subscribe" /\ q[n].stage = "awaiting" /\ q[n].wire = "granted"
       \/ q[n].kind = "undo" /\ q[n].wire = "sent"
  /\ sub # 0 /\ ~joined => \E n \in DOMAIN q :
       \/ q[n].kind = "unsubscribe" /\ q[n].stage = "awaiting" /\ q[n].wire = "granted"
       \/ /\ q[n].kind = "resubscribe" /\ q[n].target = sub
          /\ q[n].stage \in {"queued", "awaiting"}
  /\ \A n \in DOMAIN q : q[n].stage = "awaiting" =>
       /\ q[n].wire = "granted" /\ ~destroyed => joined = Joins(q[n])
       /\ q[n].wire \in {"denied", "lost"} /\ Joins(q[n]) => ~joined

KeyHolds(q, sub, joined, destroyed, up, astray) ==
  /\ RequestsFit(q, up)
  /\ StoredIsRestored(q, sub, destroyed)
  /\ ~astray => UndoFollows(q, destroyed)
  /\ up /\ ~astray /\ ~Doomed(q, joined) => Reconciled(q, sub, joined, destroyed)

KeyInv(k) ==
  /\ member[k] => attached
  /\ KeyHolds(ops[k], channelSubscriptions[k], member[k], isDestroyed, online, Strayed(k))

\* What all keys share: the server serves a session that is up, only faults that
\* happen stray, and a loss is remembered as long as there is something to restore.
SessionInv ==
  /\ attached => online
  /\ ~online => strayed = {}
  /\ strayed \subseteq Keys \X Faults
  /\ ~online /\ (\E k \in Keys : channelSubscriptions[k] # 0) => shouldResubscribe

AgreementInv ==
  /\ IInv
  /\ SessionInv
  /\ \A k \in Keys : KeyInv(k)
=============================================================================
