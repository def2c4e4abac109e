---------------------------- MODULE ServerChannels ----------------------------
(***************************************************************************)
(* Channel membership of the server runtime: joinChannel, leaveChannel and *)
(* listChannelMembers of packages/server/src/runtime/index.ts.             *)
(*                                                                         *)
(* Any number of calls run interleaved; a step of a call ends where the    *)
(* code awaits (a policy, the authorizer, a lifecycle hook).  A bucket is  *)
(* a JavaScript Map object: a call holds a reference to the object it used *)
(* before an await, and the same channel may have another object after it. *)
(* A bucket is named by the join call that created it, a membership object *)
(* by the join call that built it.                                         *)
(***************************************************************************)
EXTENDS Naturals

CONSTANTS
  Channels,       \* channel instances (contract name plus normalized key)
  Members,        \* member ids
  Calls,          \* identities of joinChannel / leaveChannel invocations
  None,           \* undefined: no bucket, no membership
  NoRequest,      \* the request of a call that has no valid channel
  JoinChecks,     \* per channel: its join policies plus its authorizer
  HasOnJoin,      \* lifecycleHooks.onJoin is registered
  HasOnLeave,     \* lifecycleHooks.onLeave is registered
  OnJoinMayFail   \* the registered onJoin hook may throw or reject

ASSUME NoneAssumption == None \notin Calls
ASSUME JoinChecksAssumption == JoinChecks \in [Channels -> Nat]
ASSUME HooksAssumption ==
  /\ HasOnJoin \in BOOLEAN
  /\ HasOnLeave \in BOOLEAN
  /\ OnJoinMayFail \in BOOLEAN

VARIABLES
  channelMemberships,      \* channel -> its current bucket, or None
  buckets,                 \* bucket -> member -> membership, or None
  activeChannelInstances,  \* channels shown by inspectRuntime
  request,                 \* call -> what it was asked to do
  pc,                      \* call -> where it waits, or how it settled
  passed,                  \* call -> join checks that allowed it so far
  captured,                \* call -> the bucket a join stored its membership in
  leaving                  \* call -> the membership a leave took, for onLeave

store == <<channelMemberships, buckets, activeChannelInstances>>
vars == <<store, request, pc, passed, captured, leaving>>

Request == [op : {"join", "leave"}, channel : Channels, member : Members]

\* The call awaits a check or a hook.
Waiting == {"checking", "onJoin", "onLeave"}
\* The promise of the call is settled.
Settled == {"joined", "refused", "rolledBack", "left", "absent", "leaveFailed"}

TypeOK ==
  /\ channelMemberships \in [Channels -> Calls \cup {None}]
  /\ buckets \in [Calls -> [Members -> Calls \cup {None}]]
  /\ activeChannelInstances \in SUBSET Channels
  /\ request \in [Calls -> Request \cup {NoRequest}]
  /\ pc \in [Calls -> {"idle"} \cup Waiting \cup Settled]
  /\ passed \in [Calls -> Nat]
  /\ captured \in [Calls -> Calls \cup {None}]
  /\ leaving \in [Calls -> Calls \cup {None}]
  /\ \A k \in Calls : pc[k] \in Waiting => request[k] \in Request

Init ==
  /\ channelMemberships = [c \in Channels |-> None]
  /\ buckets = [b \in Calls |-> [m \in Members |-> None]]
  /\ activeChannelInstances = {}
  /\ request = [k \in Calls |-> NoRequest]
  /\ pc = [k \in Calls |-> "idle"]
  /\ passed = [k \in Calls |-> 0]
  /\ captured = [k \in Calls |-> None]
  /\ leaving = [k \in Calls |-> None]

\* The membership object of m in c that a reader of the store finds.
Roster(c, m) ==
  IF channelMemberships[c] = None THEN None
  ELSE buckets[channelMemberships[c]][m]

\* listChannelMembers, and the memberIds of inspectRuntime.
ListChannelMembers(c) == {m \in Members : Roster(c, m) # None}

\* The whole store as its readers see it.
RosterView == [c \in Channels |-> [m \in Members |-> Roster(c, m)]]

\* Mutant: every join replaces the bucket of its channel.
StoreInFreshBucket(k, c, m) ==
  /\ channelMemberships' = [channelMemberships EXCEPT ![c] = k]
  /\ activeChannelInstances' = activeChannelInstances \cup {c}
  /\ buckets' = [buckets EXCEPT ![k][m] = k]
  /\ captured' = [captured EXCEPT ![k] = k]
  /\ pc' = [pc EXCEPT ![k] = IF HasOnJoin THEN "onJoin" ELSE "joined"]

\* The synchronous part of joinChannel after its last check: get or create the
\* bucket, mark the channel active, store the membership, start onJoin.
StoreMembership(k, c, m) ==
  LET b == IF channelMemberships[c] = None THEN k ELSE channelMemberships[c]
  IN  /\ channelMemberships' = [channelMemberships EXCEPT ![c] = b]
      /\ activeChannelInstances' = activeChannelInstances \cup {c}
      /\ buckets' = [buckets EXCEPT ![b][m] = k]
      /\ captured' = [captured EXCEPT ![k] = b]
      /\ pc' = [pc EXCEPT ![k] = IF HasOnJoin THEN "onJoin" ELSE "joined"]

\* Mutant: the debug map keeps a channel whose last member left.
RemoveKeepsActive(c, b, m) ==
  /\ buckets' = [buckets EXCEPT ![b][m] = None]
  /\ channelMemberships' =
       IF \A n \in Members \ {m} : buckets[b][n] = None
       THEN [channelMemberships EXCEPT ![c] = None]
       ELSE channelMemberships
  /\ UNCHANGED activeChannelInstances

\* bucket.delete(member), then the channel is dropped when that bucket is empty.
\* The bucket need not be the one the channel has now.
RemoveMember(c, b, m) ==
  /\ buckets' = [buckets EXCEPT ![b][m] = None]
  /\ IF \A n \in Members \ {m} : buckets[b][n] = None
     THEN /\ channelMemberships' = [channelMemberships EXCEPT ![c] = None]
          /\ activeChannelInstances' = activeChannelInstances \ {c}
     ELSE UNCHANGED <<channelMemberships, activeChannelInstances>>

\* Mutant: the call forgets what it was asked for.
JoinForgetsRequest(k, c, m) ==
  /\ pc[k] = "idle"
  /\ IF JoinChecks[c] = 0
     THEN StoreMembership(k, c, m)
     ELSE /\ pc' = [pc EXCEPT ![k] = "checking"]
          /\ UNCHANGED <<store, captured>>
  /\ UNCHANGED <<request, passed, leaving>>

\* joinChannel with a known contract and a valid key, up to its first await.
JoinChannel(k, c, m) ==
  /\ pc[k] = "idle"
  /\ request' = [request EXCEPT ![k] =
                   [op |-> "join", channel |-> c, member |-> m]]
  /\ IF JoinChecks[c] = 0
     THEN StoreMembership(k, c, m)
     ELSE /\ pc' = [pc EXCEPT ![k] = "checking"]
          /\ UNCHANGED <<store, captured>>
  /\ UNCHANGED <<passed, leaving>>

\* Either call with missing options, an unknown contract or an invalid key.
RejectInvalidRequest(k) ==
  /\ pc[k] = "idle"
  /\ pc' = [pc EXCEPT ![k] = "refused"]
  /\ UNCHANGED <<store, request, passed, captured, leaving>>

\* Mutant: the first check that allows lets the member in.
FirstCheckAdmits(k) ==
  /\ pc[k] = "checking"
  /\ passed' = [passed EXCEPT ![k] = @ + 1]
  /\ StoreMembership(k, request[k].channel, request[k].member)
  /\ UNCHANGED <<request, leaving>>

\* The awaited policy or authorizer allows the join.
CheckAllows(k) ==
  LET c == request[k].channel
      m == request[k].member
  IN  /\ pc[k] = "checking"
      /\ passed' = [passed EXCEPT ![k] = @ + 1]
      /\ IF passed[k] + 1 = JoinChecks[c]
         THEN StoreMembership(k, c, m)
         ELSE UNCHANGED <<store, pc, captured>>
      /\ UNCHANGED <<request, leaving>>

\* The awaited policy or authorizer denies the join, or throws.
CheckRefuses(k) ==
  /\ pc[k] = "checking"
  /\ pc' = [pc EXCEPT ![k] = "refused"]
  /\ UNCHANGED <<store, request, passed, captured, leaving>>

OnJoinSucceeds(k) ==
  /\ pc[k] = "onJoin"
  /\ pc' = [pc EXCEPT ![k] = "joined"]
  /\ UNCHANGED <<store, request, passed, captured, leaving>>

\* Mutant: a failing onJoin rejects the call and rolls nothing back.
NoRollback(k) ==
  /\ pc[k] = "onJoin"
  /\ OnJoinMayFail
  /\ pc' = [pc EXCEPT ![k] = "rolledBack"]
  /\ UNCHANGED <<store, request, passed, captured, leaving>>

\* onJoin throws: the join is rolled back through the bucket captured before
\* the await.
OnJoinFails(k) ==
  /\ pc[k] = "onJoin"
  /\ OnJoinMayFail
  /\ RemoveMember(request[k].channel, captured[k], request[k].member)
  /\ pc' = [pc EXCEPT ![k] = "rolledBack"]
  /\ UNCHANGED <<request, passed, captured, leaving>>

\* Mutant: the membership is read for onLeave and not deleted.
LeaveKeepsMember(k, c, m) ==
  /\ pc[k] = "idle"
  /\ request' = [request EXCEPT ![k] =
                   [op |-> "leave", channel |-> c, member |-> m]]
  /\ leaving' = [leaving EXCEPT ![k] = Roster(c, m)]
  /\ pc' = [pc EXCEPT ![k] = IF Roster(c, m) = None THEN "absent" ELSE "onLeave"]
  /\ UNCHANGED <<store, passed, captured>>

\* leaveChannel up to its first await: it works on the current bucket.
LeaveChannel(k, c, m) ==
  /\ pc[k] = "idle"
  /\ request' = [request EXCEPT ![k] =
                   [op |-> "leave", channel |-> c, member |-> m]]
  /\ IF channelMemberships[c] = None
     THEN UNCHANGED store
     ELSE RemoveMember(c, channelMemberships[c], m)
  /\ leaving' = [leaving EXCEPT ![k] = Roster(c, m)]
  /\ pc' = [pc EXCEPT ![k] = IF Roster(c, m) = None THEN "absent"
                             ELSE IF HasOnLeave THEN "onLeave"
                             ELSE "left"]
  /\ UNCHANGED <<passed, captured>>

\* onLeave settles; when it fails the call rejects, the member stays removed.
OnLeaveSettles(k) ==
  /\ pc[k] = "onLeave"
  /\ \E o \in {"left", "leaveFailed"} : pc' = [pc EXCEPT ![k] = o]
  /\ UNCHANGED <<store, request, passed, captured, leaving>>

Next ==
  \E k \in Calls :
    \/ \E c \in Channels, m \in Members :
         JoinChannel(k, c, m) \/ LeaveChannel(k, c, m)
    \/ RejectInvalidRequest(k)
    \/ CheckAllows(k)
    \/ CheckRefuses(k)
    \/ OnJoinSucceeds(k)
    \/ OnJoinFails(k)
    \/ OnLeaveSettles(k)

Spec == Init /\ [][Next]_vars

(***************************************************************************)
(* Safety.                                                                 *)
(***************************************************************************)

\* inspectRuntime lists exactly the channels that have members, and no empty
\* bucket stays in the map: a leave or a rollback that forgets one of the two
\* maps, in whatever order calls overlap, leaks a channel or hides its members.
ActiveIffPopulated ==
  \A c \in Channels :
    /\ c \in activeChannelInstances <=> ListChannelMembers(c) # {}
    /\ c \in activeChannelInstances <=> channelMemberships[c] # None

\* Whoever is visible in a channel was put there by a join of that very member
\* to that very channel which every policy and the authorizer allowed, whatever
\* calls of other members and channels were awaiting meanwhile.
MembersWereAdmitted ==
  \A c \in Channels : \A m \in ListChannelMembers(c) :
    LET k == Roster(c, m)
    IN  /\ request[k] = [op |-> "join", channel |-> c, member |-> m]
        /\ passed[k] = JoinChecks[c]

\* A join whose onJoin hook failed has left nothing of itself behind, in the
\* current bucket or in one that was replaced while it waited.
RolledBackJoinIsGone ==
  \A k \in Calls : pc[k] = "rolledBack" =>
    \A b \in Calls, m \in Members : buckets[b][m] # k

\* onLeave is called for a membership at most once, and that membership is in
\* no bucket any more, whichever leaves of one member overlap.
LeftOnce ==
  \A k \in Calls : leaving[k] # None =>
    /\ \A l \in Calls \ {k} : leaving[l] # leaving[k]
    /\ \A b \in Calls, m \in Members : buckets[b][m] # leaving[k]

\* The rollback of a failed join takes away the membership of its own member only,
\* as a leave does.  Not so in the code, see MCServerChannelsRollback.cfg.
RollbackIsLocal ==
  [][\A k \in Calls : pc[k] = "onJoin" /\ pc'[k] = "rolledBack" =>
       \A c \in Channels, m \in Members :
         \/ c = request[k].channel /\ m = request[k].member
         \/ RosterView'[c][m] = RosterView[c][m]]_vars

(***************************************************************************)
(* Why: the inductive invariant.                                           *)
(***************************************************************************)

\* The membership of a join was stored, in this bucket.
Stored(k, b) == captured[k] = b /\ b # None

\* A call has stored something only once its checks passed, and an idle or
\* checking call owns nothing yet.
StoredByAdmittedJoin ==
  \A k \in Calls :
    /\ captured[k] # None =>
         /\ request[k] \in Request
         /\ request[k].op = "join"
         /\ passed[k] = JoinChecks[request[k].channel]
    /\ pc[k] \in {"idle", "checking"} => captured[k] = None
    /\ pc[k] = "idle" => passed[k] = 0
    /\ pc[k] = "checking" =>
         request[k].op = "join" /\ passed[k] < JoinChecks[request[k].channel]
    /\ pc[k] = "onJoin" => captured[k] # None

\* A bucket serves the one channel of the join that created it.
BucketOfOneChannel ==
  \A k \in Calls : captured[k] # None =>
    LET b == captured[k]
    IN  captured[b] = b /\ request[b].channel = request[k].channel

\* An entry of a bucket is the membership of a join of that member which stored
\* it there and was not rolled back.
EntryIsStored ==
  \A b \in Calls, m \in Members : buckets[b][m] # None =>
    LET k == buckets[b][m]
    IN  Stored(k, b) /\ request[k].member = m /\ pc[k] # "rolledBack"

\* The current bucket of a channel was created for it and is not empty.
CurrentBucket ==
  \A c \in Channels :
    /\ c \in activeChannelInstances <=> channelMemberships[c] # None
    /\ channelMemberships[c] # None =>
         LET b == channelMemberships[c]
         IN  /\ Stored(b, b)
             /\ request[b].channel = c
             /\ \E m \in Members : buckets[b][m] # None

\* What onLeave was given had been stored before.
LeavingWasStored ==
  \A k \in Calls :
    /\ leaving[k] # None => captured[leaving[k]] # None
    /\ pc[k] = "idle" => leaving[k] = None

IInv ==
  /\ TypeOK
  /\ StoredByAdmittedJoin
  /\ BucketOfOneChannel
  /\ EntryIsStored
  /\ CurrentBucket
  /\ LeavingWasStored
  /\ LeftOnce

(***************************************************************************)
(* The calls implement the roster they promise.                            *)
(***************************************************************************)
AbstractRoster == INSTANCE ChannelRoster WITH
  Joins <- Calls,
  MayEvict <- OnJoinMayFail,
  roster <- RosterView,
  spent <- {k \in Calls : captured[k] # None}

\* Every interleaving of awaiting calls is one Enter, Exit or Evict of the
\* roster per step, Evict only where an onJoin hook may fail.
ImplementsRoster == AbstractRoster!Spec
=============================================================================
