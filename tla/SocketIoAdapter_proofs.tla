------------------------ MODULE SocketIoAdapter_proofs ------------------------
(***************************************************************************)
(* Machine-checked facts about SocketIoAdapter and the ServerChannels it   *)
(* is built on, for every set of sockets, members, channels, requests and  *)
(* calls, every number of join checks, every choice of hooks, and every    *)
(* set of faults.                                                          *)
(*                                                                         *)
(* The first part is about the runtime alone (Spec), the second about the  *)
(* adapter over it (AdapterSpec), which only makes steps of the runtime,   *)
(* so that the facts of the first part hold there too.                     *)
(***************************************************************************)
EXTENDS SocketIoAdapter, TLAPS

(***************************************************************************)
(* ServerChannels: the runtime's memberships.                              *)
(***************************************************************************)

\* Storing a membership keeps the types of what it writes.
LEMMA StoreMembershipTypes ==
  ASSUME TypeOK, NEW k \in Calls, NEW c \in Channels, NEW m \in Members,
         StoreMembership(k, c, m)
  PROVE  /\ channelMemberships' \in [Channels -> Calls \cup {None}]
         /\ buckets' \in [Calls -> [Members -> Calls \cup {None}]]
         /\ activeChannelInstances' \in SUBSET Channels
         /\ captured' \in [Calls -> Calls \cup {None}]
         /\ pc' \in [Calls -> {"idle"} \cup Waiting \cup Settled]
<1> DEFINE b == IF channelMemberships[c] = None THEN k ELSE channelMemberships[c]
<1>1. b \in Calls
  BY DEF TypeOK
<1>2. /\ channelMemberships' = [channelMemberships EXCEPT ![c] = b]
      /\ activeChannelInstances' = activeChannelInstances \cup {c}
      /\ buckets' = [buckets EXCEPT ![b][m] = k]
      /\ captured' = [captured EXCEPT ![k] = b]
      /\ pc' = [pc EXCEPT ![k] = IF HasOnJoin THEN "onJoin" ELSE "joined"]
  BY DEF StoreMembership
<1> HIDE DEF b
<1>3. buckets' \in [Calls -> [Members -> Calls \cup {None}]]
  BY <1>1, <1>2 DEF TypeOK
<1>4. QED
  BY <1>1, <1>2, <1>3 DEF TypeOK, Waiting, Settled

\* Removing a member keeps the types of the store, whatever bucket is used.
LEMMA RemoveMemberTypes ==
  ASSUME TypeOK, NEW c \in Channels, NEW b \in Calls \cup {None},
         NEW m \in Members, RemoveMember(c, b, m)
  PROVE  /\ channelMemberships' \in [Channels -> Calls \cup {None}]
         /\ buckets' \in [Calls -> [Members -> Calls \cup {None}]]
         /\ activeChannelInstances' \in SUBSET Channels
<1>1. buckets' \in [Calls -> [Members -> Calls \cup {None}]]
  <2>1. buckets' = [buckets EXCEPT ![b][m] = None]
    BY DEF RemoveMember
  <2>2. QED
    BY <2>1, NoneAssumption DEF TypeOK
<1>2. /\ channelMemberships' \in [Channels -> Calls \cup {None}]
      /\ activeChannelInstances' \in SUBSET Channels
  BY DEF RemoveMember, TypeOK
<1>3. QED
  BY <1>1, <1>2

\* Every step keeps the types.
LEMMA TypeStep ==
  ASSUME TypeOK, [Next]_vars
  PROVE  TypeOK'
<1>1. ASSUME NEW k \in Calls, NEW c \in Channels, NEW m \in Members,
             JoinChannel(k, c, m)
      PROVE TypeOK'
  <2>1. /\ request' \in [Calls -> Request \cup {NoRequest}]
        /\ request'[k] \in Request
        /\ \A l \in Calls \ {k} : request'[l] = request[l] /\ pc'[l] = pc[l]
        /\ UNCHANGED <<passed, leaving>>
    BY <1>1 DEF TypeOK, JoinChannel, StoreMembership, Request
  <2>2. CASE JoinChecks[c] = 0
    <3>1. StoreMembership(k, c, m)
      BY <1>1, <2>2 DEF JoinChannel
    <3>2. QED
      BY <2>1, <3>1, StoreMembershipTypes DEF TypeOK
  <2>3. CASE JoinChecks[c] # 0
    <3>1. /\ pc' \in [Calls -> {"idle"} \cup Waiting \cup Settled]
          /\ UNCHANGED <<store, captured>>
      BY <1>1, <2>3 DEF TypeOK, JoinChannel, Waiting
    <3>2. QED
      BY <2>1, <3>1 DEF TypeOK, store
  <2>4. QED
    BY <2>2, <2>3
<1>2. ASSUME NEW k \in Calls, NEW c \in Channels, NEW m \in Members,
             LeaveChannel(k, c, m)
      PROVE TypeOK'
  <2>1. /\ request' \in [Calls -> Request \cup {NoRequest}]
        /\ request'[k] \in Request
        /\ \A l \in Calls \ {k} : request'[l] = request[l] /\ pc'[l] = pc[l]
        /\ UNCHANGED <<passed, captured>>
    BY <1>2 DEF TypeOK, LeaveChannel, Request
  <2>2. Roster(c, m) \in Calls \cup {None}
    BY DEF Roster, TypeOK
  <2>3. /\ leaving' \in [Calls -> Calls \cup {None}]
        /\ pc' \in [Calls -> {"idle"} \cup Waiting \cup Settled]
    BY <1>2, <2>2 DEF TypeOK, LeaveChannel, Waiting, Settled
  <2>4. CASE channelMemberships[c] = None
    BY <1>2, <2>1, <2>3, <2>4 DEF TypeOK, LeaveChannel, store
  <2>5. CASE channelMemberships[c] # None
    <3>1. channelMemberships[c] \in Calls \cup {None}
      BY DEF TypeOK
    <3>2. RemoveMember(c, channelMemberships[c], m)
      BY <1>2, <2>5 DEF LeaveChannel
    <3>3. QED
      BY <2>1, <2>3, <3>1, <3>2, RemoveMemberTypes DEF TypeOK
  <2>6. QED
    BY <2>4, <2>5
<1>3. ASSUME NEW k \in Calls, RejectInvalidRequest(k) PROVE TypeOK'
  BY <1>3, SMT DEF TypeOK, RejectInvalidRequest, Waiting, Settled, store
<1>4. ASSUME NEW k \in Calls, CheckAllows(k) PROVE TypeOK'
  <2>1. request[k] \in Request
    BY <1>4 DEF TypeOK, CheckAllows, Waiting
  <2>2. /\ passed' \in [Calls -> Nat]
        /\ UNCHANGED <<request, leaving>>
    BY <1>4 DEF TypeOK, CheckAllows
  <2>3. CASE passed[k] + 1 = JoinChecks[request[k].channel]
    <3>1. StoreMembership(k, request[k].channel, request[k].member)
      BY <1>4, <2>3 DEF CheckAllows
    <3>2. \A l \in Calls \ {k} : pc'[l] = pc[l]
      BY <3>1 DEF StoreMembership, TypeOK
    <3>3. QED
      BY <2>1, <2>2, <3>1, <3>2, StoreMembershipTypes DEF TypeOK, Request
  <2>4. CASE passed[k] + 1 # JoinChecks[request[k].channel]
    BY <1>4, <2>2, <2>4 DEF TypeOK, CheckAllows, store
  <2>5. QED
    BY <2>3, <2>4
<1>5. ASSUME NEW k \in Calls, CheckRefuses(k) PROVE TypeOK'
  BY <1>5, SMT DEF TypeOK, CheckRefuses, Waiting, Settled, store
<1>6. ASSUME NEW k \in Calls, OnJoinSucceeds(k) PROVE TypeOK'
  BY <1>6, SMT DEF TypeOK, OnJoinSucceeds, Waiting, Settled, store
<1>7. ASSUME NEW k \in Calls, OnJoinFails(k) PROVE TypeOK'
  <2>1. /\ request[k].channel \in Channels
        /\ request[k].member \in Members
        /\ captured[k] \in Calls \cup {None}
    BY <1>7 DEF TypeOK, OnJoinFails, Waiting, Request
  <2>2. RemoveMember(request[k].channel, captured[k], request[k].member)
    BY <1>7 DEF OnJoinFails
  <2>3. /\ pc' \in [Calls -> {"idle"} \cup Waiting \cup Settled]
        /\ \A l \in Calls : pc'[l] \in Waiting => pc[l] \in Waiting
        /\ UNCHANGED <<request, passed, captured, leaving>>
    BY <1>7 DEF TypeOK, OnJoinFails, Waiting, Settled
  <2>4. QED
    BY <2>1, <2>2, <2>3, RemoveMemberTypes DEF TypeOK
<1>8. ASSUME NEW k \in Calls, OnLeaveSettles(k) PROVE TypeOK'
  BY <1>8, SMT DEF TypeOK, OnLeaveSettles, Waiting, Settled, store
<1>9. CASE UNCHANGED vars
  BY <1>9, SMT DEF TypeOK, vars, store
<1>10. QED
  BY <1>1, <1>2, <1>3, <1>4, <1>5, <1>6, <1>7, <1>8, <1>9 DEF Next

\* The variables have their types in every reachable state, and a call that
\* awaits has a valid request.
THEOREM TypeCorrect == Spec => []TypeOK
<1>1. Init => TypeOK
  BY SMT DEF Init, TypeOK, Waiting
<1>2. TypeOK /\ [Next]_vars => TypeOK'
  BY TypeStep
<1>3. QED
  BY <1>1, <1>2, PTL DEF Spec

\* Storing the membership of a join that passed its checks keeps the invariant.
LEMMA StoreKeepsInv ==
  ASSUME IInv, TypeOK', NEW k \in Calls, NEW c \in Channels, NEW m \in Members,
         pc[k] \in {"idle", "checking"},
         StoreMembership(k, c, m),
         request' = [request EXCEPT ![k] =
                       [op |-> "join", channel |-> c, member |-> m]],
         passed'[k] = JoinChecks[c],
         \A l \in Calls \ {k} : passed'[l] = passed[l],
         UNCHANGED leaving
  PROVE  IInv'
<1> DEFINE b == IF channelMemberships[c] = None THEN k ELSE channelMemberships[c]
<1>1. b \in Calls
  BY DEF IInv, TypeOK
<1>2. /\ channelMemberships' = [channelMemberships EXCEPT ![c] = b]
      /\ activeChannelInstances' = activeChannelInstances \cup {c}
      /\ buckets' = [buckets EXCEPT ![b][m] = k]
      /\ captured' = [captured EXCEPT ![k] = b]
      /\ pc' = [pc EXCEPT ![k] = IF HasOnJoin THEN "onJoin" ELSE "joined"]
  BY DEF StoreMembership
<1>3. /\ captured[k] = None
      /\ \A n \in Members : buckets[k][n] = None
      /\ \A x \in Calls, n \in Members : buckets[x][n] # k
      /\ \A d \in Channels : channelMemberships[d] # k
      /\ \A l \in Calls : captured[l] # k /\ leaving[l] # k
  <2>1. captured[k] = None
    BY DEF IInv, StoredByAdmittedJoin
  <2>2. \A l \in Calls : captured[l] # k
    BY <2>1, NoneAssumption DEF IInv, BucketOfOneChannel
  <2>3. \A x \in Calls, n \in Members : buckets[x][n] # None =>
          /\ buckets[x][n] \in Calls
          /\ captured[buckets[x][n]] = x
    BY DEF IInv, TypeOK, EntryIsStored, Stored
  <2>4. \A n \in Members : buckets[k][n] = None
    BY <2>2, <2>3
  <2>5. \A x \in Calls, n \in Members : buckets[x][n] # k
    BY <2>1, <2>3, NoneAssumption
  <2>6. \A d \in Channels : channelMemberships[d] # k
    BY <2>1, NoneAssumption DEF IInv, CurrentBucket, Stored
  <2>7. \A l \in Calls : leaving[l] # k
    BY <2>1, NoneAssumption DEF IInv, LeavingWasStored
  <2>8. QED
    BY <2>1, <2>2, <2>4, <2>5, <2>6, <2>7
<1>4. \/ b = k /\ channelMemberships[c] = None
      \/ b # k /\ b = channelMemberships[c] /\ captured[b] = b /\ request[b].channel = c
  BY <1>1, <1>3, NoneAssumption DEF IInv, CurrentBucket, Stored
<1> HIDE DEF b
<1>5. /\ request'[k] = [op |-> "join", channel |-> c, member |-> m]
      /\ request'[k] \in Request
      /\ captured'[k] = b
      /\ captured'[b] = b
      /\ request'[b].channel = c
      /\ pc'[k] \in {"onJoin", "joined"}
      /\ \A l \in Calls \ {k} :
           /\ request'[l] = request[l]
           /\ captured'[l] = captured[l]
           /\ pc'[l] = pc[l]
  BY <1>1, <1>2, <1>4 DEF IInv, TypeOK, Request
<1>6. /\ buckets'[b][m] = k
      /\ \A x \in Calls, n \in Members :
           x # b \/ n # m => buckets'[x][n] = buckets[x][n]
  BY <1>1, <1>2 DEF IInv, TypeOK
<1>7. StoredByAdmittedJoin'
  BY <1>1, <1>5, NoneAssumption DEF IInv, StoredByAdmittedJoin
<1>8. BucketOfOneChannel'
  <2> SUFFICES ASSUME NEW l \in Calls, captured'[l] # None
               PROVE  /\ captured'[captured'[l]] = captured'[l]
                      /\ request'[captured'[l]].channel = request'[l].channel
    BY DEF BucketOfOneChannel
  <2>1. CASE l = k
    BY <1>5, <2>1
  <2>2. CASE l # k
    <3>1. captured[l] # k /\ captured[l] \in Calls
      BY <1>3, <1>5, <2>2 DEF IInv, TypeOK
    <3>2. QED
      BY <1>5, <2>2, <3>1 DEF IInv, BucketOfOneChannel
  <2>3. QED
    BY <2>1, <2>2
<1>9. EntryIsStored'
  <2> SUFFICES ASSUME NEW x \in Calls, NEW n \in Members, buckets'[x][n] # None
               PROVE  LET l == buckets'[x][n]
                      IN  /\ captured'[l] = x
                          /\ x # None
                          /\ request'[l].member = n
                          /\ pc'[l] # "rolledBack"
    BY DEF EntryIsStored, Stored
  <2>1. CASE x = b /\ n = m
    BY <1>1, <1>5, <1>6, <2>1, NoneAssumption
  <2>2. CASE x # b \/ n # m
    <3>1. buckets'[x][n] = buckets[x][n]
      BY <1>6, <2>2
    <3>2. buckets[x][n] \in Calls \ {k}
      BY <1>3, <3>1 DEF IInv, TypeOK
    <3>3. QED
      BY <1>5, <3>1, <3>2 DEF IInv, EntryIsStored, Stored
  <2>3. QED
    BY <2>1, <2>2
<1>10. CurrentBucket'
  <2> SUFFICES ASSUME NEW d \in Channels
               PROVE  /\ d \in activeChannelInstances' <=> channelMemberships'[d] # None
                      /\ channelMemberships'[d] # None =>
                           LET x == channelMemberships'[d]
                           IN  /\ captured'[x] = x
                               /\ x # None
                               /\ request'[x].channel = d
                               /\ \E n \in Members : buckets'[x][n] # None
    BY DEF CurrentBucket, Stored
  <2>1. CASE d = c
    <3>1. channelMemberships'[d] = b /\ d \in activeChannelInstances'
      BY <1>2, <2>1 DEF IInv, TypeOK
    <3>2. QED
      BY <1>1, <1>5, <1>6, <2>1, <3>1, NoneAssumption
  <2>2. CASE d # c
    <3>1. /\ channelMemberships'[d] = channelMemberships[d]
          /\ d \in activeChannelInstances' <=> d \in activeChannelInstances
      BY <1>2, <2>2 DEF IInv, TypeOK
    <3>2. CASE channelMemberships[d] # None
      <4>1. /\ channelMemberships[d] \in Calls \ {k}
            /\ request[channelMemberships[d]].channel = d
        BY <1>3, <3>2 DEF IInv, TypeOK, CurrentBucket
      <4>2. channelMemberships[d] # b
        BY <1>4, <2>2, <4>1
      <4>3. QED
        BY <1>5, <1>6, <3>1, <3>2, <4>1, <4>2 DEF IInv, CurrentBucket, Stored
    <3>3. QED
      BY <3>1, <3>2 DEF IInv, CurrentBucket
  <2>3. QED
    BY <2>1, <2>2
<1>11. LeavingWasStored'
  <2>1. \A l \in Calls : leaving[l] # None => leaving[l] \in Calls \ {k}
    BY <1>3 DEF IInv, TypeOK
  <2>2. QED
    BY <1>5, <2>1 DEF IInv, LeavingWasStored
<1>12. LeftOnce'
  <2>1. \A x \in Calls, n \in Members :
          buckets'[x][n] = k \/ buckets'[x][n] = buckets[x][n]
    BY <1>6
  <2>2. QED
    BY <1>3, <2>1 DEF IInv, LeftOnce
<1>13. QED
  BY <1>7, <1>8, <1>9, <1>10, <1>11, <1>12 DEF IInv

\* Removing a member through a bucket of its channel, current or stale, keeps
\* the store consistent and only makes entries disappear.
LEMMA RemoveKeepsStore ==
  ASSUME IInv, TypeOK', NEW c \in Channels, NEW b \in Calls, NEW m \in Members,
         captured[b] = b, request[b].channel = c,
         RemoveMember(c, b, m),
         UNCHANGED captured,
         \A l \in Calls : captured[l] # None => request'[l] = request[l]
  PROVE  /\ BucketOfOneChannel'
         /\ CurrentBucket'
         /\ buckets'[b][m] = None
         /\ \A x \in Calls, n \in Members :
              buckets'[x][n] \in {None, buckets[x][n]}
<1>1. /\ buckets'[b][m] = None
      /\ \A x \in Calls, n \in Members :
           x # b \/ n # m => buckets'[x][n] = buckets[x][n]
  BY DEF RemoveMember, IInv, TypeOK
<1>2. BucketOfOneChannel'
  <2> SUFFICES ASSUME NEW l \in Calls, captured[l] # None
               PROVE  /\ captured[captured[l]] = captured[l]
                      /\ request'[captured[l]].channel = request'[l].channel
    BY DEF BucketOfOneChannel
  <2>1. /\ captured[l] \in Calls
        /\ captured[captured[l]] = captured[l]
        /\ request[captured[l]].channel = request[l].channel
    BY DEF IInv, TypeOK, BucketOfOneChannel
  <2>2. QED
    BY <2>1
<1>3. CurrentBucket'
  <2> SUFFICES ASSUME NEW d \in Channels
               PROVE  /\ d \in activeChannelInstances' <=> channelMemberships'[d] # None
                      /\ channelMemberships'[d] # None =>
                           LET x == channelMemberships'[d]
                           IN  /\ captured[x] = x
                               /\ x # None
                               /\ request'[x].channel = d
                               /\ \E n \in Members : buckets'[x][n] # None
    BY DEF CurrentBucket, Stored
  <2>1. /\ d \in activeChannelInstances <=> channelMemberships[d] # None
        /\ channelMemberships[d] # None =>
             LET x == channelMemberships[d]
             IN  /\ x \in Calls
                 /\ captured[x] = x
                 /\ request[x].channel = d
                 /\ \E n \in Members : buckets[x][n] # None
    BY DEF IInv, TypeOK, CurrentBucket, Stored
  <2>2. CASE \A n \in Members \ {m} : buckets[b][n] = None
    <3>1. /\ channelMemberships' = [channelMemberships EXCEPT ![c] = None]
          /\ activeChannelInstances' = activeChannelInstances \ {c}
      BY <2>2 DEF RemoveMember
    <3>2. CASE d = c
      BY <3>1, <3>2 DEF IInv, TypeOK
    <3>3. CASE d # c
      <4>1. /\ channelMemberships'[d] = channelMemberships[d]
            /\ d \in activeChannelInstances' <=> d \in activeChannelInstances
        BY <3>1, <3>3 DEF IInv, TypeOK
      <4>2. CASE channelMemberships[d] # None
        <5>1. channelMemberships[d] # b
          BY <2>1, <3>3, <4>2
        <5>2. QED
          BY <1>1, <2>1, <4>1, <4>2, <5>1, NoneAssumption
      <4>3. QED
        BY <2>1, <4>1, <4>2
    <3>4. QED
      BY <3>2, <3>3
  <2>3. CASE ~ \A n \in Members \ {m} : buckets[b][n] = None
    <3>1. UNCHANGED <<channelMemberships, activeChannelInstances>>
      BY <2>3 DEF RemoveMember
    <3>2. CASE channelMemberships[d] # None
      <4>1. \E n \in Members : buckets'[channelMemberships[d]][n] # None
        <5>1. CASE channelMemberships[d] = b
          BY <1>1, <2>3, <5>1
        <5>2. CASE channelMemberships[d] # b
          BY <1>1, <2>1, <3>2, <5>2
        <5>3. QED
          BY <5>1, <5>2
      <4>2. QED
        BY <2>1, <3>1, <3>2, <4>1, NoneAssumption
    <3>3. QED
      BY <2>1, <3>1, <3>2
  <2>4. QED
    BY <2>2, <2>3
<1>4. QED
  BY <1>1, <1>2, <1>3

\* A step that leaves the store, the captured buckets and onLeave's memberships
\* alone, and keeps the requests and checks of joins that stored something,
\* keeps the invariant when the calls it moves obey it.
LEMMA CallStepKeepsInv ==
  ASSUME IInv, TypeOK', UNCHANGED <<store, captured, leaving>>,
         \A l \in Calls : captured[l] # None =>
            /\ request'[l] = request[l]
            /\ passed'[l] = passed[l]
            /\ pc'[l] # "rolledBack" \/ pc[l] = "rolledBack",
         \A l \in Calls :
            /\ pc'[l] \in {"idle", "checking"} => captured[l] = None
            /\ pc'[l] = "idle" => pc[l] = "idle" /\ passed'[l] = 0
            /\ pc'[l] = "checking" =>
                 /\ request'[l].op = "join"
                 /\ passed'[l] < JoinChecks[request'[l].channel]
            /\ pc'[l] = "onJoin" => captured[l] # None
  PROVE  IInv'
<1>1. StoredByAdmittedJoin'
  BY DEF IInv, StoredByAdmittedJoin
<1>2. BucketOfOneChannel'
  <2>1. \A l \in Calls : captured[l] # None =>
          captured[l] \in Calls /\ captured[captured[l]] # None
    BY DEF IInv, TypeOK, BucketOfOneChannel
  <2>2. QED
    BY <2>1 DEF IInv, BucketOfOneChannel
<1>3. EntryIsStored'
  <2>1. \A b \in Calls, m \in Members : buckets[b][m] # None =>
          /\ buckets[b][m] \in Calls
          /\ captured[buckets[b][m]] # None
    BY DEF IInv, TypeOK, EntryIsStored, Stored
  <2>2. QED
    BY <2>1 DEF IInv, EntryIsStored, Stored, store
<1>4. CurrentBucket'
  <2>1. \A c \in Channels : channelMemberships[c] # None =>
          /\ channelMemberships[c] \in Calls
          /\ captured[channelMemberships[c]] # None
    BY DEF IInv, TypeOK, CurrentBucket, Stored
  <2>2. QED
    BY <2>1 DEF IInv, CurrentBucket, Stored, store
<1>5. LeavingWasStored' /\ LeftOnce'
  BY DEF IInv, LeavingWasStored, LeftOnce, store
<1>6. QED
  BY <1>1, <1>2, <1>3, <1>4, <1>5 DEF IInv

\* Initially nothing is stored.
LEMMA InvInit == Init => IInv
<1> SUFFICES ASSUME Init PROVE IInv
  OBVIOUS
<1>1. TypeOK
  BY SMT DEF Init, TypeOK, Waiting
<1>2. StoredByAdmittedJoin /\ BucketOfOneChannel
  BY DEF Init, StoredByAdmittedJoin, BucketOfOneChannel
<1>3. EntryIsStored /\ CurrentBucket
  BY DEF Init, EntryIsStored, CurrentBucket
<1>4. LeavingWasStored /\ LeftOnce
  BY DEF Init, LeavingWasStored, LeftOnce
<1>5. QED
  BY <1>1, <1>2, <1>3, <1>4 DEF IInv

\* A leave takes the member out of the current bucket, if there is one.
LEMMA LeaveKeepsInv ==
  ASSUME IInv, TypeOK', NEW k \in Calls, NEW c \in Channels, NEW m \in Members,
         LeaveChannel(k, c, m)
  PROVE  IInv'
<1>1. /\ pc[k] = "idle"
      /\ captured[k] = None
      /\ passed[k] = 0
      /\ leaving[k] = None
  BY DEF LeaveChannel, IInv, StoredByAdmittedJoin, LeavingWasStored
<1>2. /\ UNCHANGED <<passed, captured>>
      /\ leaving'[k] = Roster(c, m)
      /\ pc'[k] \in {"absent", "onLeave", "left"}
      /\ \A l \in Calls \ {k} :
           /\ request'[l] = request[l]
           /\ pc'[l] = pc[l]
           /\ leaving'[l] = leaving[l]
  BY DEF LeaveChannel, IInv, TypeOK
<1>3. StoredByAdmittedJoin'
  BY <1>1, <1>2 DEF IInv, StoredByAdmittedJoin
<1>4. CASE channelMemberships[c] = None
  <2>1. leaving'[k] = None
    BY <1>2, <1>4 DEF Roster
  <2>2. UNCHANGED <<store, captured, leaving>>
    BY <1>1, <1>2, <1>4, <2>1 DEF LeaveChannel, IInv, TypeOK
  <2>3. QED
    BY <1>1, <1>2, <1>3, <2>2, CallStepKeepsInv DEF IInv, StoredByAdmittedJoin
<1>5. CASE channelMemberships[c] # None
  <2> DEFINE b == channelMemberships[c]
  <2>1. /\ b \in Calls
        /\ captured[b] = b
        /\ request[b].channel = c
        /\ RemoveMember(c, b, m)
    BY <1>5 DEF IInv, TypeOK, CurrentBucket, Stored, LeaveChannel
  <2>2. Roster(c, m) = buckets[b][m]
    BY <1>5 DEF Roster
  <2> HIDE DEF b
  <2>3. /\ BucketOfOneChannel'
        /\ CurrentBucket'
        /\ buckets'[b][m] = None
        /\ \A x \in Calls, n \in Members :
             buckets'[x][n] \in {None, buckets[x][n]}
    BY <1>1, <1>2, <2>1, RemoveKeepsStore
  <2>4. \A x \in Calls, n \in Members : buckets[x][n] # None =>
          /\ buckets[x][n] \in Calls \ {k}
          /\ captured[buckets[x][n]] = x
          /\ captured[buckets[x][n]] # None
          /\ request[buckets[x][n]].member = n
          /\ pc[buckets[x][n]] # "rolledBack"
    BY <1>1 DEF IInv, TypeOK, EntryIsStored, Stored
  <2>5. EntryIsStored'
    <3> SUFFICES ASSUME NEW x \in Calls, NEW n \in Members, buckets'[x][n] # None
                 PROVE  LET l == buckets'[x][n]
                        IN  /\ captured'[l] = x
                            /\ x # None
                            /\ request'[l].member = n
                            /\ pc'[l] # "rolledBack"
      BY DEF EntryIsStored, Stored
    <3>1. buckets'[x][n] = buckets[x][n] /\ buckets[x][n] # None
      BY <2>3
    <3>2. QED
      BY <1>2, <2>4, <3>1
  <2>6. LeavingWasStored'
    BY <1>2, <2>1, <2>2, <2>4 DEF IInv, LeavingWasStored
  <2>7. LeftOnce'
    <3>1. \A l \in Calls \ {k} :
            leaving[l] # None => leaving[l] # buckets[b][m]
      BY <2>1 DEF IInv, LeftOnce
    <3>2. \A x \in Calls, n \in Members :
            buckets[b][m] # None => buckets'[x][n] # buckets[b][m]
      <4> SUFFICES ASSUME buckets[b][m] # None, NEW x \in Calls, NEW n \in Members,
                          buckets'[x][n] = buckets[b][m]
                   PROVE  FALSE
        OBVIOUS
      <4>1. buckets[x][n] = buckets[b][m]
        BY <2>3
      <4>2. x = b /\ n = m
        BY <2>1, <2>4, <4>1
      <4>3. QED
        BY <2>3, <4>2
    <3>3. QED
      BY <1>1, <1>2, <2>2, <2>3, <3>1, <3>2 DEF IInv, LeftOnce
  <2>8. QED
    BY <1>3, <2>3, <2>5, <2>6, <2>7 DEF IInv
<1>6. QED
  BY <1>4, <1>5

\* A rollback takes its own membership out of the bucket it was stored in.
LEMMA RollbackKeepsInv ==
  ASSUME IInv, TypeOK', NEW k \in Calls, OnJoinFails(k)
  PROVE  IInv'
<1> DEFINE c == request[k].channel
           b == captured[k]
           m == request[k].member
<1>1. /\ pc[k] = "onJoin"
      /\ RemoveMember(c, b, m)
      /\ UNCHANGED <<request, passed, captured, leaving>>
      /\ pc'[k] = "rolledBack"
      /\ \A l \in Calls \ {k} : pc'[l] = pc[l]
  BY DEF OnJoinFails, IInv, TypeOK
<1>2. /\ b \in Calls
      /\ captured[b] = b
      /\ request[b].channel = c
      /\ c \in Channels
      /\ m \in Members
  BY <1>1
  DEF IInv, TypeOK, StoredByAdmittedJoin, BucketOfOneChannel, Request, Waiting
<1>3. captured[k] = b
  OBVIOUS
<1>4. request[k].member = m
  OBVIOUS
<1> HIDE DEF b, c, m
<1>5. /\ BucketOfOneChannel'
      /\ CurrentBucket'
      /\ buckets'[b][m] = None
      /\ \A x \in Calls, n \in Members :
           buckets'[x][n] \in {None, buckets[x][n]}
  BY <1>1, <1>2, RemoveKeepsStore
<1>6. StoredByAdmittedJoin'
  BY <1>1 DEF IInv, StoredByAdmittedJoin
<1>7. EntryIsStored'
  <2> SUFFICES ASSUME NEW x \in Calls, NEW n \in Members, buckets'[x][n] # None
               PROVE  LET l == buckets'[x][n]
                      IN  /\ captured'[l] = x
                          /\ x # None
                          /\ request'[l].member = n
                          /\ pc'[l] # "rolledBack"
    BY DEF EntryIsStored, Stored
  <2>1. buckets'[x][n] = buckets[x][n] /\ buckets[x][n] # None
    BY <1>5
  <2>2. /\ buckets[x][n] \in Calls
        /\ captured[buckets[x][n]] = x
        /\ x # None
        /\ request[buckets[x][n]].member = n
        /\ pc[buckets[x][n]] # "rolledBack"
    BY <2>1 DEF IInv, TypeOK, EntryIsStored, Stored
  <2>3. buckets[x][n] # k
    BY <1>3, <1>4, <1>5, <2>1, <2>2
  <2>4. QED
    BY <1>1, <2>1, <2>2, <2>3
<1>8. LeavingWasStored'
  BY <1>1 DEF IInv, LeavingWasStored
<1>9. LeftOnce'
  BY <1>1, <1>5 DEF IInv, LeftOnce
<1>10. QED
  BY <1>5, <1>6, <1>7, <1>8, <1>9 DEF IInv

\* Every step keeps the invariant.
LEMMA InvStep ==
  ASSUME IInv, [Next]_vars
  PROVE  IInv'
<1>0. TypeOK'
  BY TypeStep DEF IInv
<1>1. ASSUME NEW k \in Calls, NEW c \in Channels, NEW m \in Members,
             JoinChannel(k, c, m)
      PROVE IInv'
  <2>1. /\ pc[k] = "idle"
        /\ captured[k] = None
        /\ passed[k] = 0
        /\ UNCHANGED <<passed, leaving>>
        /\ request' = [request EXCEPT ![k] =
                         [op |-> "join", channel |-> c, member |-> m]]
    BY <1>1 DEF JoinChannel, IInv, StoredByAdmittedJoin
  <2>2. CASE JoinChecks[c] = 0
    <3>1. StoreMembership(k, c, m)
      BY <1>1, <2>2 DEF JoinChannel
    <3>2. QED
      BY <1>0, <2>1, <2>2, <3>1, StoreKeepsInv
  <2>3. CASE JoinChecks[c] # 0
    <3>1. /\ UNCHANGED <<store, captured, leaving>>
          /\ pc'[k] = "checking"
          /\ request'[k] = [op |-> "join", channel |-> c, member |-> m]
          /\ \A l \in Calls \ {k} : request'[l] = request[l] /\ pc'[l] = pc[l]
      BY <1>1, <2>3 DEF JoinChannel, IInv, TypeOK
    <3>2. 0 < JoinChecks[c]
      BY <2>3, JoinChecksAssumption
    <3>3. QED
      BY <1>0, <2>1, <3>1, <3>2, CallStepKeepsInv DEF IInv, StoredByAdmittedJoin
  <2>4. QED
    BY <2>2, <2>3
<1>2. ASSUME NEW k \in Calls, NEW c \in Channels, NEW m \in Members,
             LeaveChannel(k, c, m)
      PROVE IInv'
  BY <1>0, <1>2, LeaveKeepsInv
<1>3. ASSUME NEW k \in Calls, RejectInvalidRequest(k) PROVE IInv'
  <2>1. /\ UNCHANGED <<store, captured, leaving, request, passed>>
        /\ pc'[k] = "refused"
        /\ \A l \in Calls \ {k} : pc'[l] = pc[l]
    BY <1>3 DEF RejectInvalidRequest, IInv, TypeOK
  <2>2. QED
    BY <1>0, <2>1, CallStepKeepsInv DEF IInv, StoredByAdmittedJoin
<1>4. ASSUME NEW k \in Calls, CheckAllows(k) PROVE IInv'
  <2> DEFINE c == request[k].channel
             m == request[k].member
  <2>1. /\ pc[k] = "checking"
        /\ captured[k] = None
        /\ request[k] \in Request
        /\ request[k].op = "join"
        /\ passed[k] < JoinChecks[c]
        /\ UNCHANGED <<request, leaving>>
        /\ passed'[k] = passed[k] + 1
        /\ \A l \in Calls \ {k} : passed'[l] = passed[l]
    BY <1>4 DEF CheckAllows, IInv, TypeOK, StoredByAdmittedJoin, Waiting
  <2>2. c \in Channels /\ m \in Members
    BY <2>1 DEF Request
  <2>3. request' = [request EXCEPT ![k] =
                      [op |-> "join", channel |-> c, member |-> m]]
    BY <2>1 DEF Request, IInv, TypeOK
  <2>4. CASE passed[k] + 1 = JoinChecks[c]
    <3>1. StoreMembership(k, c, m)
      BY <1>4, <2>4 DEF CheckAllows
    <3>2. QED
      BY <1>0, <2>1, <2>2, <2>3, <2>4, <3>1, StoreKeepsInv
  <2>5. CASE passed[k] + 1 # JoinChecks[c]
    <3>1. UNCHANGED <<store, pc, captured>>
      BY <1>4, <2>5 DEF CheckAllows
    <3>2. passed'[k] < JoinChecks[c]
      <4>1. JoinChecks[c] \in Nat
        BY <2>2, JoinChecksAssumption
      <4>2. passed[k] \in Nat
        BY DEF IInv, TypeOK
      <4> HIDE DEF c
      <4>3. QED
        BY <2>1, <2>5, <4>1, <4>2
    <3>3. QED
      BY <1>0, <2>1, <3>1, <3>2, CallStepKeepsInv DEF IInv, StoredByAdmittedJoin
  <2>6. QED
    BY <2>4, <2>5
<1>5. ASSUME NEW k \in Calls, CheckRefuses(k) PROVE IInv'
  <2>1. /\ UNCHANGED <<store, captured, leaving, request, passed>>
        /\ pc'[k] = "refused"
        /\ \A l \in Calls \ {k} : pc'[l] = pc[l]
    BY <1>5 DEF CheckRefuses, IInv, TypeOK
  <2>2. QED
    BY <1>0, <2>1, CallStepKeepsInv DEF IInv, StoredByAdmittedJoin
<1>6. ASSUME NEW k \in Calls, OnJoinSucceeds(k) PROVE IInv'
  <2>1. /\ UNCHANGED <<store, captured, leaving, request, passed>>
        /\ pc'[k] = "joined"
        /\ \A l \in Calls \ {k} : pc'[l] = pc[l]
    BY <1>6 DEF OnJoinSucceeds, IInv, TypeOK
  <2>2. QED
    BY <1>0, <2>1, CallStepKeepsInv DEF IInv, StoredByAdmittedJoin
<1>7. ASSUME NEW k \in Calls, OnJoinFails(k) PROVE IInv'
  BY <1>0, <1>7, RollbackKeepsInv
<1>8. ASSUME NEW k \in Calls, OnLeaveSettles(k) PROVE IInv'
  <2>1. /\ UNCHANGED <<store, captured, leaving, request, passed>>
        /\ pc'[k] \in {"left", "leaveFailed"}
        /\ \A l \in Calls \ {k} : pc'[l] = pc[l]
    BY <1>8 DEF OnLeaveSettles, IInv, TypeOK
  <2>2. QED
    BY <1>0, <2>1, CallStepKeepsInv DEF IInv, StoredByAdmittedJoin
<1>9. CASE UNCHANGED vars
  BY <1>0, <1>9, CallStepKeepsInv DEF IInv, StoredByAdmittedJoin, vars, store
<1>10. QED
  BY <1>1, <1>2, <1>3, <1>4, <1>5, <1>6, <1>7, <1>8, <1>9 DEF Next

\* The inductive invariant holds in every reachable state.
THEOREM Invariance == Spec => []IInv
<1>1. Init => IInv
  BY InvInit
<1>2. IInv /\ [Next]_vars => IInv'
  BY InvStep
<1>3. QED
  BY <1>1, <1>2, PTL DEF Spec

\* inspectRuntime lists exactly the channels that have members.
THEOREM ActiveChannels == Spec => []ActiveIffPopulated
<1>1. IInv => ActiveIffPopulated
  BY DEF IInv, CurrentBucket, ActiveIffPopulated, ListChannelMembers, Roster
<1>2. QED
  BY <1>1, Invariance, PTL

\* No member is visible that did not pass every join policy and the authorizer
\* of that channel, whatever the number of concurrent calls and checks.
THEOREM Admission == Spec => []MembersWereAdmitted
<1>1. IInv => MembersWereAdmitted
  <2> SUFFICES ASSUME IInv, NEW c \in Channels, NEW m \in Members,
                      Roster(c, m) # None
               PROVE  LET k == Roster(c, m)
                      IN  /\ request[k] = [op |-> "join", channel |-> c, member |-> m]
                          /\ passed[k] = JoinChecks[c]
    BY DEF MembersWereAdmitted, ListChannelMembers
  <2> DEFINE b == channelMemberships[c]
             k == Roster(c, m)
  <2>1. /\ k = buckets[b][m]
        /\ b \in Calls
        /\ captured[b] = b
        /\ request[b].channel = c
    BY DEF Roster, IInv, TypeOK, CurrentBucket, Stored
  <2>2. /\ k \in Calls
        /\ captured[k] = b
        /\ request[k].member = m
    BY <2>1 DEF IInv, TypeOK, EntryIsStored, Stored
  <2>3. /\ request[k] \in Request
        /\ request[k].op = "join"
        /\ request[k].channel = c
        /\ passed[k] = JoinChecks[request[k].channel]
    BY <2>1, <2>2, NoneAssumption DEF IInv, StoredByAdmittedJoin, BucketOfOneChannel
  <2>4. /\ request[k] = [op |-> "join", channel |-> c, member |-> m]
        /\ passed[k] = JoinChecks[c]
    <3> HIDE DEF k
    <3>1. QED
      BY <2>2, <2>3 DEF Request
  <2>5. QED
    BY <2>4
<1>2. QED
  BY <1>1, Invariance, PTL

\* A join rejected by its onJoin hook is in no bucket, current or stale.
THEOREM Rollback == Spec => []RolledBackJoinIsGone
<1>1. IInv => RolledBackJoinIsGone
  BY NoneAssumption DEF IInv, EntryIsStored, RolledBackJoinIsGone
<1>2. QED
  BY <1>1, Invariance, PTL

\* onLeave sees every membership at most once, and only removed ones.
THEOREM LeaveHooks == Spec => []LeftOnce
<1>1. IInv => LeftOnce
  BY DEF IInv
<1>2. QED
  BY <1>1, Invariance, PTL

\* How the view changes when one entry of one channel changes.
LEMMA ViewUpdate ==
  ASSUME NEW c \in Channels, NEW m \in Members, NEW v,
         \A d \in Channels, n \in Members :
            Roster(d, n)' = IF d = c /\ n = m THEN v ELSE Roster(d, n)
  PROVE  RosterView' = [RosterView EXCEPT ![c][m] = v]
<1>1. \A d \in Channels :
        [n \in Members |-> Roster(d, n)'] =
          IF d = c THEN [[n \in Members |-> Roster(d, n)] EXCEPT ![m] = v]
          ELSE [n \in Members |-> Roster(d, n)]
  OBVIOUS
<1>2. QED
  BY <1>1 DEF RosterView

\* Storing a membership puts it in its channel, for its member, and changes nothing
\* else that a reader sees.
LEMMA StoredInRoster ==
  ASSUME IInv, NEW k \in Calls, NEW c \in Channels, NEW m \in Members,
         captured[k] = None, StoreMembership(k, c, m)
  PROVE  \A d \in Channels, n \in Members :
           Roster(d, n)' = IF d = c /\ n = m THEN k ELSE Roster(d, n)
<1> DEFINE b == IF channelMemberships[c] = None THEN k ELSE channelMemberships[c]
<1>1. b \in Calls
  BY DEF IInv, TypeOK
<1>2. /\ channelMemberships' = [channelMemberships EXCEPT ![c] = b]
      /\ buckets' = [buckets EXCEPT ![b][m] = k]
  BY DEF StoreMembership
<1>3. channelMemberships[c] = None =>
        /\ b = k
        /\ \A n \in Members : buckets[b][n] = None
        /\ \A d \in Channels : channelMemberships[d] # b
  BY NoneAssumption DEF IInv, TypeOK, EntryIsStored, CurrentBucket, Stored, BucketOfOneChannel
<1>4. channelMemberships[c] # None =>
        /\ b = channelMemberships[c]
        /\ \A d \in Channels \ {c} : channelMemberships[d] # b
  BY DEF IInv, CurrentBucket
<1> HIDE DEF b
<1>5. /\ channelMemberships'[c] = b
      /\ \A d \in Channels \ {c} :
           channelMemberships'[d] = channelMemberships[d] /\ channelMemberships[d] # b
      /\ buckets'[b][m] = k
      /\ \A x \in Calls, n \in Members :
           x # b \/ n # m => buckets'[x][n] = buckets[x][n]
  BY <1>1, <1>2, <1>3, <1>4 DEF IInv, TypeOK
<1> TAKE d \in Channels, n \in Members
<1>6. CASE d = c
  BY <1>1, <1>3, <1>4, <1>5, <1>6, NoneAssumption DEF Roster
<1>7. CASE d # c
  BY <1>5, <1>7 DEF Roster, IInv, TypeOK
<1>8. QED
  BY <1>6, <1>7

\* Storing a membership is one Enter of the abstract roster.
LEMMA StoreIsEnter ==
  ASSUME IInv, NEW k \in Calls, NEW c \in Channels, NEW m \in Members,
         captured[k] = None, StoreMembership(k, c, m)
  PROVE  AbstractRoster!Enter(k, c, m)
<1>1. RosterView' = [RosterView EXCEPT ![c][m] = k]
  BY StoredInRoster, ViewUpdate
<1>2. {l \in Calls : captured[l] # None}' = {l \in Calls : captured[l] # None} \cup {k}
  <2>1. /\ captured'[k] # None
        /\ \A l \in Calls \ {k} : captured'[l] = captured[l]
    BY NoneAssumption DEF StoreMembership, IInv, TypeOK
  <2>2. QED
    BY <2>1
<1>3. k \notin {l \in Calls : captured[l] # None}
  OBVIOUS
<1>4. QED
  BY <1>1, <1>2, <1>3 DEF AbstractRoster!Enter

\* Removing a member through a bucket changes nothing in other channels; through the
\* current bucket of the channel it takes away that member and no other.
LEMMA RemovedFromRoster ==
  ASSUME IInv, NEW c \in Channels, NEW b \in Calls, NEW m \in Members,
         request[b].channel = c, RemoveMember(c, b, m)
  PROVE  /\ \A d \in Channels \ {c}, n \in Members : Roster(d, n)' = Roster(d, n)
         /\ channelMemberships[c] = b =>
              \A n \in Members : Roster(c, n)' = IF n = m THEN None ELSE Roster(c, n)
<1>1. /\ buckets'[b][m] = None
      /\ \A x \in Calls, n \in Members :
           x # b \/ n # m => buckets'[x][n] = buckets[x][n]
  BY DEF RemoveMember, IInv, TypeOK
<1>2. \A d \in Channels \ {c} :
        channelMemberships'[d] = channelMemberships[d] /\ channelMemberships[d] # b
  BY NoneAssumption DEF RemoveMember, IInv, TypeOK, CurrentBucket
<1>3. \A d \in Channels \ {c}, n \in Members : Roster(d, n)' = Roster(d, n)
  BY <1>1, <1>2 DEF Roster, IInv, TypeOK
<1>4. ASSUME channelMemberships[c] = b
      PROVE  \A n \in Members : Roster(c, n)' = IF n = m THEN None ELSE Roster(c, n)
  <2>1. \A n \in Members : Roster(c, n) = buckets[b][n]
    BY <1>4, NoneAssumption DEF Roster
  <2>2. CASE \A n \in Members \ {m} : buckets[b][n] = None
    <3>1. channelMemberships'[c] = None
      BY <2>2 DEF RemoveMember, IInv, TypeOK
    <3>2. QED
      BY <2>1, <2>2, <3>1 DEF Roster
  <2>3. CASE ~ \A n \in Members \ {m} : buckets[b][n] = None
    <3>1. channelMemberships'[c] = b
      BY <1>4, <2>3 DEF RemoveMember
    <3>2. QED
      BY <1>1, <2>1, <3>1, NoneAssumption DEF Roster
  <2>4. QED
    BY <2>2, <2>3
<1>5. QED
  BY <1>3, <1>4

\* Removing through the current bucket is one Exit, through a bucket that was
\* replaced it is nothing or, when that bucket is empty, an Evict.
LEMMA RemovalIsExitOrEvict ==
  ASSUME IInv, NEW c \in Channels, NEW b \in Calls, NEW m \in Members,
         request[b].channel = c,
         b = channelMemberships[c] \/ OnJoinMayFail,
         RemoveMember(c, b, m), UNCHANGED captured
  PROVE  [AbstractRoster!Next]_(AbstractRoster!vars)
<1> USE DEF AbstractRoster!vars
<1>1. \A x \in Calls, n \in Members :
        x # b \/ n # m => buckets'[x][n] = buckets[x][n]
  BY DEF RemoveMember, IInv, TypeOK
<1>2. \A d \in Channels :
        \/ channelMemberships'[d] = channelMemberships[d]
        \/ d = c /\ channelMemberships'[d] = None
  BY DEF RemoveMember, IInv, TypeOK
<1>3. \A d \in Channels, n \in Members : d # c => Roster(d, n)' = Roster(d, n)
  BY RemovedFromRoster
<1>4. UNCHANGED {l \in Calls : captured[l] # None}
  OBVIOUS
<1>5. CASE channelMemberships[c] = b
  <2>1. \A n \in Members : Roster(c, n)' = IF n = m THEN None ELSE Roster(c, n)
    BY <1>5, RemovedFromRoster
  <2>2. RosterView' = [RosterView EXCEPT ![c][m] = None]
    BY <1>3, <2>1, ViewUpdate
  <2>3. AbstractRoster!Exit(c, m)
    BY <1>4, <2>2 DEF AbstractRoster!Exit
  <2>4. QED
    BY <2>3 DEF AbstractRoster!Next
<1>6. CASE channelMemberships[c] # b
  <2>1. CASE channelMemberships'[c] = channelMemberships[c]
    <3>1. \A d \in Channels, n \in Members : Roster(d, n)' = Roster(d, n)
      BY <1>1, <1>3, <1>6, <2>1 DEF Roster, IInv, TypeOK
    <3>2. UNCHANGED RosterView
      BY <3>1 DEF RosterView
    <3>3. QED
      BY <1>4, <3>2
  <2>2. CASE channelMemberships'[c] # channelMemberships[c]
    <3>1. \A n \in Members : Roster(c, n)' = None
      BY <1>2, <2>2 DEF Roster
    <3>2. RosterView' = [RosterView EXCEPT ![c] = [n \in Members |-> None]]
      <4>1. \A d \in Channels :
              [n \in Members |-> Roster(d, n)'] =
                IF d = c THEN [n \in Members |-> None]
                ELSE [n \in Members |-> Roster(d, n)]
        BY <1>3, <3>1
      <4>2. QED
        BY <4>1 DEF RosterView
    <3>3. OnJoinMayFail
      BY <1>6
    <3>4. AbstractRoster!Evict(c)
      BY <1>4, <3>2, <3>3 DEF AbstractRoster!Evict
    <3>5. QED
      BY <3>4 DEF AbstractRoster!Next
  <2>3. QED
    BY <2>1, <2>2
<1>7. QED
  BY <1>5, <1>6

\* Every interleaving of joinChannel and leaveChannel calls implements the
\* abstract roster; when onJoin cannot fail, members only ever leave one by one.
THEOREM Refinement == Spec => ImplementsRoster
<1>1. Init => AbstractRoster!Init
  BY DEF Init, AbstractRoster!Init, RosterView, Roster
<1>2. IInv /\ [Next]_vars => [AbstractRoster!Next]_(AbstractRoster!vars)
  <2> SUFFICES ASSUME IInv, [Next]_vars
               PROVE  [AbstractRoster!Next]_(AbstractRoster!vars)
    OBVIOUS
  <2>1. ASSUME UNCHANGED <<store, captured>>
        PROVE  UNCHANGED AbstractRoster!vars
    <3>1. \A d \in Channels, n \in Members : Roster(d, n)' = Roster(d, n)
      BY <2>1 DEF Roster, store
    <3>2. QED
      BY <2>1, <3>1 DEF AbstractRoster!vars, RosterView
  <2>2. ASSUME NEW k \in Calls, NEW c \in Channels, NEW m \in Members,
               captured[k] = None, StoreMembership(k, c, m)
        PROVE  AbstractRoster!Next
    BY <2>2, StoreIsEnter DEF AbstractRoster!Next
  <2>3. ASSUME NEW k \in Calls, NEW c \in Channels, NEW m \in Members,
               JoinChannel(k, c, m)
        PROVE  [AbstractRoster!Next]_(AbstractRoster!vars)
    BY <2>1, <2>2, <2>3 DEF JoinChannel, IInv, StoredByAdmittedJoin
  <2>4. ASSUME NEW k \in Calls, NEW c \in Channels, NEW m \in Members,
               LeaveChannel(k, c, m)
        PROVE  [AbstractRoster!Next]_(AbstractRoster!vars)
    <3>1. CASE channelMemberships[c] = None
      BY <2>1, <2>4, <3>1 DEF LeaveChannel
    <3>2. CASE channelMemberships[c] # None
      <4>1. /\ channelMemberships[c] \in Calls
            /\ request[channelMemberships[c]].channel = c
            /\ RemoveMember(c, channelMemberships[c], m)
            /\ UNCHANGED captured
        BY <2>4, <3>2 DEF LeaveChannel, IInv, TypeOK, CurrentBucket
      <4>2. QED
        BY <4>1, RemovalIsExitOrEvict
    <3>3. QED
      BY <3>1, <3>2
  <2>5. ASSUME NEW k \in Calls, CheckAllows(k)
        PROVE  [AbstractRoster!Next]_(AbstractRoster!vars)
    <3>1. /\ captured[k] = None
          /\ request[k].channel \in Channels
          /\ request[k].member \in Members
      BY <2>5 DEF CheckAllows, IInv, TypeOK, StoredByAdmittedJoin, Waiting, Request
    <3>2. QED
      BY <2>1, <2>2, <2>5, <3>1 DEF CheckAllows
  <2>6. ASSUME NEW k \in Calls, OnJoinFails(k)
        PROVE  [AbstractRoster!Next]_(AbstractRoster!vars)
    <3> DEFINE c == request[k].channel
               b == captured[k]
               m == request[k].member
    <3>1. /\ c \in Channels /\ m \in Members /\ b \in Calls
          /\ request[b].channel = c
          /\ OnJoinMayFail
          /\ RemoveMember(c, b, m)
          /\ UNCHANGED captured
      BY <2>6 DEF OnJoinFails, IInv, TypeOK, StoredByAdmittedJoin,
                  BucketOfOneChannel, Request, Waiting
    <3> HIDE DEF c, b, m
    <3>2. QED
      BY <3>1, RemovalIsExitOrEvict
  <2>7. ASSUME NEW k \in Calls,
               \/ RejectInvalidRequest(k)
               \/ CheckRefuses(k)
               \/ OnJoinSucceeds(k)
               \/ OnLeaveSettles(k)
        PROVE  [AbstractRoster!Next]_(AbstractRoster!vars)
    BY <2>1, <2>7 DEF RejectInvalidRequest, CheckRefuses, OnJoinSucceeds, OnLeaveSettles
  <2>8. CASE UNCHANGED vars
    BY <2>1, <2>8 DEF vars
  <2>9. QED
    BY <2>3, <2>4, <2>5, <2>6, <2>7, <2>8 DEF Next
<1>3. QED
  BY <1>1, <1>2, Invariance, PTL DEF Spec, ImplementsRoster, AbstractRoster!Spec

(***************************************************************************)
(* SocketIoAdapter: sockets, requests and rooms.                           *)
(***************************************************************************)

\* A packet with a handler, or an answered one, is a request.
LEMMA IsRequest ==
  ASSUME AdapterTypeOK, NEW p \in Packets, packet[p].stage \in PacketStage
  PROVE  /\ packet[p] \in Packet
         /\ packet[p].op \in {"join", "leave"}
         /\ packet[p].socket \in Sockets
         /\ packet[p].socket \in Members
         /\ packet[p].channel \in Channels
         /\ packet[p].call \in Calls \cup {None}
<1>1. packet[p] \in Packet \cup {NoPacket, BadPacket}
  BY DEF AdapterTypeOK
<1>2. packet[p] \in Packet
  BY <1>1 DEF PacketStage, NoPacket, BadPacket
<1>3. QED
  BY <1>2 DEF Packet, Sockets

\* A new request, and one whose handler went on, are packets.
LEMMA PacketTypes ==
  ASSUME AdapterTypeOK, NEW p \in Packets
  PROVE  /\ \A op \in {"join", "leave"}, s \in Sockets, c \in Channels,
               stage \in PacketStage, k \in Calls \cup {None} :
              NewPacket(op, s, c, stage, k) \in Packet
         /\ packet[p].stage \in PacketStage =>
              \A stage \in PacketStage, k \in Calls \cup {None} :
                /\ [packet[p] EXCEPT !.stage = stage] \in Packet
                /\ [packet[p] EXCEPT !.stage = stage, !.call = k] \in Packet
<1>1. \A op \in {"join", "leave"}, s \in Sockets, c \in Channels,
         stage \in PacketStage, k \in Calls \cup {None} :
        NewPacket(op, s, c, stage, k) \in Packet
  BY DEF NewPacket, Packet
<1>2. ASSUME packet[p].stage \in PacketStage,
             NEW stage \in PacketStage, NEW k \in Calls \cup {None}
      PROVE  /\ [packet[p] EXCEPT !.stage = stage] \in Packet
             /\ [packet[p] EXCEPT !.stage = stage, !.call = k] \in Packet
  <2>1. packet[p] \in Packet
    BY <1>2, IsRequest
  <2>2. QED
    BY <2>1 DEF Packet
<1>3. QED
  BY <1>1, <1>2

\* The call a handler takes next is one that nobody made yet.
LEMMA NextCallIsIdle ==
  ASSUME CanCall
  PROVE  NextCall \in Calls /\ pc[NextCall] = "idle"
BY DEF CanCall, NextCall

\* The handler of a packet goes on to another stage.
LEMMA PacketStep ==
  ASSUME AdapterTypeOK, NEW p \in Packets, packet[p].stage \in PacketStage,
         NEW stage \in PacketStage,
         packet' = [packet EXCEPT ![p].stage = stage]
  PROVE  /\ packet'[p] = [packet[p] EXCEPT !.stage = stage]
         /\ packet'[p].stage = stage
         /\ packet'[p].op = packet[p].op
         /\ packet'[p].socket = packet[p].socket
         /\ packet'[p].channel = packet[p].channel
         /\ packet'[p].call = packet[p].call
         /\ \A q \in Packets \ {p} : packet'[q] = packet[q]
         /\ packet' \in [Packets -> Packet \cup {NoPacket, BadPacket}]
<1>1. packet' = [packet EXCEPT ![p] = [packet[p] EXCEPT !.stage = stage]]
  OBVIOUS
<1>2. [packet[p] EXCEPT !.stage = stage] \in Packet
  BY PacketTypes
<1>3. packet[p] \in Packet
  BY IsRequest
<1>4. packet'[p] = [packet[p] EXCEPT !.stage = stage]
  BY <1>1 DEF AdapterTypeOK
<1>5. QED
  BY <1>1, <1>2, <1>3, <1>4 DEF AdapterTypeOK, Packet

\* It makes a runtime call and awaits it.
LEMMA PacketCalls ==
  ASSUME AdapterTypeOK, NEW p \in Packets, packet[p].stage \in PacketStage,
         NEW stage \in PacketStage, NEW k \in Calls,
         packet' = [packet EXCEPT ![p].stage = stage, ![p].call = k]
  PROVE  /\ packet'[p].stage = stage
         /\ packet'[p].op = packet[p].op
         /\ packet'[p].socket = packet[p].socket
         /\ packet'[p].channel = packet[p].channel
         /\ packet'[p].call = k
         /\ \A q \in Packets \ {p} : packet'[q] = packet[q]
         /\ packet' \in [Packets -> Packet \cup {NoPacket, BadPacket}]
<1> DEFINE r == [packet[p] EXCEPT !.stage = stage, !.call = k]
<1>1. packet' = [packet EXCEPT ![p] = r]
  BY DEF AdapterTypeOK
<1>2. r \in Packet
  BY PacketTypes
<1>3. packet[p] \in Packet
  BY IsRequest
<1>4. /\ r.stage = stage
      /\ r.op = packet[p].op
      /\ r.socket = packet[p].socket
      /\ r.channel = packet[p].channel
      /\ r.call = k
  BY <1>3 DEF Packet
<1> HIDE DEF r
<1>5. packet'[p] = r
  BY <1>1 DEF AdapterTypeOK
<1>6. QED
  BY <1>1, <1>2, <1>4, <1>5 DEF AdapterTypeOK

(***************************************************************************)
(* The adapter uses the runtime as its interface allows.                   *)
(***************************************************************************)

\* Every step of the adapter makes one step of the runtime, or none.
LEMMA StepBelow ==
  ASSUME AdapterTypeOK, [AdapterNext]_allVars
  PROVE  [Next]_vars
<1>1. ASSUME NEW s \in Sockets, NEW c \in Channels, CanCall,
             JoinChannel(NextCall, c, s) \/ LeaveChannel(NextCall, c, s)
      PROVE  Next
  BY <1>1, NextCallIsIdle DEF Next, Sockets
<1>2. ASSUME NEW p \in Packets, packet[p].stage \in PacketStage, CanCall,
             LeaveChannel(NextCall, packet[p].channel, packet[p].socket)
      PROVE  Next
  BY <1>1, <1>2, IsRequest
<1>3. ASSUME NEW s \in Sockets,
             \/ ConnectionMiddleware(s) \/ RefusesDisposed(s) \/ MiddlewareRemoved(s)
             \/ BuildSocketContext(s) \/ AuthorizeSucceeds(s) \/ AuthorizeFails(s)
             \/ RegisterHandlers(s) \/ OnConnectFails(s) \/ Close(s)
             \/ CleanupNotify(s) \/ CleanupEnds(s)
      PROVE  UNCHANGED vars
  BY <1>3 DEF ConnectionMiddleware, RefusesDisposed, MiddlewareRemoved,
       BuildSocketContext, AuthorizeSucceeds, AuthorizeFails, Reject,
       RegisterHandlers, OnConnectFails, Close, CleanupNotify, CleanupEnds
<1>4. ASSUME NEW s \in Sockets, CleanupLeave(s)
      PROVE  Next
  <2>1. cleanup[s].todo \subseteq Channels
    BY DEF AdapterTypeOK, Cleanup
  <2>2. QED
    BY <1>1, <1>4, <2>1 DEF CleanupLeave
<1>5. ASSUME NEW p \in Packets, NEW s \in Sockets, NEW c \in Channels,
             JoinRequest(p, s, c) \/ LeaveRequest(p, s, c)
      PROVE  [Next]_vars
  BY <1>1, <1>5 DEF JoinRequest, LeaveRequest
<1>6. ASSUME NEW p \in Packets, NEW s \in Sockets, RefuseRequest(p, s)
      PROVE  UNCHANGED vars
  BY <1>6 DEF RefuseRequest
<1>7. ASSUME NEW p \in Packets, JoinRoomFails(p) \/ LeaveRoomSucceeds(p)
      PROVE  Next
  BY <1>2, <1>7 DEF JoinRoomFails, LeaveRoomSucceeds, PacketStage
<1>8. ASSUME NEW p \in Packets,
             \/ JoinRejected(p) \/ JoinRoomSucceeds(p) \/ JoinRollbackEnds(p)
             \/ LeaveRoomFails(p) \/ LeaveEnds(p)
      PROVE  UNCHANGED vars
  BY <1>8 DEF JoinRejected, JoinRoomSucceeds, JoinRollbackEnds, LeaveRoomFails, LeaveEnds
<1>9. ASSUME NEW k \in Calls, RuntimeStep(k)
      PROVE  Next
  BY <1>9 DEF RuntimeStep, Next
<1>10. ASSUME Dispose
       PROVE  UNCHANGED vars
  BY <1>10 DEF Dispose
<1>11. CASE UNCHANGED allVars
  BY <1>11 DEF allVars
<1>12. QED
  BY <1>3, <1>4, <1>5, <1>6, <1>7, <1>8, <1>9, <1>10, <1>11 DEF AdapterNext

\* Every step of the adapter keeps the types of its variables.
LEMMA AdapterTypeStep ==
  ASSUME AdapterTypeOK, [AdapterNext]_allVars
  PROVE  AdapterTypeOK'
<1>1. ASSUME NEW s \in Sockets,
             \/ ConnectionMiddleware(s) \/ RefusesDisposed(s) \/ MiddlewareRemoved(s)
             \/ BuildSocketContext(s) \/ AuthorizeSucceeds(s) \/ AuthorizeFails(s)
             \/ RegisterHandlers(s) \/ OnConnectFails(s)
      PROVE  AdapterTypeOK'
  <2>1. /\ setup' \in [Sockets -> {"new", "building", "authorizing", "rejected",
                                   "notifying", "ready", "unmanaged"}]
        /\ open' \in SUBSET Sockets
        /\ contextBySocketId' \in SUBSET Sockets
        /\ undefinedContexts' \in SUBSET Sockets
        /\ socketHandlersBySocketId' \in SUBSET Sockets
    BY <1>1 DEF AdapterTypeOK, ConnectionMiddleware, RefusesDisposed, MiddlewareRemoved,
         BuildSocketContext, AuthorizeSucceeds, AuthorizeFails, Reject,
         RegisterHandlers, OnConnectFails
  <2>2. UNCHANGED <<joinedChannelsBySocketId, rooms, packet, cleanup, disconnects, lifetime>>
    BY <1>1 DEF ConnectionMiddleware, RefusesDisposed, MiddlewareRemoved,
         BuildSocketContext, AuthorizeSucceeds, AuthorizeFails, Reject,
         RegisterHandlers, OnConnectFails
  <2>3. QED
    BY <2>1, <2>2 DEF AdapterTypeOK, lifetime
<1>2. \A s \in Sockets : CleanupOf(s) \in Cleanup
  BY DEF AdapterTypeOK, CleanupOf, HasContext, Cleanup
<1>3. \A S \in SUBSET Sockets : InHandChannels(S) \subseteq Channels
  <2>1. \A q \in Packets : InHand(q) => packet[q].channel \in Channels
    BY IsRequest DEF InHand, PacketStage
  <2>2. QED
    BY <2>1 DEF InHandChannels
<1>4. \A S \in SUBSET Sockets : RoomsWithout(S) \in [Channels -> SUBSET Sockets]
  BY DEF AdapterTypeOK, RoomsWithout
<1>5. ASSUME NEW s \in Sockets, Close(s)
      PROVE  AdapterTypeOK'
  <2>1. /\ open' \in SUBSET Sockets
        /\ rooms' \in [Channels -> SUBSET Sockets]
        /\ disturbed' \in SUBSET (Sockets \cup Channels)
        /\ UNCHANGED <<setup, contextBySocketId, undefinedContexts, packet, disconnects,
                       isDisposed>>
    BY <1>3, <1>4, <1>5 DEF Close, AdapterTypeOK
  <2>2. /\ socketHandlersBySocketId' \in SUBSET Sockets
        /\ cleanup' \in [Sockets -> Cleanup]
        /\ joinedChannelsBySocketId' \in [Sockets -> SUBSET Channels]
    BY <1>2, <1>5 DEF Close, AdapterTypeOK
  <2>3. QED
    BY <2>1, <2>2 DEF AdapterTypeOK
<1>6. ASSUME Dispose
      PROVE  AdapterTypeOK'
  <2>1. /\ open' \in SUBSET Sockets
        /\ rooms' \in [Channels -> SUBSET Sockets]
        /\ disturbed' \in SUBSET (Sockets \cup Channels)
        /\ isDisposed' \in BOOLEAN
        /\ UNCHANGED <<setup, undefinedContexts, packet, disconnects>>
    BY <1>3, <1>4, <1>6 DEF Dispose, AdapterTypeOK
  <2>2. /\ socketHandlersBySocketId' \in SUBSET Sockets
        /\ contextBySocketId' \in SUBSET Sockets
        /\ joinedChannelsBySocketId' \in [Sockets -> SUBSET Channels]
    BY <1>6 DEF Dispose, AdapterTypeOK
  <2>3. cleanup' \in [Sockets -> Cleanup]
    BY <1>2, <1>6 DEF Dispose, AdapterTypeOK
  <2>4. QED
    BY <2>1, <2>2, <2>3 DEF AdapterTypeOK
<1>7. ASSUME NEW s \in Sockets, CleanupLeave(s) \/ CleanupNotify(s) \/ CleanupEnds(s)
      PROVE  AdapterTypeOK'
  <2>1. cleanup[s] \in Cleanup
    BY DEF AdapterTypeOK
  <2>2. cleanup' \in [Sockets -> Cleanup]
    <3>1. CASE CleanupLeave(s)
      <4>1. PICK c \in cleanup[s].todo :
              cleanup' = [cleanup EXCEPT ![s].todo = @ \ {c}, ![s].call = NextCall]
        BY <3>1 DEF CleanupLeave
      <4> DEFINE r == [cleanup[s] EXCEPT !.todo = @ \ {c}, !.call = NextCall]
      <4>2. r \in Cleanup
        BY <2>1, <3>1, NextCallIsIdle DEF Cleanup, CleanupLeave
      <4>3. cleanup' = [cleanup EXCEPT ![s] = r]
        BY <4>1 DEF AdapterTypeOK
      <4> HIDE DEF r
      <4>4. QED
        BY <4>2, <4>3 DEF AdapterTypeOK
    <3>2. CASE CleanupNotify(s) \/ CleanupEnds(s)
      <4>1. PICK stage \in {"notifying", "done"} :
              cleanup' = [cleanup EXCEPT ![s].stage = stage]
        BY <3>2 DEF CleanupNotify, CleanupEnds
      <4>2. [cleanup[s] EXCEPT !.stage = stage] \in Cleanup
        BY <2>1 DEF Cleanup
      <4>3. cleanup' = [cleanup EXCEPT ![s] = [cleanup[s] EXCEPT !.stage = stage]]
        BY <4>1 DEF AdapterTypeOK
      <4>4. QED
        BY <4>2, <4>3 DEF AdapterTypeOK
    <3>3. QED
      BY <1>7, <3>1, <3>2
  <2>3. /\ disconnects' \in [Sockets -> Nat]
        /\ contextBySocketId' \in SUBSET Sockets
        /\ UNCHANGED <<setup, open, undefinedContexts, socketHandlersBySocketId,
                       joinedChannelsBySocketId, rooms, packet, lifetime>>
    BY <1>7 DEF AdapterTypeOK, CleanupLeave, CleanupNotify, CleanupEnds,
         NotifyDisconnected, sockets
  <2>4. QED
    BY <2>2, <2>3 DEF AdapterTypeOK, lifetime
<1>8. ASSUME NEW p \in Packets, NEW s \in Sockets, NEW c \in Channels,
             JoinRequest(p, s, c) \/ LeaveRequest(p, s, c)
      PROVE  AdapterTypeOK'
  <2>1. packet' \in [Packets -> Packet \cup {NoPacket, BadPacket}]
    <3>1. CASE JoinRequest(p, s, c)
      <4>1. /\ CanCall
            /\ packet' = [packet EXCEPT ![p] = NewPacket("join", s, c, "runtime", NextCall)]
        BY <3>1 DEF JoinRequest
      <4>2. NewPacket("join", s, c, "runtime", NextCall) \in Packet
        BY <4>1, NextCallIsIdle, PacketTypes DEF PacketStage
      <4>3. QED
        BY <4>1, <4>2 DEF AdapterTypeOK
    <3>2. CASE LeaveRequest(p, s, c)
      <4>1. packet' = [packet EXCEPT ![p] = NewPacket("leave", s, c, "leavingRoom", None)]
        BY <3>2 DEF LeaveRequest
      <4>2. NewPacket("leave", s, c, "leavingRoom", None) \in Packet
        BY PacketTypes DEF PacketStage
      <4>3. QED
        BY <4>1, <4>2 DEF AdapterTypeOK
    <3>3. QED
      BY <1>8, <3>1, <3>1, <3>2
  <2>2. /\ disturbed' \in SUBSET (Sockets \cup Channels)
        /\ UNCHANGED <<sockets, joinedChannelsBySocketId, rooms, cleanup, disconnects,
                       isDisposed>>
    BY <1>8 DEF AdapterTypeOK, JoinRequest, LeaveRequest, Arrives, lifetime
  <2>3. QED
    BY <2>1, <2>2 DEF AdapterTypeOK, sockets
<1>9. ASSUME NEW p \in Packets, NEW s \in Sockets, RefuseRequest(p, s)
      PROVE  AdapterTypeOK'
  BY <1>9 DEF AdapterTypeOK, RefuseRequest, sockets, lifetime
<1>10. ASSUME NEW p \in Packets,
             \/ JoinRejected(p) \/ JoinRoomSucceeds(p) \/ JoinRoomFails(p)
             \/ JoinRollbackEnds(p) \/ LeaveRoomSucceeds(p) \/ LeaveRoomFails(p)
             \/ LeaveEnds(p)
      PROVE  AdapterTypeOK'
  <2>1. packet[p].stage \in PacketStage
    BY <1>10 DEF JoinRejected, JoinRoomSucceeds, JoinRoomFails, JoinRollbackEnds,
         LeaveRoomSucceeds, LeaveRoomFails, LeaveEnds, PacketStage
  <2>2. /\ packet[p].socket \in Sockets
        /\ packet[p].channel \in Channels
    BY <2>1, IsRequest
  <2>3. packet' \in [Packets -> Packet \cup {NoPacket, BadPacket}]
    <3>1. CASE JoinRoomFails(p) \/ LeaveRoomSucceeds(p)
      <4>1. PICK stage \in PacketStage :
              packet' = [packet EXCEPT ![p].stage = stage, ![p].call = NextCall]
        BY <3>1 DEF JoinRoomFails, LeaveRoomSucceeds, PacketStage
      <4>2. NextCall \in Calls
        BY <3>1, NextCallIsIdle DEF JoinRoomFails, LeaveRoomSucceeds
      <4>3. QED
        BY <2>1, <4>1, <4>2, PacketCalls
    <3>2. CASE \/ JoinRejected(p) \/ JoinRoomSucceeds(p) \/ JoinRollbackEnds(p)
               \/ LeaveRoomFails(p) \/ LeaveEnds(p)
      <4>1. PICK stage \in PacketStage : packet' = [packet EXCEPT ![p].stage = stage]
        BY <3>2 DEF JoinRejected, JoinRoomSucceeds, JoinRollbackEnds,
             LeaveRoomFails, LeaveEnds, PacketStage
      <4>2. QED
        BY <2>1, <4>1, PacketStep
    <3>3. QED
      BY <1>10, <3>1, <3>2
  <2>4. /\ rooms' \in [Channels -> SUBSET Sockets]
        /\ joinedChannelsBySocketId' \in [Sockets -> SUBSET Channels]
        /\ UNCHANGED <<sockets, cleanup, disconnects, lifetime>>
    BY <1>10, <2>2 DEF AdapterTypeOK, JoinRejected, JoinRoomSucceeds, JoinRoomFails,
         JoinRollbackEnds, LeaveRoomSucceeds, LeaveRoomFails, LeaveEnds,
         RoomWith, RememberJoined, ForgetJoined
  <2>5. QED
    BY <2>3, <2>4 DEF AdapterTypeOK, sockets, lifetime
<1>11. ASSUME UNCHANGED adapterVars
       PROVE  AdapterTypeOK'
  BY <1>11 DEF AdapterTypeOK, adapterVars, sockets, lifetime
<1>12. QED
  BY <1>1, <1>5, <1>6, <1>7, <1>8, <1>9, <1>10, <1>11 DEF AdapterNext, RuntimeStep, allVars

(***************************************************************************)
(* Connections: setup, transport, context, handlers and cleanup.           *)
(***************************************************************************)

\* Nothing but the faults of a request touches what a connection's life depends on.
LEMMA LifecycleFrame ==
  ASSUME ConnectionLifecycle,
         UNCHANGED <<sockets, disconnects, isDisposed>>,
         \A s \in Sockets : s \in disturbed => s \in disturbed',
         \A s \in Sockets : /\ cleanup'[s].stage = cleanup[s].stage
                            /\ cleanup'[s].hadContext = cleanup[s].hadContext
  PROVE  ConnectionLifecycle'
BY DEF ConnectionLifecycle, SettingUp, sockets

\* Every step of the adapter keeps setup, handlers, context and cleanup together.
LEMMA LifecycleStep ==
  ASSUME AdapterTypeOK, ConnectionLifecycle, [AdapterNext]_allVars
  PROVE  ConnectionLifecycle'
<1>1. ASSUME NEW s \in Sockets,
             \/ ConnectionMiddleware(s) \/ RefusesDisposed(s) \/ MiddlewareRemoved(s)
             \/ BuildSocketContext(s) \/ AuthorizeSucceeds(s) \/ AuthorizeFails(s)
             \/ RegisterHandlers(s) \/ OnConnectFails(s)
      PROVE  ConnectionLifecycle'
  <2>1. UNCHANGED <<cleanup, disconnects, isDisposed, disturbed>>
    BY <1>1 DEF ConnectionMiddleware, RefusesDisposed, MiddlewareRemoved,
         BuildSocketContext, AuthorizeSucceeds, AuthorizeFails, Reject,
         RegisterHandlers, OnConnectFails, lifetime
  <2>2. ASSUME NEW x \in Sockets \ {s}
        PROVE  /\ setup'[x] = setup[x]
               /\ x \in open' <=> x \in open
               /\ x \in contextBySocketId' <=> x \in contextBySocketId
               /\ x \in undefinedContexts' <=> x \in undefinedContexts
               /\ x \in socketHandlersBySocketId' <=> x \in socketHandlersBySocketId
    BY <1>1, <2>2 DEF AdapterTypeOK, ConnectionMiddleware, RefusesDisposed,
         MiddlewareRemoved, BuildSocketContext, AuthorizeSucceeds, AuthorizeFails, Reject,
         RegisterHandlers, OnConnectFails
  <2>3. CASE ConnectionMiddleware(s) \/ RefusesDisposed(s) \/ MiddlewareRemoved(s)
    BY <2>1, <2>2, <2>3 DEF AdapterTypeOK, ConnectionLifecycle, SettingUp,
         ConnectionMiddleware, RefusesDisposed, MiddlewareRemoved
  <2>4. CASE BuildSocketContext(s) \/ AuthorizeSucceeds(s)
    BY <2>1, <2>2, <2>4 DEF AdapterTypeOK, ConnectionLifecycle, SettingUp,
         BuildSocketContext, AuthorizeSucceeds
  <2>5. CASE AuthorizeFails(s) \/ OnConnectFails(s)
    BY <2>1, <2>2, <2>5 DEF AdapterTypeOK, ConnectionLifecycle, SettingUp,
         AuthorizeFails, OnConnectFails, NotifiesConnected, Reject
  <2>6. CASE RegisterHandlers(s)
    BY <2>1, <2>2, <2>6 DEF AdapterTypeOK, ConnectionLifecycle, SettingUp,
         RegisterHandlers, NotifiesConnected
  <2>7. QED
    BY <1>1, <2>3, <2>4, <2>5, <2>6
<1>2. ASSUME NEW s \in Sockets, Close(s)
      PROVE  ConnectionLifecycle'
  <2>1. /\ UNCHANGED <<setup, contextBySocketId, undefinedContexts, disconnects, isDisposed>>
        /\ s \in open
        /\ open' = open \ {s}
        /\ \A x \in Sockets : x \in disturbed => x \in disturbed'
        /\ SettingUp(s) => s \in disturbed'
    BY <1>2 DEF Close
  <2>2. CASE s \in socketHandlersBySocketId
    <3>1. /\ socketHandlersBySocketId' = socketHandlersBySocketId \ {s}
          /\ cleanup' = [cleanup EXCEPT ![s] = CleanupOf(s)]
      BY <1>2, <2>2 DEF Close
    <3>2. /\ cleanup'[s].stage = "leaving"
          /\ cleanup'[s].hadContext <=> HasContext(s)
          /\ \A x \in Sockets \ {s} : cleanup'[x] = cleanup[x]
      BY <3>1 DEF AdapterTypeOK, CleanupOf
    <3>3. QED
      BY <2>1, <2>2, <3>1, <3>2 DEF ConnectionLifecycle, SettingUp, HasContext
  <2>3. CASE s \notin socketHandlersBySocketId
    <3>1. UNCHANGED <<socketHandlersBySocketId, cleanup>>
      BY <1>2, <2>3 DEF Close
    <3>2. QED
      BY <2>1, <2>3, <3>1 DEF ConnectionLifecycle, SettingUp
  <2>4. QED
    BY <2>2, <2>3
<1>3. ASSUME Dispose
      PROVE  ConnectionLifecycle'
  <2> DEFINE connected == {s \in open : setup[s] \in {"notifying", "ready"}}
  <2>1. /\ isDisposed' = TRUE
        /\ UNCHANGED <<setup, undefinedContexts, disconnects>>
        /\ open' = open \ connected
        /\ contextBySocketId' = {}
        /\ socketHandlersBySocketId' =
             socketHandlersBySocketId \ (connected \cap socketHandlersBySocketId)
        /\ \A x \in Sockets : x \in disturbed => x \in disturbed'
        /\ \A x \in connected : setup[x] = "notifying" => x \in disturbed'
    BY <1>3 DEF Dispose
  <2>2. \A s \in connected \cap socketHandlersBySocketId : s \in Sockets =>
          /\ cleanup'[s].stage = "leaving"
          /\ cleanup'[s].hadContext <=> HasContext(s)
    BY <1>3 DEF Dispose, CleanupOf
  <2>3. \A s \in Sockets : s \notin connected \cap socketHandlersBySocketId =>
          cleanup'[s] = cleanup[s]
    BY <1>3 DEF Dispose
  <2>4. ASSUME NEW s \in Sockets, s \in connected \cap socketHandlersBySocketId
        PROVE  /\ setup[s] = "ready"
               /\ HasContext(s) <=> s \notin undefinedContexts
               /\ disconnects[s] = 0
    BY <2>4 DEF ConnectionLifecycle, HasContext
  <2>5. ASSUME NEW s \in Sockets
        PROVE  s \in connected <=> s \in open /\ setup[s] \in {"notifying", "ready"}
    OBVIOUS
  <2> HIDE DEF connected
  <2>6. QED
    BY <2>1, <2>2, <2>3, <2>4, <2>5 DEF ConnectionLifecycle, SettingUp
<1>4. ASSUME NEW s \in Sockets, CleanupLeave(s)
      PROVE  ConnectionLifecycle'
  <2>1. cleanup[s] \in Cleanup
    BY DEF AdapterTypeOK
  <2>2. PICK c \in cleanup[s].todo :
          cleanup' = [cleanup EXCEPT ![s].todo = @ \ {c}, ![s].call = NextCall]
    BY <1>4 DEF CleanupLeave
  <2>3. \A x \in Sockets : /\ cleanup'[x].stage = cleanup[x].stage
                           /\ cleanup'[x].hadContext = cleanup[x].hadContext
    BY <2>1, <2>2 DEF AdapterTypeOK, Cleanup
  <2>4. UNCHANGED <<sockets, disconnects, isDisposed, disturbed>>
    BY <1>4 DEF CleanupLeave, lifetime
  <2>5. QED
    BY <2>3, <2>4, LifecycleFrame
<1>5. ASSUME NEW s \in Sockets, CleanupNotify(s) \/ CleanupEnds(s)
      PROVE  ConnectionLifecycle'
  <2>1. cleanup[s] \in Cleanup
    BY DEF AdapterTypeOK
  <2>2. PICK stage \in {"notifying", "done"} :
          /\ cleanup' = [cleanup EXCEPT ![s].stage = stage]
          /\ stage = "notifying" => CleanupNotify(s)
          /\ stage = "done" => CleanupEnds(s)
    BY <1>5 DEF CleanupNotify, CleanupEnds
  <2>3. /\ cleanup'[s].stage = stage
        /\ cleanup'[s].hadContext = cleanup[s].hadContext
        /\ \A x \in Sockets \ {s} : cleanup'[x] = cleanup[x]
    BY <2>1, <2>2 DEF AdapterTypeOK, Cleanup
  <2>4. UNCHANGED <<setup, open, undefinedContexts, socketHandlersBySocketId, isDisposed,
                    disturbed>>
    BY <1>5 DEF CleanupNotify, CleanupEnds, sockets, lifetime
  <2>5. CASE stage = "notifying"
    <3>1. /\ cleanup[s].stage = "leaving"
          /\ UNCHANGED contextBySocketId
          /\ NotifyDisconnected(s)
      BY <2>2, <2>5 DEF CleanupNotify, CleanupMayGoOn, sockets
    <3>2. /\ disconnects'[s] = IF cleanup[s].hadContext THEN 1 ELSE 0
          /\ \A x \in Sockets \ {s} : disconnects'[x] = disconnects[x]
      BY <3>1 DEF NotifyDisconnected, ConnectionLifecycle, AdapterTypeOK
    <3>3. QED
      BY <2>3, <2>4, <2>5, <3>1, <3>2 DEF ConnectionLifecycle, SettingUp
  <2>6. CASE stage = "done"
    <3>1. /\ cleanup[s].stage = "notifying"
          /\ contextBySocketId' = contextBySocketId \ {s}
          /\ UNCHANGED disconnects
      BY <2>2, <2>6 DEF CleanupEnds
    <3>2. QED
      BY <2>3, <2>4, <2>6, <3>1 DEF ConnectionLifecycle, SettingUp
  <2>7. QED
    BY <2>5, <2>6
<1>6. ASSUME NEW p \in Packets, NEW s \in Sockets, NEW c \in Channels,
             JoinRequest(p, s, c) \/ LeaveRequest(p, s, c)
      PROVE  ConnectionLifecycle'
  BY <1>6, LifecycleFrame DEF JoinRequest, LeaveRequest, Arrives, lifetime
<1>7. ASSUME NEW p \in Packets, NEW s \in Sockets, RefuseRequest(p, s)
      PROVE  ConnectionLifecycle'
  BY <1>7, LifecycleFrame DEF RefuseRequest, lifetime
<1>8. ASSUME NEW p \in Packets,
             \/ JoinRejected(p) \/ JoinRoomSucceeds(p) \/ JoinRoomFails(p)
             \/ JoinRollbackEnds(p) \/ LeaveRoomSucceeds(p) \/ LeaveRoomFails(p)
             \/ LeaveEnds(p)
      PROVE  ConnectionLifecycle'
  BY <1>8, LifecycleFrame DEF JoinRejected, JoinRoomSucceeds, JoinRoomFails,
       JoinRollbackEnds, LeaveRoomSucceeds, LeaveRoomFails, LeaveEnds, lifetime
<1>9. ASSUME UNCHANGED adapterVars
      PROVE  ConnectionLifecycle'
  BY <1>9, LifecycleFrame DEF adapterVars, lifetime
<1>10. QED
  BY <1>1, <1>2, <1>3, <1>4, <1>5, <1>6, <1>7, <1>8, <1>9 DEF AdapterNext, RuntimeStep, allVars

(***************************************************************************)
(* What the calls of the runtime do to its roster.                         *)
(***************************************************************************)

\* joinChannel, up to its first await.
LEMMA JoinStarts ==
  ASSUME IInv, NEW k \in Calls, NEW c \in Channels, NEW m \in Members,
         JoinChannel(k, c, m)
  PROVE  /\ pc[k] = "idle"
         /\ request'[k] = [op |-> "join", channel |-> c, member |-> m]
         /\ pc'[k] \in {"checking", "onJoin", "joined"}
         /\ \A l \in Calls \ {k} : request'[l] = request[l] /\ pc'[l] = pc[l]
         /\ \A d \in Channels, n \in Members :
              Roster(d, n)' = IF d = c /\ n = m /\ pc'[k] # "checking"
                              THEN k ELSE Roster(d, n)
<1>1. /\ pc[k] = "idle"
      /\ request'[k] = [op |-> "join", channel |-> c, member |-> m]
      /\ \A l \in Calls \ {k} : request'[l] = request[l]
  BY DEF JoinChannel, IInv, TypeOK
<1>2. CASE JoinChecks[c] = 0
  <2>1. StoreMembership(k, c, m)
    BY <1>2 DEF JoinChannel
  <2>2. captured[k] = None
    BY <1>1 DEF IInv, StoredByAdmittedJoin
  <2>3. /\ pc'[k] \in {"onJoin", "joined"}
        /\ \A l \in Calls \ {k} : pc'[l] = pc[l]
    BY <2>1 DEF StoreMembership, IInv, TypeOK
  <2>4. \A d \in Channels, n \in Members :
          Roster(d, n)' = IF d = c /\ n = m THEN k ELSE Roster(d, n)
    BY <2>1, <2>2, StoredInRoster
  <2>5. QED
    BY <1>1, <2>3, <2>4
<1>3. CASE JoinChecks[c] # 0
  <2>1. /\ pc'[k] = "checking"
        /\ \A l \in Calls \ {k} : pc'[l] = pc[l]
        /\ UNCHANGED store
    BY <1>3 DEF JoinChannel, IInv, TypeOK
  <2>2. \A d \in Channels, n \in Members : Roster(d, n)' = Roster(d, n)
    BY <2>1 DEF Roster, store
  <2>3. QED
    BY <1>1, <2>1, <2>2
<1>4. QED
  BY <1>2, <1>3

\* leaveChannel, up to its first await.
LEMMA LeaveStarts ==
  ASSUME IInv, NEW k \in Calls, NEW c \in Channels, NEW m \in Members,
         LeaveChannel(k, c, m)
  PROVE  /\ pc[k] = "idle"
         /\ request'[k] = [op |-> "leave", channel |-> c, member |-> m]
         /\ pc'[k] \in {"absent", "onLeave", "left"}
         /\ \A l \in Calls \ {k} : request'[l] = request[l] /\ pc'[l] = pc[l]
         /\ \A d \in Channels, n \in Members :
              Roster(d, n)' = IF d = c /\ n = m THEN None ELSE Roster(d, n)
<1>1. /\ pc[k] = "idle"
      /\ request'[k] = [op |-> "leave", channel |-> c, member |-> m]
      /\ pc'[k] \in {"absent", "onLeave", "left"}
      /\ \A l \in Calls \ {k} : request'[l] = request[l] /\ pc'[l] = pc[l]
  BY DEF LeaveChannel, IInv, TypeOK
<1>2. CASE channelMemberships[c] = None
  <2>1. UNCHANGED store
    BY <1>2 DEF LeaveChannel
  <2>2. \A d \in Channels, n \in Members : Roster(d, n)' = Roster(d, n)
    BY <2>1 DEF Roster, store
  <2>3. QED
    BY <1>1, <1>2, <2>2 DEF Roster
<1>3. CASE channelMemberships[c] # None
  <2>1. /\ channelMemberships[c] \in Calls
        /\ request[channelMemberships[c]].channel = c
        /\ RemoveMember(c, channelMemberships[c], m)
    BY <1>3 DEF LeaveChannel, IInv, TypeOK, CurrentBucket
  <2>2. \A d \in Channels, n \in Members :
          Roster(d, n)' = IF d = c /\ n = m THEN None ELSE Roster(d, n)
    BY <2>1, RemovedFromRoster
  <2>3. QED
    BY <1>1, <2>2
<1>4. QED
  BY <1>2, <1>3

\* A call that goes on awaits something and has a valid request.
LEMMA CallIsWaiting ==
  ASSUME IInv, NEW k \in Calls, RuntimeStep(k)
  PROVE  /\ pc[k] \in Waiting
         /\ request[k] \in Request
         /\ request[k].channel \in Channels /\ request[k].member \in Members
BY DEF RuntimeStep, CheckAllows, CheckRefuses, OnJoinSucceeds, OnJoinFails,
       OnLeaveSettles, Waiting, IInv, TypeOK, Request

\* A later step of a call touches its own channel alone, and there its own member,
\* unless a join is rolled back whose membership is not in the roster any more.
LEMMA CallGoesOn ==
  ASSUME IInv, NEW k \in Calls, RuntimeStep(k),
         NEW c \in Channels, NEW m \in Members,
         request[k].channel = c, request[k].member = m
  PROVE  /\ pc[k] = "checking" => pc'[k] \in {"checking", "onJoin", "joined", "refused"}
         /\ pc[k] = "onJoin" => pc'[k] \in {"joined", "rolledBack"}
         /\ pc[k] = "onLeave" => pc'[k] \in {"left", "leaveFailed"}
         /\ UNCHANGED request
         /\ \A l \in Calls \ {k} : pc'[l] = pc[l]
         /\ \A d \in Channels \ {c}, n \in Members : Roster(d, n)' = Roster(d, n)
         /\ pc'[k] # "rolledBack" \/ Roster(c, m) = k =>
              \A n \in Members :
                Roster(c, n)' =
                  IF n # m THEN Roster(c, n)
                  ELSE IF pc[k] = "checking" /\ pc'[k] \in {"onJoin", "joined"} THEN k
                  ELSE IF pc'[k] = "rolledBack" THEN None
                  ELSE Roster(c, n)
<1>1. pc[k] \in Waiting
  BY CallIsWaiting
<1>2. UNCHANGED request
  BY DEF RuntimeStep, CheckAllows, CheckRefuses, OnJoinSucceeds, OnJoinFails, OnLeaveSettles
<1>3. CASE CheckAllows(k) /\ passed[k] + 1 = JoinChecks[c]
  <2>1. StoreMembership(k, c, m) /\ pc[k] = "checking"
    BY <1>3 DEF CheckAllows
  <2>2. captured[k] = None
    BY <2>1 DEF IInv, StoredByAdmittedJoin
  <2>3. \A d \in Channels, n \in Members :
          Roster(d, n)' = IF d = c /\ n = m THEN k ELSE Roster(d, n)
    BY <2>1, <2>2, StoredInRoster
  <2>4. /\ pc'[k] \in {"onJoin", "joined"}
        /\ \A l \in Calls \ {k} : pc'[l] = pc[l]
    BY <2>1 DEF StoreMembership, IInv, TypeOK
  <2>5. QED
    BY <1>1, <1>2, <2>1, <2>3, <2>4
<1>4. CASE \/ CheckAllows(k) /\ passed[k] + 1 # JoinChecks[c]
           \/ CheckRefuses(k) \/ OnJoinSucceeds(k) \/ OnLeaveSettles(k)
  <2>1. UNCHANGED store
    BY <1>4 DEF CheckAllows, CheckRefuses, OnJoinSucceeds, OnLeaveSettles
  <2>2. \A d \in Channels, n \in Members : Roster(d, n)' = Roster(d, n)
    BY <2>1 DEF Roster, store
  <2>3. /\ pc[k] = "checking" => pc'[k] \in {"checking", "refused"}
        /\ pc[k] = "onJoin" => pc'[k] = "joined"
        /\ pc[k] = "onLeave" => pc'[k] \in {"left", "leaveFailed"}
        /\ \A l \in Calls \ {k} : pc'[l] = pc[l]
    BY <1>4 DEF CheckAllows, CheckRefuses, OnJoinSucceeds, OnLeaveSettles, IInv, TypeOK
  <2>4. QED
    BY <1>1, <1>2, <2>2, <2>3 DEF Waiting
<1>5. CASE OnJoinFails(k)
  <2>1. /\ captured[k] \in Calls
        /\ request[captured[k]].channel = c
        /\ RemoveMember(c, captured[k], m)
    BY <1>5 DEF OnJoinFails, IInv, TypeOK, StoredByAdmittedJoin, BucketOfOneChannel, Waiting
  <2>2. /\ pc[k] = "onJoin" /\ pc'[k] = "rolledBack"
        /\ \A l \in Calls \ {k} : pc'[l] = pc[l]
    BY <1>5 DEF OnJoinFails, IInv, TypeOK
  <2>3. Roster(c, m) = k => channelMemberships[c] = captured[k]
    BY NoneAssumption DEF Roster, IInv, TypeOK, EntryIsStored, Stored
  <2>4. /\ \A d \in Channels \ {c}, n \in Members : Roster(d, n)' = Roster(d, n)
        /\ Roster(c, m) = k =>
             \A n \in Members : Roster(c, n)' = IF n = m THEN None ELSE Roster(c, n)
    <3>1. PICK b \in Calls : b = captured[k]
      BY <2>1
    <3>2. QED
      BY <2>1, <2>3, <3>1, RemovedFromRoster
  <2>5. QED
    BY <1>1, <1>2, <2>2, <2>4
<1>6. QED
  BY <1>3, <1>4, <1>5 DEF RuntimeStep

(***************************************************************************)
(* Requests and their calls.                                               *)
(***************************************************************************)

\* One handler takes a step, and may start a call: the others keep their calls.
LEMMA OwnershipFrame ==
  ASSUME AdapterTypeOK, RequestsOwnCalls, CallsHaveOwners, NEW p \in Packets,
         UNCHANGED <<setup, open>>,
         disturbed \subseteq disturbed',
         \A q \in Packets \ {p} : packet'[q] = packet[q],
         \A k \in Calls : pc[k] # "idle" => pc'[k] = pc[k] /\ request'[k] = request[k],
         \A k \in Calls : pc[k] = "idle" /\ pc'[k] # "idle" => HasOwner(k)',
         InHand(p)' => OwnsCall(p)',
         packet[p].stage = "runtime" => pc[packet[p].call] \notin {"checking", "onJoin"}
  PROVE  RequestsOwnCalls' /\ CallsHaveOwners'
<1>1. RequestsOwnCalls'
  <2> SUFFICES ASSUME NEW q \in Packets, InHand(q)'
               PROVE  OwnsCall(q)'
    BY DEF RequestsOwnCalls
  <2>1. CASE q = p
    BY <2>1
  <2>2. CASE q # p
    <3>1. packet'[q] = packet[q]
      BY <2>2
    <3>2. InHand(q)
      BY <3>1 DEF InHand
    <3>3. OwnsCall(q)
      BY <3>2 DEF RequestsOwnCalls
    <3>4. packet[q].stage # "leavingRoom" =>
            /\ packet[q].call \in Calls
            /\ pc'[packet[q].call] = pc[packet[q].call]
            /\ request'[packet[q].call] = request[packet[q].call]
      BY <3>3 DEF OwnsCall
    <3>5. QED
      BY <3>1, <3>3, <3>4 DEF OwnsCall
  <2>3. QED
    BY <2>1, <2>2
<1>2. CallsHaveOwners'
  <2> SUFFICES ASSUME NEW k \in Calls, pc'[k] # "idle"
               PROVE  HasOwner(k)'
    BY DEF CallsHaveOwners
  <2>1. CASE pc[k] # "idle"
    <3>1. pc'[k] = pc[k] /\ request'[k] = request[k]
      BY <2>1
    <3>2. HasOwner(k)
      BY <2>1 DEF CallsHaveOwners
    <3>3. ASSUME pc[k] \in {"checking", "onJoin"}
          PROVE  \E q \in Packets : packet'[q].stage = "runtime" /\ packet'[q].call = k
      <4>1. PICK q \in Packets : packet[q].stage = "runtime" /\ packet[q].call = k
        BY <3>2, <3>3 DEF HasOwner
      <4>2. q # p
        BY <3>3, <4>1
      <4>3. QED
        BY <4>1, <4>2
    <3>4. QED
      BY <3>1, <3>2, <3>3 DEF HasOwner
  <2>2. QED
    BY <2>1
<1>3. QED
  BY <1>1, <1>2

\* One handler of socket s and channel c takes a step that touches no other pair,
\* faulty channels apart: what it leaves behind is what there is to show.
LEMMA RecordsFrame ==
  ASSUME AdapterTypeOK, AdapterTypeOK',
         OneRequestInHand, RecordsFollowRequests, RequestsInHand,
         NEW p \in Packets, NEW s \in Sockets, NEW c \in Channels,
         UNCHANGED <<open, cleanup>>,
         disturbed \subseteq disturbed',
         InHand(p) \/ InHand(p)',
         InHand(p) => packet[p].socket = s /\ packet[p].channel = c,
         InHand(p)' => packet'[p].socket = s /\ packet'[p].channel = c,
         \A q \in Packets \ {p} : packet'[q] = packet[q],
         \A q \in Packets \ {p} :
           packet[q].stage = "runtime" /\ packet[q].channel \notin disturbed' =>
             pc'[packet[q].call] = pc[packet[q].call],
         \A d \in Channels \ disturbed', n \in Sockets : d # c \/ n # s =>
           /\ Roster(d, n)' = Roster(d, n)
           /\ n \in rooms'[d] <=> n \in rooms[d]
           /\ d \in joinedChannelsBySocketId'[n] <=> d \in joinedChannelsBySocketId[n],
         c \notin disturbed' =>
           /\ s \in open
           /\ InHand(p)' => (InHand(p) \/ ~Requested(s, c)) /\ HalfJoined(p)'
           /\ ~InHand(p)' => Agree(s, c)'
  PROVE  OneRequestInHand' /\ RecordsFollowRequests' /\ RequestsInHand'
<1>1. \A q \in Packets \ {p} : InHand(q)' <=> InHand(q)
  BY DEF InHand
<1>2. \A q \in Packets \ {p} :
        InHand(q) /\ packet[q].socket = s /\ packet[q].channel = c => c \in disturbed'
  <2> SUFFICES ASSUME NEW q \in Packets \ {p}, InHand(q), packet[q].socket = s,
                      packet[q].channel = c, c \notin disturbed'
               PROVE  FALSE
    OBVIOUS
  <2>1. Requested(s, c)
    BY DEF Requested
  <2>2. InHand(p)
    BY <2>1
  <2>3. c \notin disturbed
    OBVIOUS
  <2>4. QED
    BY <2>2, <2>3 DEF OneRequestInHand
<1>3. OneRequestInHand'
  <2> SUFFICES ASSUME NEW q \in Packets, NEW r \in Packets, q # r, InHand(q)', InHand(r)',
                      packet'[q].socket = packet'[r].socket,
                      packet'[q].channel = packet'[r].channel,
                      packet'[q].channel \notin disturbed'
               PROVE  FALSE
    BY DEF OneRequestInHand
  <2>1. CASE q = p
    BY <1>1, <1>2, <2>1
  <2>2. CASE r = p
    BY <1>1, <1>2, <2>2
  <2>3. CASE q # p /\ r # p
    BY <1>1, <2>3 DEF OneRequestInHand
  <2>4. QED
    BY <2>1, <2>2, <2>3
<1>4. RecordsFollowRequests'
  <2> SUFFICES ASSUME NEW n \in Sockets, NEW d \in Channels, d \notin disturbed'
               PROVE  /\ n \in open /\ ~Requested(n, d)' => Agree(n, d)'
                      /\ n \notin open =>
                           /\ d \notin joinedChannelsBySocketId'[n]
                           /\ Roster(d, n)' # None =>
                                cleanup[n].stage = "leaving" /\ d \in cleanup[n].todo
    BY DEF RecordsFollowRequests
  <2>1. CASE n = s /\ d = c
    <3>1. n \in open
      BY <2>1
    <3>2. ASSUME ~Requested(n, d)' PROVE ~InHand(p)'
      BY <2>1, <3>2 DEF Requested
    <3>3. QED
      BY <2>1, <3>1, <3>2
  <2>2. CASE n # s \/ d # c
    <3>1. /\ Roster(d, n)' = Roster(d, n)
          /\ n \in rooms'[d] <=> n \in rooms[d]
          /\ d \in joinedChannelsBySocketId'[n] <=> d \in joinedChannelsBySocketId[n]
      BY <2>2
    <3>2. Requested(n, d) => Requested(n, d)'
      BY <1>1, <2>2 DEF Requested
    <3>3. d \notin disturbed
      OBVIOUS
    <3>4. /\ n \in open /\ ~Requested(n, d) => Agree(n, d)
          /\ n \notin open =>
               /\ d \notin joinedChannelsBySocketId[n]
               /\ Roster(d, n) # None =>
                    cleanup[n].stage = "leaving" /\ d \in cleanup[n].todo
      BY <3>3 DEF RecordsFollowRequests
    <3>5. Agree(n, d) => Agree(n, d)'
      BY <3>1 DEF Agree
    <3>6. QED
      BY <3>1, <3>2, <3>4, <3>5
  <2>3. QED
    BY <2>1, <2>2
<1>5. RequestsInHand'
  <2> SUFFICES ASSUME NEW q \in Packets, InHand(q)', packet'[q].channel \notin disturbed'
               PROVE  HalfJoined(q)'
    BY DEF RequestsInHand
  <2>1. CASE q = p
    BY <2>1
  <2>2. CASE q # p
    <3>1. /\ InHand(q)
          /\ packet'[q] = packet[q]
          /\ packet[q].channel \notin disturbed
      BY <1>1, <2>2
    <3>2. HalfJoined(q)
      BY <3>1 DEF RequestsInHand
    <3>3. PICK n \in Sockets, d \in Channels : n = packet[q].socket /\ d = packet[q].channel
      BY <3>1, IsRequest DEF InHand, PacketStage
    <3>4. n # s \/ d # c
      BY <1>2, <2>2, <3>1, <3>3
    <3>5. /\ Roster(d, n)' = Roster(d, n)
          /\ n \in rooms'[d] <=> n \in rooms[d]
          /\ d \in joinedChannelsBySocketId'[n] <=> d \in joinedChannelsBySocketId[n]
      BY <3>1, <3>3, <3>4
    <3>6. packet[q].stage = "runtime" => pc'[packet[q].call] = pc[packet[q].call]
      BY <2>2, <3>1
    <3>7. QED
      BY <3>1, <3>2, <3>3, <3>5, <3>6 DEF HalfJoined, Agree
  <2>3. QED
    BY <2>1, <2>2
<1>6. QED
  BY <1>3, <1>4, <1>5

\* A request that arrives was sent by an open, ready socket; unless it is a fault,
\* the records of its channel agree and nothing is in hand.
LEMMA Arrival ==
  ASSUME AdapterTypeOK, ConnectionLifecycle, RequestInv,
         NEW p \in Packets, NEW op, NEW s \in Sockets, NEW c \in Channels,
         Arrives(p, op, s, c)
  PROVE  /\ s \in open /\ setup[s] = "ready"
         /\ packet[p].stage = "none" /\ ~InHand(p)
         /\ disturbed \subseteq disturbed'
         /\ c \notin disturbed' =>
              /\ ~Requested(s, c)
              /\ Agree(s, c)
              /\ op = "join" => c \notin joinedChannelsBySocketId[s]
<1>1. /\ s \in open /\ setup[s] = "ready"
      /\ packet[p].stage = "none" /\ ~InHand(p)
      /\ disturbed \subseteq disturbed'
  BY DEF Arrives, Hears, ConnectionLifecycle, InHand, NoPacket
<1>2. ASSUME c \notin disturbed'
      PROVE  /\ ~Requested(s, c)
             /\ op = "join" => c \notin joinedChannelsBySocketId[s]
  <2>1. ~Overlaps(s, c) /\ ~Rejoins(op, s, c)
    BY <1>2 DEF Arrives
  <2>2. QED
    BY <2>1 DEF Overlaps, InHandChannels, Requested, Rejoins
<1>3. ASSUME c \notin disturbed'
      PROVE  Agree(s, c)
  BY <1>1, <1>2, <1>3 DEF RequestInv, RecordsFollowRequests
<1>4. QED
  BY <1>1, <1>2, <1>3

\* A join request that arrives keeps the records of requests.
LEMMA JoinRequestInv ==
  ASSUME AdapterIInv, AdapterTypeOK', NEW p \in Packets, NEW s \in Sockets,
         NEW c \in Channels, JoinRequest(p, s, c)
  PROVE  RequestInv'
<1> USE DEF AdapterIInv
<1>1. PICK k \in Calls : k = NextCall /\ pc[k] = "idle"
  BY NextCallIsIdle DEF JoinRequest
<1>2. /\ Arrives(p, "join", s, c)
      /\ JoinChannel(k, c, s)
      /\ packet' = [packet EXCEPT ![p] = NewPacket("join", s, c, "runtime", k)]
      /\ UNCHANGED <<sockets, joinedChannelsBySocketId, rooms, cleanup>>
  BY <1>1 DEF JoinRequest
<1>3. /\ s \in open /\ setup[s] = "ready"
      /\ packet[p].stage = "none" /\ ~InHand(p)
      /\ disturbed \subseteq disturbed'
      /\ c \notin disturbed' =>
           /\ ~Requested(s, c)
           /\ Agree(s, c)
           /\ c \notin joinedChannelsBySocketId[s]
  BY <1>2, Arrival
<1>4. /\ packet'[p].op = "join" /\ packet'[p].socket = s /\ packet'[p].channel = c
      /\ packet'[p].stage = "runtime" /\ packet'[p].call = k
      /\ \A q \in Packets \ {p} : packet'[q] = packet[q]
  BY <1>2 DEF AdapterTypeOK, NewPacket
<1>5. InHand(p)'
  BY <1>4 DEF InHand
<1>6. /\ request'[k] = [op |-> "join", channel |-> c, member |-> s]
      /\ pc'[k] \in {"checking", "onJoin", "joined"}
      /\ \A l \in Calls \ {k} : request'[l] = request[l] /\ pc'[l] = pc[l]
      /\ \A d \in Channels, n \in Members :
           Roster(d, n)' = IF d = c /\ n = s /\ pc'[k] # "checking"
                           THEN k ELSE Roster(d, n)
  BY <1>2, JoinStarts DEF Sockets
<1>7. OwnsCall(p)'
  BY <1>2, <1>3, <1>4, <1>6 DEF OwnsCall, sockets
<1>8. HasOwner(k)'
  BY <1>2, <1>3, <1>4, <1>6 DEF HasOwner, Request, Sockets, sockets
<1>9. RequestsOwnCalls' /\ CallsHaveOwners'
  BY <1>1, <1>2, <1>3, <1>4, <1>6, <1>7, <1>8, OwnershipFrame DEF RequestInv, sockets
<1>10. RoomsOfReadySockets'
  BY <1>2 DEF RequestInv, RoomsOfReadySockets, sockets
<1>11. c \notin disturbed' => HalfJoined(p)'
  <2> SUFFICES ASSUME c \notin disturbed' PROVE HalfJoined(p)'
    OBVIOUS
  <2>1. Roster(c, s) = None /\ s \notin rooms[c] /\ c \notin joinedChannelsBySocketId[s]
    BY <1>3 DEF Agree
  <2>2. Roster(c, s)' = IF pc'[k] # "checking" THEN k ELSE None
    BY <1>6, <2>1 DEF Sockets
  <2>3. QED
    BY <1>2, <1>4, <1>6, <2>1, <2>2 DEF HalfJoined
<1>12. \A q \in Packets \ {p} :
         packet[q].stage = "runtime" => pc'[packet[q].call] = pc[packet[q].call]
  <2> SUFFICES ASSUME NEW q \in Packets \ {p}, packet[q].stage = "runtime"
               PROVE  pc'[packet[q].call] = pc[packet[q].call]
    OBVIOUS
  <2>1. packet[q].call \in Calls /\ pc[packet[q].call] # "idle"
    BY DEF RequestInv, RequestsOwnCalls, OwnsCall, InHand
  <2>2. QED
    BY <1>1, <1>6, <2>1
<1>13. \A d \in Channels \ disturbed', n \in Sockets : d # c \/ n # s =>
           /\ Roster(d, n)' = Roster(d, n)
           /\ n \in rooms'[d] <=> n \in rooms[d]
           /\ d \in joinedChannelsBySocketId'[n] <=> d \in joinedChannelsBySocketId[n]
  BY <1>2, <1>6 DEF Sockets
<1>14. UNCHANGED <<open, cleanup>>
  BY <1>2 DEF sockets
<1>15. OneRequestInHand' /\ RecordsFollowRequests' /\ RequestsInHand'
  <2> HIDE DEF AdapterIInv
  <2>1. AdapterTypeOK /\ OneRequestInHand /\ RecordsFollowRequests /\ RequestsInHand
    BY DEF AdapterIInv, RequestInv
  <2>2. QED
    BY <1>3, <1>4, <1>5, <1>11, <1>12, <1>13, <1>14, <2>1, RecordsFrame
<1>16. QED
  BY <1>9, <1>10, <1>15 DEF RequestInv

\* So does a leave request that arrives.
LEMMA LeaveRequestInv ==
  ASSUME AdapterIInv, AdapterTypeOK', NEW p \in Packets, NEW s \in Sockets,
         NEW c \in Channels, LeaveRequest(p, s, c)
  PROVE  RequestInv'
<1>1. /\ Arrives(p, "leave", s, c)
      /\ packet' = [packet EXCEPT ![p] = NewPacket("leave", s, c, "leavingRoom", None)]
      /\ UNCHANGED <<sockets, joinedChannelsBySocketId, rooms, cleanup, vars>>
  BY DEF LeaveRequest
<1>2. /\ AdapterTypeOK
      /\ OneRequestInHand /\ RecordsFollowRequests /\ RequestsInHand
      /\ RequestsOwnCalls /\ CallsHaveOwners /\ RoomsOfReadySockets
  BY DEF AdapterIInv, RequestInv
<1>3. /\ s \in open /\ setup[s] = "ready"
      /\ packet[p].stage = "none" /\ ~InHand(p)
      /\ disturbed \subseteq disturbed'
      /\ c \notin disturbed' => ~Requested(s, c) /\ Agree(s, c)
  BY <1>1, Arrival DEF AdapterIInv
<1>4. /\ packet'[p].op = "leave" /\ packet'[p].socket = s /\ packet'[p].channel = c
      /\ packet'[p].stage = "leavingRoom"
      /\ \A q \in Packets \ {p} : packet'[q] = packet[q]
  BY <1>1, <1>2 DEF AdapterTypeOK, NewPacket
<1>5. InHand(p)'
  BY <1>4 DEF InHand
<1>6. /\ \A d \in Channels, n \in Members : Roster(d, n)' = Roster(d, n)
      /\ UNCHANGED <<pc, request, setup, open, cleanup, rooms, joinedChannelsBySocketId>>
  BY <1>1 DEF vars, store, Roster, sockets
<1>7. OwnsCall(p)'
  BY <1>3, <1>4, <1>6 DEF OwnsCall
<1>8. RequestsOwnCalls' /\ CallsHaveOwners'
  BY <1>2, <1>3, <1>4, <1>6, <1>7, OwnershipFrame
<1>9. RoomsOfReadySockets'
  BY <1>2, <1>6 DEF RoomsOfReadySockets
<1>10. c \notin disturbed' => HalfJoined(p)'
  BY <1>3, <1>4, <1>6 DEF HalfJoined, Agree, Sockets
<1>11. \A d \in Channels \ disturbed', n \in Sockets : d # c \/ n # s =>
           /\ Roster(d, n)' = Roster(d, n)
           /\ n \in rooms'[d] <=> n \in rooms[d]
           /\ d \in joinedChannelsBySocketId'[n] <=> d \in joinedChannelsBySocketId[n]
  BY <1>6 DEF Sockets
<1>12. OneRequestInHand' /\ RecordsFollowRequests' /\ RequestsInHand'
  BY <1>2, <1>3, <1>4, <1>5, <1>6, <1>10, <1>11, RecordsFrame
<1>13. QED
  BY <1>8, <1>9, <1>12 DEF RequestInv

\* What is known of a request in hand.
LEMMA InHandFacts ==
  ASSUME AdapterTypeOK, RequestInv, NEW p \in Packets, InHand(p)
  PROVE  /\ packet[p].stage \in PacketStage
         /\ packet[p].op \in {"join", "leave"}
         /\ packet[p].socket \in Sockets /\ packet[p].channel \in Channels
         /\ OwnsCall(p)
         /\ packet[p].channel \notin disturbed => packet[p].socket \in open /\ HalfJoined(p)
         /\ packet[p].stage = "runtime" =>
              packet[p].op = IF pc[packet[p].call] \in {"onLeave", "left", "absent", "leaveFailed"}
                             THEN "leave" ELSE "join"
<1>1. packet[p].stage \in PacketStage
  BY DEF InHand, PacketStage
<1>2. OwnsCall(p)
  BY DEF RequestInv, RequestsOwnCalls
<1>3. /\ packet[p].op \in {"join", "leave"}
      /\ packet[p].socket \in Sockets /\ packet[p].channel \in Channels
  BY <1>1, IsRequest
<1>4. packet[p].channel \notin disturbed => packet[p].socket \in open /\ HalfJoined(p)
  BY <1>2 DEF OwnsCall, RequestInv, RequestsInHand
<1>5. ASSUME packet[p].stage = "runtime"
      PROVE  packet[p].op =
               IF pc[packet[p].call] \in {"onLeave", "left", "absent", "leaveFailed"}
               THEN "leave" ELSE "join"
  <2>1. PICK k \in Calls : k = packet[p].call /\ pc[k] # "idle" /\ request[k].op = packet[p].op
    BY <1>2, <1>5 DEF OwnsCall
  <2>2. HasOwner(k)
    BY <2>1 DEF RequestInv, CallsHaveOwners
  <2>3. QED
    BY <2>1, <2>2 DEF HasOwner
<1>6. QED
  BY <1>1, <1>2, <1>3, <1>4, <1>5

\* A handler that is done answers its request: the records of its channel agree.
LEMMA AnswerInv ==
  ASSUME AdapterIInv, AdapterTypeOK', NEW p \in Packets, InHand(p),
         NEW s \in Sockets, NEW c \in Channels,
         packet[p].socket = s, packet[p].channel = c,
         packet'[p].stage \in {"acked", "failed"},
         packet'[p].socket = s, packet'[p].channel = c,
         \A q \in Packets \ {p} : packet'[q] = packet[q],
         UNCHANGED <<sockets, cleanup, lifetime, vars>>,
         packet[p].stage = "runtime" => pc[packet[p].call] \notin {"checking", "onJoin"},
         \A d \in Channels, n \in Sockets : d # c \/ n # s =>
           /\ n \in rooms'[d] <=> n \in rooms[d]
           /\ d \in joinedChannelsBySocketId'[n] <=> d \in joinedChannelsBySocketId[n],
         s \in rooms'[c] => s \in open \/ s \in rooms[c],
         c \notin disturbed => Agree(s, c)'
  PROVE  RequestInv'
<1>1. /\ AdapterTypeOK
      /\ OneRequestInHand /\ RecordsFollowRequests /\ RequestsInHand
      /\ RequestsOwnCalls /\ CallsHaveOwners /\ RoomsOfReadySockets
  BY DEF AdapterIInv, RequestInv
<1>2. /\ packet[p].stage \in PacketStage
      /\ setup[s] = "ready"
      /\ c \notin disturbed => s \in open
  BY <1>1, InHandFacts DEF RequestInv, OwnsCall
<1>3. ~InHand(p)'
  BY DEF InHand
<1>4. /\ \A d \in Channels, n \in Members : Roster(d, n)' = Roster(d, n)
      /\ UNCHANGED <<pc, request, setup, open, cleanup, disturbed>>
  BY DEF vars, store, Roster, sockets, lifetime
<1>5. RequestsOwnCalls' /\ CallsHaveOwners'
  BY <1>1, <1>3, <1>4, OwnershipFrame
<1>6. RoomsOfReadySockets'
  <2> SUFFICES ASSUME NEW n \in Sockets, NEW d \in Channels
               PROVE  /\ n \in rooms'[d] => n \in open /\ setup[n] = "ready"
                      /\ d \in joinedChannelsBySocketId'[n] => setup[n] = "ready"
    BY <1>4 DEF RoomsOfReadySockets
  <2>1. QED
    BY <1>1, <1>2 DEF RoomsOfReadySockets
<1>7. \A d \in Channels \ disturbed', n \in Sockets : d # c \/ n # s =>
           /\ Roster(d, n)' = Roster(d, n)
           /\ n \in rooms'[d] <=> n \in rooms[d]
           /\ d \in joinedChannelsBySocketId'[n] <=> d \in joinedChannelsBySocketId[n]
  BY <1>4 DEF Sockets
<1>8. OneRequestInHand' /\ RecordsFollowRequests' /\ RequestsInHand'
  BY <1>1, <1>2, <1>3, <1>4, <1>7, RecordsFrame
<1>9. QED
  BY <1>5, <1>6, <1>8 DEF RequestInv

\* A handler that has the runtime leave the channel goes on to await that.
LEMMA HandlerLeavesInv ==
  ASSUME AdapterIInv, AdapterTypeOK', NEW p \in Packets, InHand(p),
         NEW s \in Sockets, NEW c \in Channels,
         packet[p].socket = s, packet[p].channel = c,
         packet[p].stage = "runtime" => pc[packet[p].call] \notin {"checking", "onJoin"},
         NEW stage \in {"runtime", "rollback"},
         packet[p].op = IF stage = "runtime" THEN "leave" ELSE "join",
         CanCall,
         LeaveChannel(NextCall, c, s),
         packet'[p].stage = stage, packet'[p].op = packet[p].op,
         packet'[p].socket = s, packet'[p].channel = c, packet'[p].call = NextCall,
         \A q \in Packets \ {p} : packet'[q] = packet[q],
         UNCHANGED <<sockets, joinedChannelsBySocketId, cleanup, lifetime>>,
         \A d \in Channels, n \in Sockets : d # c \/ n # s =>
           (n \in rooms'[d] <=> n \in rooms[d]),
         s \in rooms'[c] => s \in rooms[c],
         c \notin disturbed =>
           /\ s \notin rooms'[c]
           /\ stage = "rollback" => c \notin joinedChannelsBySocketId[s]
  PROVE  RequestInv'
<1>1. /\ AdapterTypeOK /\ IInv
      /\ OneRequestInHand /\ RecordsFollowRequests /\ RequestsInHand
      /\ RequestsOwnCalls /\ CallsHaveOwners /\ RoomsOfReadySockets
  BY DEF AdapterIInv, RequestInv
<1>2. PICK k \in Calls : k = NextCall /\ pc[k] = "idle"
  BY NextCallIsIdle
<1>3. /\ packet[p].stage \in PacketStage
      /\ setup[s] = "ready"
      /\ s \notin open => c \in disturbed
  BY <1>1, InHandFacts DEF RequestInv, OwnsCall
<1>4. InHand(p)'
  BY DEF InHand
<1>5. /\ request'[k] = [op |-> "leave", channel |-> c, member |-> s]
      /\ pc'[k] \in {"absent", "onLeave", "left"}
      /\ \A l \in Calls \ {k} : request'[l] = request[l] /\ pc'[l] = pc[l]
      /\ \A d \in Channels, n \in Members :
           Roster(d, n)' = IF d = c /\ n = s THEN None ELSE Roster(d, n)
  BY <1>1, <1>2, LeaveStarts DEF Sockets
<1>6. UNCHANGED <<setup, open, cleanup, disturbed, joinedChannelsBySocketId>>
  BY DEF sockets, lifetime
<1>7. OwnsCall(p)'
  <2>1. request'[k] = [op |-> IF stage = "runtime" THEN packet'[p].op ELSE "leave",
                       channel |-> c, member |-> s]
    BY <1>5
  <2>2. QED
    BY <1>2, <1>3, <1>5, <1>6, <2>1 DEF OwnsCall
<1>8. HasOwner(k)'
  BY <1>3, <1>5, <1>6 DEF HasOwner, Request, Sockets
<1>9. RequestsOwnCalls' /\ CallsHaveOwners'
  BY <1>1, <1>2, <1>5, <1>6, <1>7, <1>8, OwnershipFrame
<1>10. RoomsOfReadySockets'
  BY <1>1, <1>6 DEF RoomsOfReadySockets
<1>11. c \notin disturbed' => HalfJoined(p)'
  BY <1>2, <1>5, <1>6 DEF HalfJoined, Sockets
<1>12. \A q \in Packets \ {p} :
         packet[q].stage = "runtime" => pc'[packet[q].call] = pc[packet[q].call]
  <2> SUFFICES ASSUME NEW q \in Packets \ {p}, packet[q].stage = "runtime"
               PROVE  pc'[packet[q].call] = pc[packet[q].call]
    OBVIOUS
  <2>1. packet[q].call \in Calls /\ pc[packet[q].call] # "idle"
    BY <1>1 DEF RequestsOwnCalls, OwnsCall, InHand
  <2>2. QED
    BY <1>2, <1>5, <2>1
<1>13. \A d \in Channels \ disturbed', n \in Sockets : d # c \/ n # s =>
           /\ Roster(d, n)' = Roster(d, n)
           /\ n \in rooms'[d] <=> n \in rooms[d]
           /\ d \in joinedChannelsBySocketId'[n] <=> d \in joinedChannelsBySocketId[n]
  BY <1>5, <1>6 DEF Sockets
<1>14. OneRequestInHand' /\ RecordsFollowRequests' /\ RequestsInHand'
  <2>1. c \notin disturbed' =>
          /\ s \in open
          /\ InHand(p)' => (InHand(p) \/ ~Requested(s, c)) /\ HalfJoined(p)'
          /\ ~InHand(p)' => Agree(s, c)'
    BY <1>3, <1>4, <1>6, <1>11
  <2>2. QED
    BY <1>1, <1>4, <1>6, <1>12, <1>13, <2>1, RecordsFrame
<1>15. QED
  BY <1>9, <1>10, <1>14 DEF RequestInv

\* Every step of the handler of a request keeps the records of requests.
LEMMA HandlerInv ==
  ASSUME AdapterIInv, AdapterTypeOK', NEW p \in Packets,
         \/ JoinRejected(p) \/ JoinRoomSucceeds(p) \/ JoinRoomFails(p)
         \/ JoinRollbackEnds(p) \/ LeaveRoomSucceeds(p) \/ LeaveRoomFails(p)
         \/ LeaveEnds(p)
  PROVE  RequestInv'
<1>1. InHand(p)
  BY DEF JoinRejected, JoinRoomSucceeds, JoinRoomFails, JoinRollbackEnds,
         LeaveRoomSucceeds, LeaveRoomFails, LeaveEnds, InHand
<1>2. AdapterTypeOK /\ RequestInv
  BY DEF AdapterIInv
<1>3. PICK s \in Sockets, c \in Channels : packet[p].socket = s /\ packet[p].channel = c
  BY <1>1, <1>2, InHandFacts
<1>4. /\ OwnsCall(p)
      /\ packet[p].stage \in PacketStage
      /\ c \notin disturbed => s \in open /\ HalfJoined(p)
      /\ packet[p].stage = "runtime" =>
           packet[p].op = IF pc[packet[p].call] \in {"onLeave", "left", "absent", "leaveFailed"}
                          THEN "leave" ELSE "join"
  BY <1>1, <1>2, <1>3, InHandFacts
<1>5. ASSUME JoinRejected(p) \/ JoinRollbackEnds(p) \/ LeaveRoomFails(p)
      PROVE  RequestInv'
  <2>1. /\ packet' = [packet EXCEPT ![p].stage = "failed"]
        /\ UNCHANGED <<sockets, joinedChannelsBySocketId, rooms, cleanup, lifetime, vars>>
        /\ packet[p].stage = "runtime" => pc[packet[p].call] \in {"refused", "rolledBack"}
    BY <1>5 DEF JoinRejected, JoinRollbackEnds, LeaveRoomFails
  <2>2. UNCHANGED Roster(c, s)
    BY <2>1 DEF Roster, vars, store
  <2>3. ASSUME c \notin disturbed
        PROVE  Agree(s, c)
    <3>1. HalfJoined(p)
      BY <1>4, <2>3
    <3>2. packet[p].stage # "leavingRoom" => packet[p].op = "join"
      BY <1>1, <1>4, <2>1 DEF OwnsCall, InHand
    <3>3. packet[p].stage # "leavingRoom" =>
            s \notin rooms[c] /\ c \notin joinedChannelsBySocketId[s] /\ Roster(c, s) = None
      BY <1>1, <1>3, <2>1, <3>1, <3>2 DEF HalfJoined, InHand
    <3>4. QED
      BY <1>3, <3>1, <3>3 DEF HalfJoined, Agree
  <2>4. c \notin disturbed => Agree(s, c)'
    BY <2>1, <2>2, <2>3 DEF Agree
  <2>5. /\ packet'[p].stage = "failed"
        /\ packet'[p].socket = s /\ packet'[p].channel = c
        /\ \A q \in Packets \ {p} : packet'[q] = packet[q]
    BY <1>2, <1>3, <1>4, <2>1, PacketStep DEF PacketStage
  <2>6. QED
    BY <1>1, <1>3, <2>1, <2>4, <2>5, AnswerInv
<1>6. ASSUME JoinRoomSucceeds(p)
      PROVE  RequestInv'
  <2>1. /\ packet[p].stage = "runtime" /\ pc[packet[p].call] = "joined"
        /\ packet' = [packet EXCEPT ![p].stage = "acked"]
        /\ rooms' = [rooms EXCEPT ![c] = RoomWith(c, s)]
        /\ joinedChannelsBySocketId' = [joinedChannelsBySocketId EXCEPT ![s] = @ \cup {c}]
        /\ UNCHANGED <<sockets, cleanup, lifetime, vars>>
        /\ pc[packet[p].call] \notin {"checking", "onJoin"}
    BY <1>3, <1>6 DEF JoinRoomSucceeds, RememberJoined
  <2>2. \A d \in Channels, n \in Sockets : d # c \/ n # s =>
           /\ n \in rooms'[d] <=> n \in rooms[d]
           /\ d \in joinedChannelsBySocketId'[n] <=> d \in joinedChannelsBySocketId[n]
    BY <1>2, <2>1 DEF AdapterTypeOK, RoomWith
  <2>3. /\ c \in joinedChannelsBySocketId'[s]
        /\ s \in rooms'[c] <=> s \in rooms[c] \/ s \in open
    BY <1>2, <2>1 DEF AdapterTypeOK, RoomWith
  <2>4. ASSUME c \notin disturbed
        PROVE  Agree(s, c)'
    <3>1. Roster(c, s) = packet[p].call /\ packet[p].call \in Calls
      BY <1>3, <1>4, <2>1, <2>4 DEF HalfJoined, OwnsCall
    <3>2. Roster(c, s)' = Roster(c, s)
      BY <2>1 DEF Roster, vars, store
    <3>3. QED
      BY <1>4, <2>3, <2>4, <3>1, <3>2, NoneAssumption DEF Agree
  <2>5. /\ packet'[p].stage = "acked"
        /\ packet'[p].socket = s /\ packet'[p].channel = c
        /\ \A q \in Packets \ {p} : packet'[q] = packet[q]
    BY <1>2, <1>3, <1>4, <2>1, PacketStep DEF PacketStage
  <2>6. QED
    BY <1>1, <1>3, <2>1, <2>2, <2>3, <2>4, <2>5, AnswerInv
<1>7. ASSUME LeaveEnds(p)
      PROVE  RequestInv'
  <2>1. /\ packet[p].stage = "runtime"
        /\ pc[packet[p].call] \in {"left", "absent", "leaveFailed"}
        /\ joinedChannelsBySocketId' = [joinedChannelsBySocketId EXCEPT ![s] = @ \ {c}]
        /\ UNCHANGED <<sockets, rooms, cleanup, lifetime, vars>>
        /\ pc[packet[p].call] \notin {"checking", "onJoin"}
    BY <1>3, <1>7 DEF LeaveEnds, ForgetJoined
  <2>2. PICK stage \in {"acked", "failed"} : packet' = [packet EXCEPT ![p].stage = stage]
    BY <1>7 DEF LeaveEnds
  <2>3. /\ \A d \in Channels, n \in Sockets : d # c \/ n # s =>
             /\ n \in rooms'[d] <=> n \in rooms[d]
             /\ d \in joinedChannelsBySocketId'[n] <=> d \in joinedChannelsBySocketId[n]
        /\ c \notin joinedChannelsBySocketId'[s]
    BY <1>2, <2>1 DEF AdapterTypeOK
  <2>4. ASSUME c \notin disturbed
        PROVE  Agree(s, c)'
    <3>1. Roster(c, s) = None /\ s \notin rooms[c]
      BY <1>3, <1>4, <2>1, <2>4 DEF HalfJoined
    <3>2. Roster(c, s)' = Roster(c, s)
      BY <2>1 DEF Roster, vars, store
    <3>3. QED
      BY <2>1, <2>3, <3>1, <3>2 DEF Agree
  <2>5. /\ packet'[p].stage \in {"acked", "failed"}
        /\ packet'[p].socket = s /\ packet'[p].channel = c
        /\ \A q \in Packets \ {p} : packet'[q] = packet[q]
    BY <1>2, <1>3, <1>4, <2>2, PacketStep DEF PacketStage
  <2>6. QED
    BY <1>1, <1>3, <2>1, <2>3, <2>4, <2>5, AnswerInv
<1>8. ASSUME JoinRoomFails(p)
      PROVE  RequestInv'
  <2>1. /\ packet[p].stage = "runtime" /\ pc[packet[p].call] = "joined"
        /\ CanCall
        /\ LeaveChannel(NextCall, c, s)
        /\ packet' = [packet EXCEPT ![p].stage = "rollback", ![p].call = NextCall]
        /\ UNCHANGED <<sockets, joinedChannelsBySocketId, rooms, cleanup, lifetime>>
    BY <1>3, <1>8 DEF JoinRoomFails
  <2>2. packet[p].op = "join"
    BY <1>4, <2>1
  <2>3. c \notin disturbed => s \notin rooms[c] /\ c \notin joinedChannelsBySocketId[s]
    BY <1>3, <1>4, <2>1, <2>2 DEF HalfJoined
  <2>4. /\ packet'[p].stage = "rollback" /\ packet'[p].op = packet[p].op
        /\ packet'[p].socket = s /\ packet'[p].channel = c /\ packet'[p].call = NextCall
        /\ \A q \in Packets \ {p} : packet'[q] = packet[q]
    BY <1>2, <1>3, <1>4, <2>1, NextCallIsIdle, PacketCalls DEF PacketStage
  <2>5. QED
    BY <1>1, <1>3, <2>1, <2>2, <2>3, <2>4, HandlerLeavesInv
<1>9. ASSUME LeaveRoomSucceeds(p)
      PROVE  RequestInv'
  <2>1. /\ packet[p].stage = "leavingRoom"
        /\ CanCall
        /\ LeaveChannel(NextCall, c, s)
        /\ packet' = [packet EXCEPT ![p].stage = "runtime", ![p].call = NextCall]
        /\ rooms' = [rooms EXCEPT ![c] = @ \ {s}]
        /\ UNCHANGED <<sockets, joinedChannelsBySocketId, cleanup, lifetime>>
    BY <1>3, <1>9 DEF LeaveRoomSucceeds
  <2>2. packet[p].op = "leave"
    BY <1>4, <2>1 DEF OwnsCall
  <2>3. /\ \A d \in Channels, n \in Sockets : d # c \/ n # s =>
             (n \in rooms'[d] <=> n \in rooms[d])
        /\ s \notin rooms'[c]
    BY <1>2, <2>1 DEF AdapterTypeOK
  <2>4. /\ packet'[p].stage = "runtime" /\ packet'[p].op = packet[p].op
        /\ packet'[p].socket = s /\ packet'[p].channel = c /\ packet'[p].call = NextCall
        /\ \A q \in Packets \ {p} : packet'[q] = packet[q]
    BY <1>2, <1>3, <1>4, <2>1, NextCallIsIdle, PacketCalls DEF PacketStage
  <2>5. QED
    BY <1>1, <1>3, <2>1, <2>2, <2>3, <2>4, HandlerLeavesInv
<1>10. QED
  BY <1>5, <1>6, <1>7, <1>8, <1>9

\* A step of a runtime call keeps the records: its handler awaits it.
LEMMA RuntimeStepInv ==
  ASSUME AdapterIInv, AdapterTypeOK', NEW k \in Calls, RuntimeStep(k)
  PROVE  RequestInv'
<1>1. /\ AdapterTypeOK /\ IInv /\ RequestInv
      /\ OneRequestInHand /\ RecordsFollowRequests /\ RequestsInHand
      /\ RequestsOwnCalls /\ CallsHaveOwners /\ RoomsOfReadySockets
  BY DEF AdapterIInv, RequestInv
<1>2. UNCHANGED <<setup, open, cleanup, disturbed, joinedChannelsBySocketId, rooms, packet>>
  BY DEF RuntimeStep, adapterVars, sockets, lifetime
<1>3. pc[k] \in Waiting
  BY <1>1, CallIsWaiting
<1>4. PICK c \in Channels, s \in Members : request[k].channel = c /\ request[k].member = s
  BY <1>1, CallIsWaiting
<1>5. /\ pc[k] = "checking" => pc'[k] \in {"checking", "onJoin", "joined", "refused"}
      /\ pc[k] = "onJoin" => pc'[k] \in {"joined", "rolledBack"}
      /\ pc[k] = "onLeave" => pc'[k] \in {"left", "leaveFailed"}
      /\ UNCHANGED request
      /\ \A l \in Calls \ {k} : pc'[l] = pc[l]
      /\ \A d \in Channels \ {c}, n \in Members : Roster(d, n)' = Roster(d, n)
      /\ pc'[k] # "rolledBack" \/ Roster(c, s) = k =>
           \A n \in Members :
             Roster(c, n)' =
               IF n # s THEN Roster(c, n)
               ELSE IF pc[k] = "checking" /\ pc'[k] \in {"onJoin", "joined"} THEN k
               ELSE IF pc'[k] = "rolledBack" THEN None
               ELSE Roster(c, n)
  BY <1>1, <1>4, CallGoesOn
<1>6. pc'[k] # "idle" /\ pc[k] # "idle"
  BY <1>3, <1>5 DEF Waiting
<1>7. RequestsOwnCalls'
  <2> SUFFICES ASSUME NEW p \in Packets, InHand(p) PROVE OwnsCall(p)'
    BY <1>2 DEF RequestsOwnCalls, InHand
  <2>1. OwnsCall(p)
    BY <1>1 DEF RequestsOwnCalls
  <2>2. QED
    BY <1>2, <1>5, <1>6, <2>1 DEF OwnsCall
<1>8. CallsHaveOwners'
  <2> SUFFICES ASSUME NEW l \in Calls, pc'[l] # "idle" PROVE HasOwner(l)'
    BY DEF CallsHaveOwners
  <2>1. HasOwner(l)
    BY <1>1, <1>5, <1>6 DEF CallsHaveOwners
  <2>2. CASE l = k
    BY <1>2, <1>3, <1>5, <2>1, <2>2 DEF HasOwner, Waiting
  <2>3. CASE l # k
    BY <1>2, <1>5, <2>1, <2>3 DEF HasOwner
  <2>4. QED
    BY <2>2, <2>3
<1>9. RoomsOfReadySockets'
  BY <1>1, <1>2 DEF RoomsOfReadySockets
<1>10. ASSUME pc[k] = "onLeave"
       PROVE  OneRequestInHand' /\ RecordsFollowRequests' /\ RequestsInHand'
  <2>1. \A d \in Channels, n \in Members : Roster(d, n)' = Roster(d, n)
    BY <1>5, <1>10
  <2>2. \A n \in Sockets, d \in Channels : Agree(n, d)' <=> Agree(n, d)
    BY <1>2, <2>1 DEF Agree, Sockets
  <2>3. OneRequestInHand'
    BY <1>1, <1>2 DEF OneRequestInHand, InHand
  <2>4. RecordsFollowRequests'
    <3>1. \A n \in Sockets, d \in Channels : Requested(n, d)' <=> Requested(n, d)
      BY <1>2 DEF Requested, InHand
    <3>2. QED
      BY <1>1, <1>2, <2>1, <2>2, <3>1 DEF RecordsFollowRequests, Sockets
  <2>5. RequestsInHand'
    <3> SUFFICES ASSUME NEW p \in Packets, InHand(p), packet[p].channel \notin disturbed
                 PROVE  HalfJoined(p)'
      BY <1>2 DEF RequestsInHand, InHand
    <3>1. HalfJoined(p)
      BY <1>1 DEF RequestsInHand
    <3>2. PICK n \in Sockets, d \in Channels : packet[p].socket = n /\ packet[p].channel = d
      BY <1>1, InHandFacts
    <3>3. packet[p].stage = "runtime" =>
            (pc'[packet[p].call] \in {"onJoin", "joined"} <=>
               pc[packet[p].call] \in {"onJoin", "joined"})
      <4>1. packet[p].stage = "runtime" => packet[p].call \in Calls
        BY <1>1 DEF RequestsOwnCalls, OwnsCall
      <4>2. QED
        BY <1>5, <1>10, <4>1
    <3>4. QED
      BY <1>2, <2>1, <2>2, <3>1, <3>2, <3>3 DEF HalfJoined, Sockets
  <2>6. QED
    BY <2>3, <2>4, <2>5
<1>11. ASSUME pc[k] \in {"checking", "onJoin"}
       PROVE  OneRequestInHand' /\ RecordsFollowRequests' /\ RequestsInHand'
  <2>1. PICK p \in Packets : packet[p].stage = "runtime" /\ packet[p].call = k
    BY <1>1, <1>6, <1>11 DEF CallsHaveOwners, HasOwner
  <2>2. InHand(p) /\ InHand(p)'
    BY <1>2, <2>1 DEF InHand
  <2>3. /\ packet[p].socket = s /\ packet[p].channel = c
        /\ packet[p].op = "join"
        /\ c \notin disturbed => s \in open /\ HalfJoined(p)
    <3>1. OwnsCall(p)
      BY <1>1, <2>2 DEF RequestsOwnCalls
    <3>2. packet[p].socket = s /\ packet[p].channel = c
      BY <1>4, <2>1, <3>1 DEF OwnsCall
    <3>3. QED
      BY <1>1, <1>11, <2>1, <2>2, <3>2, InHandFacts
  <2>4. ASSUME NEW q \in Packets \ {p}, packet[q].stage = "runtime",
               packet[q].channel \notin disturbed
        PROVE  pc'[packet[q].call] = pc[packet[q].call]
    <3>1. InHand(q)
      BY <2>4 DEF InHand
    <3>2. OwnsCall(q)
      BY <1>1, <3>1 DEF RequestsOwnCalls
    <3>3. packet[q].call # k
      BY <1>1, <1>4, <2>2, <2>3, <2>4, <3>1, <3>2 DEF OwnsCall, OneRequestInHand
    <3>4. QED
      BY <1>5, <2>4, <3>2, <3>3 DEF OwnsCall
  <2>5. ASSUME c \notin disturbed
        PROVE  /\ \A n \in Members \ {s} : Roster(c, n)' = Roster(c, n)
               /\ HalfJoined(p)'
    <3>1. /\ s \notin rooms[c] /\ c \notin joinedChannelsBySocketId[s]
          /\ Roster(c, s) = IF pc[k] = "onJoin" THEN k ELSE None
      BY <1>11, <2>1, <2>3, <2>5 DEF HalfJoined
    <3>2. \A n \in Members :
            Roster(c, n)' =
               IF n # s THEN Roster(c, n)
               ELSE IF pc[k] = "checking" /\ pc'[k] \in {"onJoin", "joined"} THEN k
               ELSE IF pc'[k] = "rolledBack" THEN None
               ELSE Roster(c, n)
      BY <1>5, <1>11, <3>1
    <3>3. Roster(c, s)' = IF pc'[k] \in {"onJoin", "joined"} THEN k ELSE None
      BY <1>5, <1>11, <3>1, <3>2
    <3>4. HalfJoined(p)'
      BY <1>2, <2>1, <2>3, <3>1, <3>3 DEF HalfJoined
    <3>5. QED
      BY <3>2, <3>4
  <2>6. \A d \in Channels \ disturbed', n \in Sockets : d # c \/ n # s =>
           /\ Roster(d, n)' = Roster(d, n)
           /\ n \in rooms'[d] <=> n \in rooms[d]
           /\ d \in joinedChannelsBySocketId'[n] <=> d \in joinedChannelsBySocketId[n]
    BY <1>2, <1>5, <2>5 DEF Sockets
  <2>7. s \in Sockets
    BY DEF Sockets
  <2>8. QED
    BY <1>1, <1>2, <2>2, <2>3, <2>4, <2>5, <2>6, <2>7, RecordsFrame
<1>12. OneRequestInHand' /\ RecordsFollowRequests' /\ RequestsInHand'
  BY <1>3, <1>10, <1>11 DEF Waiting
<1>13. QED
  BY <1>7, <1>8, <1>9, <1>12 DEF RequestInv

(***************************************************************************)
(* Connections and requests.                                               *)
(***************************************************************************)

\* A socket whose handlers were never registered has no records at all.
LEMMA NotReadyHasNothing ==
  ASSUME IInv, AdapterTypeOK, RequestInv, NEW s \in Sockets, setup[s] # "ready"
  PROVE  /\ \A c \in Channels : /\ Roster(c, s) = None
                                /\ s \notin rooms[c]
                                /\ c \notin joinedChannelsBySocketId[s]
                                /\ ~Requested(s, c)
         /\ \A p \in Packets : InHand(p) => packet[p].socket # s
         /\ \A k \in Calls : pc[k] # "idle" => request[k].member # s
<1>1. \A p \in Packets : InHand(p) => packet[p].socket # s
  BY InHandFacts DEF OwnsCall
<1>2. \A k \in Calls : pc[k] # "idle" => request[k].member # s
  BY DEF RequestInv, CallsHaveOwners, HasOwner
<1>3. ASSUME NEW c \in Channels, Roster(c, s) # None
      PROVE  FALSE
  <2> DEFINE b == channelMemberships[c]
             k == buckets[b][s]
  <2>1. b \in Calls /\ k \in Calls /\ k # None
    BY <1>3, NoneAssumption DEF Roster, IInv, TypeOK, Sockets
  <2>2. captured[k] # None /\ request[k].member = s
    BY <2>1, NoneAssumption DEF IInv, EntryIsStored, Stored, Sockets
  <2>3. pc[k] # "idle"
    BY <2>1, <2>2 DEF IInv, StoredByAdmittedJoin
  <2>4. QED
    BY <1>2, <2>1, <2>2, <2>3
<1>4. \A c \in Channels : ~Requested(s, c)
  BY <1>1 DEF Requested
<1>5. \A c \in Channels : s \notin rooms[c] /\ c \notin joinedChannelsBySocketId[s]
  BY DEF RequestInv, RoomsOfReadySockets
<1>6. QED
  BY <1>1, <1>2, <1>3, <1>4, <1>5

\* Setting a connection up keeps the records of requests: it has none.
LEMMA SetupInv ==
  ASSUME AdapterIInv, NEW s \in Sockets,
         \/ ConnectionMiddleware(s) \/ RefusesDisposed(s) \/ MiddlewareRemoved(s)
         \/ BuildSocketContext(s) \/ AuthorizeSucceeds(s) \/ AuthorizeFails(s)
         \/ RegisterHandlers(s) \/ OnConnectFails(s)
  PROVE  RequestInv'
<1>1. /\ AdapterTypeOK /\ IInv /\ RequestInv
      /\ OneRequestInHand /\ RecordsFollowRequests /\ RequestsInHand
      /\ RequestsOwnCalls /\ CallsHaveOwners /\ RoomsOfReadySockets
  BY DEF AdapterIInv, RequestInv
<1>2. UNCHANGED <<joinedChannelsBySocketId, rooms, packet, cleanup, lifetime, vars>>
  BY DEF ConnectionMiddleware, RefusesDisposed, MiddlewareRemoved,
       BuildSocketContext, AuthorizeSucceeds, AuthorizeFails, Reject,
       RegisterHandlers, OnConnectFails
<1>3. setup[s] # "ready"
  BY DEF ConnectionMiddleware, RefusesDisposed, MiddlewareRemoved,
       BuildSocketContext, AuthorizeSucceeds, AuthorizeFails, Reject,
       RegisterHandlers, OnConnectFails, NotifiesConnected
<1>4. \A n \in Sockets \ {s} : setup'[n] = setup[n] /\ (n \in open' <=> n \in open)
  BY <1>1 DEF AdapterTypeOK, ConnectionMiddleware, RefusesDisposed, MiddlewareRemoved,
       BuildSocketContext, AuthorizeSucceeds, AuthorizeFails, Reject,
       RegisterHandlers, OnConnectFails
<1>5. /\ \A c \in Channels : /\ Roster(c, s) = None
                             /\ s \notin rooms[c]
                             /\ c \notin joinedChannelsBySocketId[s]
                             /\ ~Requested(s, c)
      /\ \A p \in Packets : InHand(p) => packet[p].socket # s
      /\ \A k \in Calls : pc[k] # "idle" => request[k].member # s
  BY <1>1, <1>3, NotReadyHasNothing
<1>6. /\ \A d \in Channels, n \in Members : Roster(d, n)' = Roster(d, n)
      /\ UNCHANGED <<pc, request, disturbed>>
  BY <1>2 DEF vars, store, Roster, lifetime
<1>7. RequestsOwnCalls'
  <2> SUFFICES ASSUME NEW p \in Packets, InHand(p) PROVE OwnsCall(p)'
    BY <1>2 DEF RequestsOwnCalls, InHand
  <2>1. OwnsCall(p) /\ packet[p].socket \in Sockets \ {s}
    BY <1>1, <1>5, InHandFacts
  <2>2. QED
    BY <1>2, <1>4, <1>6, <2>1 DEF OwnsCall
<1>8. CallsHaveOwners'
  <2> SUFFICES ASSUME NEW k \in Calls, pc[k] # "idle" PROVE HasOwner(k)'
    BY <1>6 DEF CallsHaveOwners
  <2>1. HasOwner(k) /\ request[k].member \in Sockets \ {s}
    BY <1>1, <1>5 DEF CallsHaveOwners, HasOwner, Request, Sockets
  <2>2. QED
    BY <1>2, <1>4, <1>6, <2>1 DEF HasOwner
<1>9. RoomsOfReadySockets'
  BY <1>1, <1>2, <1>4, <1>5 DEF RoomsOfReadySockets
<1>10. OneRequestInHand'
  BY <1>1, <1>2, <1>6 DEF OneRequestInHand, InHand
<1>11. \A n \in Sockets, d \in Channels :
         /\ Agree(n, d)' <=> Agree(n, d)
         /\ Requested(n, d)' <=> Requested(n, d)
  BY <1>2, <1>6 DEF Agree, Requested, InHand, Sockets
<1>12. RecordsFollowRequests'
  <2> SUFFICES ASSUME NEW n \in Sockets, NEW d \in Channels, d \notin disturbed
               PROVE  /\ n \in open' /\ ~Requested(n, d)' => Agree(n, d)'
                      /\ n \notin open' =>
                           /\ d \notin joinedChannelsBySocketId'[n]
                           /\ Roster(d, n)' # None =>
                                cleanup'[n].stage = "leaving" /\ d \in cleanup'[n].todo
    BY <1>6 DEF RecordsFollowRequests
  <2>1. CASE n = s
    BY <1>2, <1>5, <1>6, <1>11, <2>1 DEF Agree, Sockets
  <2>2. CASE n # s
    BY <1>1, <1>2, <1>4, <1>6, <1>11, <2>2 DEF RecordsFollowRequests, Sockets
  <2>3. QED
    BY <2>1, <2>2
<1>13. RequestsInHand'
  <2> SUFFICES ASSUME NEW p \in Packets, InHand(p), packet[p].channel \notin disturbed
               PROVE  HalfJoined(p)'
    BY <1>2, <1>6 DEF RequestsInHand, InHand
  <2>1. HalfJoined(p) /\ packet[p].socket \in Sockets /\ packet[p].channel \in Channels
    BY <1>1, InHandFacts DEF RequestsInHand
  <2>2. QED
    BY <1>2, <1>6, <1>11, <2>1 DEF HalfJoined, Sockets
<1>14. QED
  BY <1>7, <1>8, <1>9, <1>10, <1>12, <1>13 DEF RequestInv

\* Closing sockets starts the cleanup of those that have handlers, with every channel
\* that they are members of, but for those on which a request is in hand.
LEMMA ClosingInv ==
  ASSUME AdapterIInv, NEW S \in SUBSET Sockets, S \subseteq open,
         UNCHANGED <<setup, packet, vars>>,
         open' = open \ S,
         rooms' = RoomsWithout(S),
         disturbed \subseteq disturbed', InHandChannels(S) \subseteq disturbed',
         \A n \in Sockets :
           /\ joinedChannelsBySocketId'[n] \subseteq joinedChannelsBySocketId[n]
           /\ n \in open' => joinedChannelsBySocketId'[n] = joinedChannelsBySocketId[n],
         \A n \in S \cap socketHandlersBySocketId :
           /\ joinedChannelsBySocketId'[n] = {}
           /\ cleanup'[n].stage = "leaving"
           /\ cleanup'[n].todo = joinedChannelsBySocketId[n],
         \A n \in Sockets :
           n \notin S \cap socketHandlersBySocketId => cleanup'[n] = cleanup[n]
  PROVE  RequestInv'
<1>1. /\ AdapterTypeOK /\ IInv /\ RequestInv /\ ConnectionLifecycle
      /\ OneRequestInHand /\ RecordsFollowRequests /\ RequestsInHand
      /\ RequestsOwnCalls /\ CallsHaveOwners /\ RoomsOfReadySockets
  BY DEF AdapterIInv, RequestInv
<1>2. /\ \A d \in Channels, n \in Members : Roster(d, n)' = Roster(d, n)
      /\ UNCHANGED <<pc, request>>
  BY DEF vars, store, Roster
<1>3. \A c \in Channels, n \in Sockets : n \in rooms'[c] <=> n \in rooms[c] /\ n \notin S
  BY DEF RoomsWithout
<1>4. ASSUME NEW p \in Packets, InHand(p), packet[p].channel \notin disturbed'
      PROVE  /\ packet[p].socket \notin S
             /\ packet[p].socket \in open'
  <2>1. packet[p].socket \notin S
    BY <1>4 DEF InHandChannels
  <2>2. packet[p].socket \in open
    BY <1>1, <1>4, InHandFacts
  <2>3. QED
    BY <2>1, <2>2
<1>5. RequestsOwnCalls'
  <2> SUFFICES ASSUME NEW p \in Packets, InHand(p) PROVE OwnsCall(p)'
    BY DEF RequestsOwnCalls, InHand
  <2>1. OwnsCall(p)
    BY <1>1 DEF RequestsOwnCalls
  <2>2. packet[p].socket \notin open' => packet[p].channel \in disturbed'
    BY <1>4
  <2>3. QED
    BY <1>2, <2>1, <2>2 DEF OwnsCall
<1>6. CallsHaveOwners'
  BY <1>1, <1>2 DEF CallsHaveOwners, HasOwner
<1>7. RoomsOfReadySockets'
  BY <1>1, <1>3 DEF RoomsOfReadySockets
<1>8. OneRequestInHand'
  BY <1>1 DEF OneRequestInHand, InHand
<1>9. RequestsInHand'
  <2> SUFFICES ASSUME NEW p \in Packets, InHand(p), packet[p].channel \notin disturbed'
               PROVE  HalfJoined(p)'
    BY DEF RequestsInHand, InHand
  <2>1. PICK n \in Sockets, d \in Channels : packet[p].socket = n /\ packet[p].channel = d
    BY <1>1, InHandFacts
  <2>2. HalfJoined(p)
    BY <1>1 DEF RequestsInHand
  <2>3. n \notin S /\ n \in open'
    BY <1>4, <2>1
  <2>4. /\ n \in rooms'[d] <=> n \in rooms[d]
        /\ d \in joinedChannelsBySocketId'[n] <=> d \in joinedChannelsBySocketId[n]
        /\ Roster(d, n)' = Roster(d, n)
    BY <1>2, <1>3, <2>3 DEF Sockets
  <2>5. QED
    BY <1>2, <2>1, <2>2, <2>4 DEF HalfJoined, Agree
<1>10. RecordsFollowRequests'
  <2> SUFFICES ASSUME NEW n \in Sockets, NEW d \in Channels, d \notin disturbed'
               PROVE  /\ n \in open' /\ ~Requested(n, d) => Agree(n, d)'
                      /\ n \notin open' =>
                           /\ d \notin joinedChannelsBySocketId'[n]
                           /\ Roster(d, n)' # None =>
                                cleanup'[n].stage = "leaving" /\ d \in cleanup'[n].todo
    BY DEF RecordsFollowRequests, Requested, InHand
  <2>1. Roster(d, n)' = Roster(d, n)
    BY <1>2 DEF Sockets
  <2>2. CASE n \in open'
    <3>1. n \in open /\ n \notin S
      BY <2>2
    <3>2. ~Requested(n, d) => Agree(n, d)
      BY <1>1, <3>1 DEF RecordsFollowRequests
    <3>3. QED
      BY <1>3, <2>1, <2>2, <3>1, <3>2 DEF Agree
  <2>3. CASE n \in S /\ n \in socketHandlersBySocketId
    <3>1. ~Requested(n, d)
      BY <2>3 DEF Requested, InHandChannels
    <3>2. Agree(n, d)
      BY <1>1, <2>3, <3>1 DEF RecordsFollowRequests
    <3>3. QED
      BY <2>1, <2>3, <3>2 DEF Agree
  <2>4. CASE n \in S /\ n \notin socketHandlersBySocketId
    <3>1. setup[n] # "ready"
      BY <1>1, <2>4 DEF ConnectionLifecycle
    <3>2. Roster(d, n) = None /\ d \notin joinedChannelsBySocketId[n]
      BY <1>1, <3>1, NotReadyHasNothing
    <3>3. QED
      BY <2>1, <2>4, <3>2
  <2>5. CASE n \notin open
    <3>1. n \notin S
      BY <2>5
    <3>2. QED
      BY <1>1, <2>1, <2>5, <3>1 DEF RecordsFollowRequests
  <2>6. QED
    BY <2>2, <2>3, <2>4, <2>5
<1>11. QED
  BY <1>5, <1>6, <1>7, <1>8, <1>9, <1>10 DEF RequestInv

\* Closing one socket, and disposing of the adapter, are closings.
LEMMA CloseInv ==
  ASSUME AdapterIInv, NEW s \in Sockets, Close(s)
  PROVE  RequestInv'
<1>1. AdapterTypeOK
  BY DEF AdapterIInv
<1>2. /\ s \in open
      /\ UNCHANGED <<setup, packet, vars>>
      /\ open' = open \ {s}
      /\ rooms' = RoomsWithout({s})
      /\ disturbed \subseteq disturbed' /\ InHandChannels({s}) \subseteq disturbed'
  BY DEF Close
<1>3. \A n \in Sockets :
        /\ joinedChannelsBySocketId'[n] \subseteq joinedChannelsBySocketId[n]
        /\ n \in open' => joinedChannelsBySocketId'[n] = joinedChannelsBySocketId[n]
  BY <1>1, <1>2 DEF Close, AdapterTypeOK
<1>4. \A n \in {s} \cap socketHandlersBySocketId :
        /\ joinedChannelsBySocketId'[n] = {}
        /\ cleanup'[n].stage = "leaving"
        /\ cleanup'[n].todo = joinedChannelsBySocketId[n]
  BY <1>1 DEF Close, AdapterTypeOK, CleanupOf
<1>5. \A n \in Sockets :
        n \notin {s} \cap socketHandlersBySocketId => cleanup'[n] = cleanup[n]
  BY <1>1 DEF Close, AdapterTypeOK
<1>6. {s} \in SUBSET Sockets /\ {s} \subseteq open
  BY <1>2
<1>7. QED
  BY <1>2, <1>3, <1>4, <1>5, <1>6, ClosingInv

LEMMA DisposeInv ==
  ASSUME AdapterIInv, Dispose
  PROVE  RequestInv'
<1>1. AdapterTypeOK /\ IInv /\ RequestInv /\ ConnectionLifecycle
  BY DEF AdapterIInv
<1>2. PICK S \in SUBSET Sockets :
        S = {n \in open : setup[n] \in {"notifying", "ready"}}
  BY <1>1 DEF AdapterTypeOK
<1>3. /\ UNCHANGED <<setup, packet, vars>>
      /\ open' = open \ S
      /\ rooms' = RoomsWithout(S)
      /\ joinedChannelsBySocketId' = [n \in Sockets |-> {}]
      /\ cleanup' = [n \in Sockets |-> IF n \in S \cap socketHandlersBySocketId
                                       THEN CleanupOf(n) ELSE cleanup[n]]
      /\ disturbed \subseteq disturbed'
      /\ InHandChannels(Sockets) \subseteq disturbed'
  BY <1>2 DEF Dispose
<1>4. InHandChannels(S) \subseteq InHandChannels(Sockets)
  BY DEF InHandChannels
<1>5. \A n \in Sockets :
        /\ joinedChannelsBySocketId'[n] \subseteq joinedChannelsBySocketId[n]
        /\ n \in open' => joinedChannelsBySocketId'[n] = joinedChannelsBySocketId[n]
  <2> SUFFICES ASSUME NEW n \in Sockets, n \in open'
               PROVE  joinedChannelsBySocketId[n] = {}
    BY <1>3
  <2>1. setup[n] # "ready"
    BY <1>2, <1>3
  <2>2. \A c \in Channels : c \notin joinedChannelsBySocketId[n]
    BY <1>1, <2>1, NotReadyHasNothing
  <2>3. joinedChannelsBySocketId[n] \subseteq Channels
    BY <1>1 DEF AdapterTypeOK
  <2>4. QED
    BY <2>2, <2>3
<1>6. \A n \in S \cap socketHandlersBySocketId :
        /\ joinedChannelsBySocketId'[n] = {}
        /\ cleanup'[n].stage = "leaving"
        /\ cleanup'[n].todo = joinedChannelsBySocketId[n]
  BY <1>3 DEF CleanupOf
<1>7. \A n \in Sockets :
        n \notin S \cap socketHandlersBySocketId => cleanup'[n] = cleanup[n]
  BY <1>3
<1>8. S \subseteq open
  BY <1>2
<1>9. QED
  BY <1>3, <1>4, <1>5, <1>6, <1>7, <1>8, ClosingInv

\* A cleanup leaves the channels it has to, and no request of its socket is in hand
\* on a channel where no fault happened.
LEMMA CleanupLeaveInv ==
  ASSUME AdapterIInv, NEW s \in Sockets, CleanupLeave(s)
  PROVE  RequestInv'
<1>1. /\ AdapterTypeOK /\ IInv /\ RequestInv /\ ConnectionLifecycle
      /\ OneRequestInHand /\ RecordsFollowRequests /\ RequestsInHand
      /\ RequestsOwnCalls /\ CallsHaveOwners /\ RoomsOfReadySockets
  BY DEF AdapterIInv, RequestInv
<1>2. PICK k \in Calls : k = NextCall /\ pc[k] = "idle"
  BY NextCallIsIdle DEF CleanupLeave
<1>3. cleanup[s] \in Cleanup /\ cleanup[s].todo \subseteq Channels
  BY <1>1 DEF AdapterTypeOK, Cleanup
<1>4. PICK c \in Channels :
        /\ LeaveChannel(k, c, s)
        /\ cleanup' = [cleanup EXCEPT ![s].todo = @ \ {c}, ![s].call = k]
  BY <1>2, <1>3 DEF CleanupLeave
<1>5. /\ cleanup'[s].stage = cleanup[s].stage
      /\ cleanup'[s].todo = cleanup[s].todo \ {c}
      /\ \A n \in Sockets \ {s} : cleanup'[n] = cleanup[n]
  BY <1>1, <1>3, <1>4 DEF AdapterTypeOK, Cleanup
<1>6. /\ UNCHANGED <<setup, open, joinedChannelsBySocketId, rooms, packet, disturbed>>
      /\ setup[s] = "ready" /\ s \notin open
  BY <1>1 DEF CleanupLeave, CleanupMayGoOn, sockets, lifetime, ConnectionLifecycle
<1>7. /\ request'[k] = [op |-> "leave", channel |-> c, member |-> s]
      /\ pc'[k] \in {"absent", "onLeave", "left"}
      /\ \A l \in Calls \ {k} : request'[l] = request[l] /\ pc'[l] = pc[l]
      /\ \A d \in Channels, n \in Members :
           Roster(d, n)' = IF d = c /\ n = s THEN None ELSE Roster(d, n)
  BY <1>1, <1>4, LeaveStarts DEF Sockets
<1>8. RequestsOwnCalls'
  <2> SUFFICES ASSUME NEW p \in Packets, InHand(p) PROVE OwnsCall(p)'
    BY <1>6 DEF RequestsOwnCalls, InHand
  <2>1. OwnsCall(p)
    BY <1>1 DEF RequestsOwnCalls
  <2>2. packet[p].stage # "leavingRoom" => packet[p].call \in Calls \ {k}
    BY <1>2, <2>1 DEF OwnsCall
  <2>3. QED
    BY <1>6, <1>7, <2>1, <2>2 DEF OwnsCall
<1>9. CallsHaveOwners'
  <2> SUFFICES ASSUME NEW l \in Calls, pc'[l] # "idle" PROVE HasOwner(l)'
    BY DEF CallsHaveOwners
  <2>1. CASE l = k
    BY <1>6, <1>7, <2>1 DEF HasOwner, Request, Sockets
  <2>2. CASE l # k
    <3>1. HasOwner(l)
      BY <1>1, <1>7, <2>2 DEF CallsHaveOwners
    <3>2. QED
      BY <1>6, <1>7, <2>2, <3>1 DEF HasOwner
  <2>3. QED
    BY <2>1, <2>2
<1>10. RoomsOfReadySockets' /\ OneRequestInHand'
  BY <1>1, <1>6 DEF RoomsOfReadySockets, OneRequestInHand, InHand
<1>11. RecordsFollowRequests'
  <2> SUFFICES ASSUME NEW n \in Sockets, NEW d \in Channels, d \notin disturbed
               PROVE  /\ n \in open /\ ~Requested(n, d) => Agree(n, d)'
                      /\ n \notin open =>
                           /\ d \notin joinedChannelsBySocketId[n]
                           /\ Roster(d, n)' # None =>
                                cleanup'[n].stage = "leaving" /\ d \in cleanup'[n].todo
    BY <1>6 DEF RecordsFollowRequests, Requested, InHand
  <2>1. CASE n = s
    BY <1>1, <1>5, <1>6, <1>7, <2>1 DEF RecordsFollowRequests, Sockets
  <2>2. CASE n # s
    <3>1. Roster(d, n)' = Roster(d, n)
      BY <1>7, <2>2 DEF Sockets
    <3>2. Agree(n, d) => Agree(n, d)'
      BY <1>6, <3>1 DEF Agree
    <3>3. QED
      BY <1>1, <1>5, <2>2, <3>1, <3>2 DEF RecordsFollowRequests
  <2>3. QED
    BY <2>1, <2>2
<1>12. RequestsInHand'
  <2> SUFFICES ASSUME NEW p \in Packets, InHand(p), packet[p].channel \notin disturbed
               PROVE  HalfJoined(p)'
    BY <1>6 DEF RequestsInHand, InHand
  <2>1. PICK n \in Sockets, d \in Channels : packet[p].socket = n /\ packet[p].channel = d
    BY <1>1, InHandFacts
  <2>2. HalfJoined(p) /\ OwnsCall(p)
    BY <1>1 DEF RequestsInHand, RequestsOwnCalls
  <2>3. n # s
    BY <1>6, <2>1, <2>2 DEF OwnsCall
  <2>4. Roster(d, n)' = Roster(d, n)
    BY <1>7, <2>3 DEF Sockets
  <2>5. packet[p].stage = "runtime" => pc'[packet[p].call] = pc[packet[p].call]
    BY <1>2, <1>7, <2>2 DEF OwnsCall
  <2>6. QED
    BY <1>6, <2>1, <2>2, <2>4, <2>5 DEF HalfJoined, Agree
<1>13. QED
  BY <1>8, <1>9, <1>10, <1>11, <1>12 DEF RequestInv

\* The end of a cleanup, a refused request and stuttering change nothing that the
\* records of requests depend on.
LEMMA QuietInv ==
  ASSUME AdapterIInv,
         UNCHANGED <<setup, open, joinedChannelsBySocketId, rooms, disturbed, vars>>,
         \A p \in Packets : packet'[p] = packet[p] \/ (packet[p].stage = "none"
                                                    /\ packet'[p].stage = "refused"),
         \A n \in Sockets : cleanup'[n] = cleanup[n] \/ cleanup[n].stage = "notifying"
                                                     \/ cleanup[n].todo = {}
  PROVE  RequestInv'
<1>1. /\ AdapterTypeOK /\ IInv /\ RequestInv
      /\ OneRequestInHand /\ RecordsFollowRequests /\ RequestsInHand
      /\ RequestsOwnCalls /\ CallsHaveOwners /\ RoomsOfReadySockets
  BY DEF AdapterIInv, RequestInv
<1>2. /\ \A d \in Channels, n \in Members : Roster(d, n)' = Roster(d, n)
      /\ UNCHANGED <<pc, request>>
  BY DEF vars, store, Roster
<1>3. \A p \in Packets : /\ InHand(p)' <=> InHand(p)
                         /\ InHand(p) => packet'[p] = packet[p]
                         /\ packet[p].stage = "runtime" => packet'[p] = packet[p]
  BY DEF InHand
<1>4. RequestsOwnCalls'
  BY <1>1, <1>2, <1>3 DEF RequestsOwnCalls, OwnsCall
<1>5. CallsHaveOwners'
  <2> SUFFICES ASSUME NEW k \in Calls, pc[k] # "idle" PROVE HasOwner(k)'
    BY <1>2 DEF CallsHaveOwners
  <2>1. HasOwner(k)
    BY <1>1 DEF CallsHaveOwners
  <2>2. (\E p \in Packets : packet[p].stage = "runtime" /\ packet[p].call = k) =>
          \E p \in Packets : packet'[p].stage = "runtime" /\ packet'[p].call = k
    BY <1>3
  <2>3. QED
    BY <1>2, <2>1, <2>2 DEF HasOwner
<1>6. RoomsOfReadySockets' /\ OneRequestInHand'
  BY <1>1, <1>3 DEF RoomsOfReadySockets, OneRequestInHand
<1>7. \A n \in Sockets, d \in Channels :
         /\ Agree(n, d)' <=> Agree(n, d)
         /\ Requested(n, d)' <=> Requested(n, d)
  BY <1>2, <1>3 DEF Agree, Requested, Sockets
<1>8. RecordsFollowRequests'
  BY <1>1, <1>2, <1>7 DEF RecordsFollowRequests, Sockets
<1>9. RequestsInHand'
  <2> SUFFICES ASSUME NEW p \in Packets, InHand(p), packet[p].channel \notin disturbed
               PROVE  HalfJoined(p)'
    BY <1>3 DEF RequestsInHand
  <2>1. HalfJoined(p) /\ packet[p].socket \in Sockets /\ packet[p].channel \in Channels
    BY <1>1, InHandFacts DEF RequestsInHand
  <2>2. QED
    BY <1>2, <1>3, <1>7, <2>1 DEF HalfJoined, Sockets
<1>10. QED
  BY <1>4, <1>5, <1>6, <1>8, <1>9 DEF RequestInv

\* The end of a cleanup is quiet.
LEMMA CleanupEndInv ==
  ASSUME AdapterIInv, NEW s \in Sockets, CleanupNotify(s) \/ CleanupEnds(s)
  PROVE  RequestInv'
<1>1. AdapterTypeOK
  BY DEF AdapterIInv
<1>2. /\ UNCHANGED <<setup, open, joinedChannelsBySocketId, rooms, disturbed, packet, vars>>
      /\ cleanup[s].stage = "notifying" \/ cleanup[s].todo = {}
  BY DEF CleanupNotify, CleanupEnds, sockets, lifetime
<1>3. \A n \in Sockets \ {s} : cleanup'[n] = cleanup[n]
  BY <1>1 DEF CleanupNotify, CleanupEnds, AdapterTypeOK
<1>4. \A p \in Packets : packet'[p] = packet[p] \/ (packet[p].stage = "none"
                                                  /\ packet'[p].stage = "refused")
  BY <1>2
<1>5. \A n \in Sockets : cleanup'[n] = cleanup[n] \/ cleanup[n].stage = "notifying"
                                                   \/ cleanup[n].todo = {}
  BY <1>2, <1>3
<1>6. UNCHANGED <<setup, open, joinedChannelsBySocketId, rooms, disturbed, vars>>
  BY <1>2
<1>7. QED
  BY <1>4, <1>5, <1>6, QuietInv

\* A refused request is quiet.
LEMMA RefuseRequestInv ==
  ASSUME AdapterIInv, NEW p \in Packets, NEW s \in Sockets, RefuseRequest(p, s)
  PROVE  RequestInv'
<1>1. /\ UNCHANGED <<setup, open, joinedChannelsBySocketId, rooms, disturbed, cleanup, vars>>
      /\ packet[p].stage = "none"
  BY DEF RefuseRequest, Hears, sockets, lifetime, NoPacket
<1>2. /\ packet'[p].stage = "refused"
      /\ \A q \in Packets \ {p} : packet'[q] = packet[q]
  BY DEF AdapterIInv, AdapterTypeOK, RefuseRequest, BadPacket
<1>3. \A q \in Packets : packet'[q] = packet[q] \/ (packet[q].stage = "none"
                                                  /\ packet'[q].stage = "refused")
  BY <1>1, <1>2
<1>4. \A n \in Sockets : cleanup'[n] = cleanup[n] \/ cleanup[n].stage = "notifying"
                                                   \/ cleanup[n].todo = {}
  BY <1>1
<1>5. UNCHANGED <<setup, open, joinedChannelsBySocketId, rooms, disturbed, vars>>
  BY <1>1
<1>6. QED
  BY <1>3, <1>4, <1>5, QuietInv

\* The adapter starts in its invariant.
LEMMA AdapterInitInv == AdapterInit => AdapterIInv
<1> SUFFICES ASSUME AdapterInit PROVE AdapterIInv
  OBVIOUS
<1> USE DEF AdapterInit
<1>1. IInv
  BY InvInit
<1>2. AdapterTypeOK
  BY DEF AdapterTypeOK, NoCleanup, Cleanup
<1>3. ConnectionLifecycle
  BY DEF ConnectionLifecycle, SettingUp, NoCleanup
<1>4. \A p \in Packets : ~InHand(p)
  BY DEF InHand, NoPacket
<1>5. \A k \in Calls : pc[k] = "idle"
  BY DEF Init
<1>6. \A c \in Channels, n \in Members : Roster(c, n) = None
  BY DEF Init, Roster
<1>7. RequestInv
  BY <1>4, <1>5, <1>6 DEF RequestInv, RequestsOwnCalls, CallsHaveOwners,
     RoomsOfReadySockets, OneRequestInHand, RecordsFollowRequests, RequestsInHand,
     Agree, Sockets
<1>8. QED
  BY <1>1, <1>2, <1>3, <1>7 DEF AdapterIInv

\* Every step of the adapter keeps its invariant.
LEMMA AdapterStepInv ==
  ASSUME AdapterIInv, [AdapterNext]_allVars
  PROVE  AdapterIInv'
<1>1. IInv /\ AdapterTypeOK /\ ConnectionLifecycle
  BY DEF AdapterIInv
<1>2. IInv'
  BY <1>1, StepBelow, InvStep
<1>3. AdapterTypeOK'
  BY <1>1, AdapterTypeStep
<1>4. ConnectionLifecycle'
  BY <1>1, LifecycleStep
<1>5. RequestInv'
  <2>1. ASSUME NEW s \in Sockets,
               \/ ConnectionMiddleware(s) \/ RefusesDisposed(s) \/ MiddlewareRemoved(s)
               \/ BuildSocketContext(s) \/ AuthorizeSucceeds(s) \/ AuthorizeFails(s)
               \/ RegisterHandlers(s) \/ OnConnectFails(s)
        PROVE  RequestInv'
    BY <2>1, SetupInv
  <2>2. ASSUME NEW s \in Sockets, Close(s)
        PROVE  RequestInv'
    BY <2>2, CloseInv
  <2>3. ASSUME NEW s \in Sockets, CleanupLeave(s)
        PROVE  RequestInv'
    BY <2>3, CleanupLeaveInv
  <2>4. ASSUME NEW s \in Sockets, CleanupNotify(s) \/ CleanupEnds(s)
        PROVE  RequestInv'
    BY <2>4, CleanupEndInv
  <2>5. ASSUME NEW p \in Packets, NEW s \in Sockets, RefuseRequest(p, s)
        PROVE  RequestInv'
    BY <2>5, RefuseRequestInv
  <2>6. ASSUME NEW p \in Packets, NEW s \in Sockets, NEW c \in Channels,
               JoinRequest(p, s, c) \/ LeaveRequest(p, s, c)
        PROVE  RequestInv'
    BY <1>3, <2>6, JoinRequestInv, LeaveRequestInv
  <2>7. ASSUME NEW p \in Packets,
               \/ JoinRejected(p) \/ JoinRoomSucceeds(p) \/ JoinRoomFails(p)
               \/ JoinRollbackEnds(p) \/ LeaveRoomSucceeds(p) \/ LeaveRoomFails(p)
               \/ LeaveEnds(p)
        PROVE  RequestInv'
    BY <1>3, <2>7, HandlerInv
  <2>8. ASSUME NEW k \in Calls, RuntimeStep(k)
        PROVE  RequestInv'
    BY <1>3, <2>8, RuntimeStepInv
  <2>9. ASSUME Dispose PROVE RequestInv'
    BY <2>9, DisposeInv
  <2>10. ASSUME UNCHANGED allVars PROVE RequestInv'
    <3>1. UNCHANGED <<setup, open, joinedChannelsBySocketId, rooms, disturbed, vars>>
      BY <2>10 DEF allVars, adapterVars, sockets, lifetime
    <3>2. packet' = packet /\ cleanup' = cleanup
      BY <2>10 DEF allVars, adapterVars
    <3>3. \A p \in Packets : packet'[p] = packet[p] \/ (packet[p].stage = "none"
                                                   /\ packet'[p].stage = "refused")
      BY <3>2
    <3>4. \A n \in Sockets : cleanup'[n] = cleanup[n] \/ cleanup[n].stage = "notifying"
                                                     \/ cleanup[n].todo = {}
      BY <3>2
    <3>5. QED
      BY <3>1, <3>3, <3>4, QuietInv
  <2>11. QED
    BY <2>1, <2>2, <2>3, <2>4, <2>5, <2>6, <2>7, <2>8, <2>9, <2>10 DEF AdapterNext
<1>6. QED
  BY <1>2, <1>3, <1>4, <1>5 DEF AdapterIInv

(***************************************************************************)
(* What the adapter keeps.                                                 *)
(***************************************************************************)

\* The invariant holds in every reachable state.
THEOREM AdapterInvariance == AdapterSpec => []AdapterIInv
<1>1. AdapterIInv /\ [AdapterNext]_allVars => AdapterIInv'
  BY AdapterStepInv
<1>2. QED
  BY <1>1, AdapterInitInv, PTL DEF AdapterSpec

\* The variables of the adapter have their types.
THEOREM AdapterTypes == AdapterSpec => []AdapterTypeOK
<1>1. AdapterIInv => AdapterTypeOK
  BY DEF AdapterIInv
<1>2. QED
  BY <1>1, AdapterInvariance, PTL

\* The adapter uses the runtime as the runtime is specified, whatever sockets do and
\* whenever they close: the theorems about Spec are theorems about the two together.
THEOREM AdapterUsesRuntime == AdapterSpec => Spec
<1>1. AdapterInit => Init
  BY DEF AdapterInit
<1>2. AdapterTypeOK /\ [AdapterNext]_allVars => [Next]_vars
  BY StepBelow
<1>3. QED
  BY <1>1, <1>2, AdapterTypes, PTL DEF AdapterSpec, Spec

\* Under the adapter, too, the memberships of the runtime behave like a roster that
\* members enter and leave.
THEOREM AdapterRefinesRoster == AdapterSpec => ImplementsRoster
  BY AdapterUsesRuntime, Refinement, PTL

\* What the adapter believes, the room of a channel and the membership in the runtime
\* agree for every open socket at rest, for every number of sockets, channels,
\* requests and runtime calls, and every combination of faults.
THEOREM RoomsAgree == AdapterSpec => []RoomsFollowMembership
<1>1. AdapterIInv => RoomsFollowMembership
  <2> SUFFICES ASSUME AdapterIInv, NEW s \in Sockets \ disturbed,
                      NEW c \in Channels \ disturbed, s \in open, AtRest(s)
               PROVE  /\ s \in rooms[c] <=> s \in ListChannelMembers(c)
                      /\ s \in rooms[c] <=> c \in joinedChannelsBySocketId[s]
    BY DEF RoomsFollowMembership
  <2>1. ~Requested(s, c)
    BY DEF AtRest, HasRequests, Requested
  <2>2. Agree(s, c)
    BY <2>1 DEF AdapterIInv, RequestInv, RecordsFollowRequests
  <2>3. s \in ListChannelMembers(c) <=> Roster(c, s) # None
    BY DEF ListChannelMembers, Sockets
  <2>4. QED
    BY <2>2, <2>3 DEF Agree
<1>2. QED
  BY <1>1, AdapterInvariance, PTL

\* A closed socket that is at rest left nothing behind, in the adapter or in the
\* runtime, unless a fault hit it or the channel.
THEOREM ClosedLeavesNothing == AdapterSpec => []NothingLeftBehind
<1>1. AdapterIInv => NothingLeftBehind
  <2> SUFFICES ASSUME AdapterIInv, NEW s \in Sockets \ disturbed,
                      s \notin open, AtRest(s)
               PROVE  /\ \A c \in Channels \ disturbed : s \notin ListChannelMembers(c)
                      /\ \A c \in Channels : s \notin rooms[c]
                      /\ joinedChannelsBySocketId[s] \subseteq disturbed
                      /\ s \notin contextBySocketId
                      /\ s \notin socketHandlersBySocketId
    BY DEF NothingLeftBehind
  <2>1. AdapterTypeOK /\ ConnectionLifecycle /\ RecordsFollowRequests /\ RoomsOfReadySockets
    BY DEF AdapterIInv, RequestInv
  <2>2. cleanup[s].stage \in {"none", "done"}
    BY DEF AtRest
  <2>3. ASSUME NEW c \in Channels \ disturbed
        PROVE  s \notin ListChannelMembers(c) /\ c \notin joinedChannelsBySocketId[s]
    BY <2>1, <2>2 DEF RecordsFollowRequests, ListChannelMembers, Sockets
  <2>4. \A c \in Channels : s \notin rooms[c]
    BY <2>1 DEF RoomsOfReadySockets
  <2>5. joinedChannelsBySocketId[s] \subseteq Channels
    BY <2>1 DEF AdapterTypeOK
  <2>6. s \notin contextBySocketId /\ s \notin socketHandlersBySocketId
    BY <2>1, <2>2 DEF ConnectionLifecycle
  <2>7. QED
    BY <2>3, <2>4, <2>5, <2>6
<1>2. QED
  BY <1>1, AdapterInvariance, PTL

\* onDisconnect is called at most once per connection, only after an onConnect that
\* succeeded, never for the context undefined, and has been called for every other
\* such connection once it is closed and at rest.
THEOREM DisconnectsMatchConnects == AdapterSpec => []ConnectsAreDisconnected
<1>1. AdapterIInv => ConnectsAreDisconnected
  <2> SUFFICES ASSUME AdapterIInv, NEW s \in Sockets
               PROVE  /\ disconnects[s] <= 1
                      /\ disconnects[s] = 1 =>
                           setup[s] = "ready" /\ s \notin open /\ s \notin undefinedContexts
                      /\ setup[s] = "ready" /\ s \notin open /\ AtRest(s)
                           /\ s \notin disturbed \cup undefinedContexts =>
                             disconnects[s] = 1
    BY DEF ConnectsAreDisconnected
  <2>1. ConnectionLifecycle
    BY DEF AdapterIInv
  <2>2. disconnects[s] =
          IF cleanup[s].stage \in {"notifying", "done"} /\ cleanup[s].hadContext
          THEN 1 ELSE 0
    BY <2>1 DEF ConnectionLifecycle
  <2>3. cleanup[s].stage # "none" =>
          /\ setup[s] = "ready" /\ s \notin open
          /\ cleanup[s].hadContext <=> s \notin undefinedContexts
    BY <2>1 DEF ConnectionLifecycle
  <2>4. setup[s] = "ready" /\ s \notin open /\ s \notin disturbed =>
          cleanup[s].stage # "none"
    BY <2>1 DEF ConnectionLifecycle
  <2>5. QED
    BY <2>2, <2>3, <2>4 DEF AtRest
<1>2. QED
  BY <1>1, AdapterInvariance, PTL
=============================================================================
