---------------------------- MODULE ChannelRoster ----------------------------
(***************************************************************************)
(* What the server runtime promises about channel membership, without      *)
(* calls, awaits or buckets: who is in which channel, by which join.       *)
(*                                                                         *)
(* A join id enters a roster at most once, for one member of one channel.  *)
(* A member disappears alone.  The only way several members may disappear  *)
(* together is Evict, and only when MayEvict says so: ServerChannels.tla   *)
(* shows that a failing onJoin hook is the one cause.                      *)
(***************************************************************************)
CONSTANTS
  Channels,   \* channel instances
  Members,    \* member ids
  Joins,      \* identities of membership objects
  None,       \* "no membership"
  MayEvict    \* whether a whole channel may be dropped at once

VARIABLES
  roster,     \* roster[c][m]: the join that made m a member of c, or None
  spent       \* the joins that ever entered a roster

vars == <<roster, spent>>

Init ==
  /\ roster = [c \in Channels |-> [m \in Members |-> None]]
  /\ spent = {}

\* A fresh join makes (or re-makes) m a member of c.
Enter(j, c, m) ==
  /\ j \notin spent
  /\ spent' = spent \cup {j}
  /\ roster' = [roster EXCEPT ![c][m] = j]

\* One member leaves one channel; the others stay.
Exit(c, m) ==
  /\ roster' = [roster EXCEPT ![c][m] = None]
  /\ UNCHANGED spent

\* Every member of a channel is dropped in one step.
Evict(c) ==
  /\ MayEvict
  /\ roster' = [roster EXCEPT ![c] = [m \in Members |-> None]]
  /\ UNCHANGED spent

Next ==
  \E c \in Channels :
    \/ \E m \in Members : Exit(c, m) \/ \E j \in Joins : Enter(j, c, m)
    \/ Evict(c)

Spec == Init /\ [][Next]_vars
=============================================================================
