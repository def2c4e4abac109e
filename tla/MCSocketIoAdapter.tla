--------------------------- MODULE MCSocketIoAdapter ---------------------------
(* Model constants for SocketIoAdapter: every channel has one join check, or *)
(* none.  Sockets, channels and packets are interchangeable; runtime calls   *)
(* are not, NextCall chooses among them.                                     *)
EXTENDS SocketIoAdapter, TLC
MCOneCheck == [c \in Channels |-> 1]
MCNoCheck == [c \in Channels |-> 0]
MCSymmetry ==
  Permutations(Members) \cup Permutations(Channels) \cup Permutations(Packets)
=============================================================================
