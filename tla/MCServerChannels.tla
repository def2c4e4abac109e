--------------------------- MODULE MCServerChannels ---------------------------
(* Model constants for ServerChannels: one channel without checks, one with  *)
(* a policy and an authorizer.                                               *)
EXTENDS ServerChannels
CONSTANTS lobby, room
MCJoinChecks == [c \in Channels |-> IF c = lobby THEN 0 ELSE 2]
=============================================================================
