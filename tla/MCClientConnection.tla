-------------------------- MODULE MCClientConnection --------------------------
(***************************************************************************)
(* ClientConnection for TLC: listener functions are interchangeable.       *)
(***************************************************************************)
EXTENDS ClientConnection, TLC

Symmetry == Permutations(Listeners)
=============================================================================
