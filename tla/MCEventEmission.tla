--------------------------- MODULE MCEventEmission ---------------------------
(* Emissions, members and joins are interchangeable in EventEmission.        *)
EXTENDS EventEmission, TLC
MCSymmetry ==
  Permutations(Emissions) \cup Permutations(Members) \cup Permutations(Joins)
=============================================================================
