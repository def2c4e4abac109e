SPECIFICATION PolicySpec
CONSTANTS
  Scopes = {"none", "command"}
  Width = 2
  Parts = 3
INVARIANTS
  PolicyTypeOK
  VerdictIsSound
  AskedRightly
  ReasonIsTheFirstCause
CHECK_DEADLOCK FALSE
