SPECIFICATION Spec
CONSTANTS
  lobby = lobby
  room = room
  Channels = {lobby, room}
  Members = {m1, m2}
  Calls = {k1, k2, k3}
  None = None
  NoRequest = NoRequest
  JoinChecks <- MCJoinChecks
  HasOnJoin = TRUE
  HasOnLeave = FALSE
  OnJoinMayFail = TRUE
PROPERTIES
  RollbackIsLocal
CHECK_DEADLOCK FALSE
