SPECIFICATION Spec
CONSTANTS
  lobby = lobby
  room = room
  Channels = {lobby, room}
  Members = {m1, m2}
  Calls = {k1, k2, k3, k4}
  None = None
  NoRequest = NoRequest
  JoinChecks <- MCJoinChecks
  HasOnJoin = TRUE
  HasOnLeave = TRUE
  OnJoinMayFail = TRUE
INVARIANTS
  TypeOK
  ActiveIffPopulated
  MembersWereAdmitted
  RolledBackJoinIsGone
  LeftOnce
PROPERTIES
  ImplementsRoster
CHECK_DEADLOCK FALSE
