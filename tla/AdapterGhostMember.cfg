SPECIFICATION AdapterSpec
CONSTANTS
  Channels = {c1}
  Members = {s1}
  Calls = {k1, k2, k3}
  Packets = {p1}
  None = None
  NoRequest = NoRequest
  JoinChecks <- MCOneCheck
  HasOnJoin = TRUE
  HasOnLeave = TRUE
  OnJoinMayFail = TRUE
  Faults = {"closeMidRequest"}
INVARIANTS
  DisconnectFreesMemberships
CHECK_DEADLOCK FALSE
