SPECIFICATION AdapterSpec
CONSTANTS
  Channels = {c1, c2}
  Members = {s1}
  Calls = {k1, k2, k3, k4, k5, k6, k7, k8}
  Packets = {p1, p2, p3}
  None = None
  NoRequest = NoRequest
  JoinChecks <- MCOneCheck
  HasOnJoin = TRUE
  HasOnLeave = TRUE
  OnJoinMayFail = TRUE
  Faults = {"closeMidSetup", "closeMidRequest", "disposeMidway", "overlap", "rejoin"}
INVARIANTS
  AdapterTypeOK
  RoomsFollowMembership
  NothingLeftBehind
  ConnectsAreDisconnected
SYMMETRY MCSymmetry
CHECK_DEADLOCK FALSE
