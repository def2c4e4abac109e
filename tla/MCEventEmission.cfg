SPECIFICATION EmissionSpec
CONSTANTS
  Channels = {c1, c2}
  Members = {m1, m2}
  Joins = {j1, j2, j3}
  None = None
  MayEvict = TRUE
  Emissions = {e1}
  ReceivePolicies = 2
  MaxRoutes = 2
INVARIANTS
  EmissionTypeOK
  EveryDeliveryAccounted
  ReceivedIsDelivered
  OnlyAllowedIsReceived
  AudienceIsCovered
SYMMETRY MCSymmetry
CHECK_DEADLOCK FALSE
