SPECIFICATION Spec
CONSTANTS
  Registrations = {r1, r2, r3, r4}
  Listeners = {f, g}
  None = None
  MaxEvents = 2
INVARIANTS
  TypeOK
  StayersAreCalled
  CeasedStaySilent
CHECK_DEADLOCK FALSE
