SPECIFICATION Spec
CONSTANTS
  Keys = {a, b, c}
  Invalid = Invalid
  MaxCalls = 4
  MaxEmissions = 2
INVARIANTS
  TypeOK
  AddressesAgree
  OwedEventsArrive
CHECK_DEADLOCK FALSE
