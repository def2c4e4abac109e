SPECIFICATION FairErrorSpec
CONSTANTS
  Calls = {k1, k2}
  Timed = {k1}
  Abortable = {k2}
  Checks = 2
  MaxSessions = 2
  Names = {ring}
  Command = ring
  Values = {u, v}
  Thrown = {"invalid-input"}
  MaxListed = 2
INVARIANTS
  ErrorTypeOK
  HandlersAreGuarded
  CodesAreTruthful
  HandlersGetValidInput
PROPERTIES
  ImplementsContract
  TimedCallsSettle
CHECK_DEADLOCK FALSE
