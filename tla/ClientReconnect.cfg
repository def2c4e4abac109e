SPECIFICATION Spec
CONSTANTS
  Keys = {k1}
  MaxCalls = 1
  MaxSessions = 2
  Faults = {"unready"}
PROPERTIES
  ReconnectKeepsSubscriptions
CHECK_DEADLOCK FALSE
