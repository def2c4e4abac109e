SPECIFICATION FairSpec
CONSTANTS
  Keys = {k1}
  MaxCalls = 3
  MaxSessions = 3
  Faults = {"giveUp", "reorder", "leave", "verdict", "unready"}
INVARIANTS
  TypeOK
  Serialized
  NoSubscriptionAfterDestroy
  AgreementAtRest
PROPERTIES
  SubscriptionsBecomeReal
CHECK_DEADLOCK FALSE
