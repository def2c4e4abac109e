SPECIFICATION Spec
CONSTANTS
  Listeners = {f, g}
  None = None
  Statuses = {"connecting", "connected", "reconnecting", "disconnected", "failed"}
  MaxListeners = 2
  MaxNotifications = 4
INVARIANTS
  TypeOK
  ListenersAreCurrent
  NoSubscriptionForgotten
  DestroyedIsDisconnected
SYMMETRY Symmetry
CHECK_DEADLOCK FALSE
