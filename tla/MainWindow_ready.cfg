SPECIFICATION Spec
CONSTANTS
  Workers = {w1}
  LegacyFiles = 3
  MaxQueue = 5
  MaxMounts = 2
  EventsWait = TRUE
CHECK_DEADLOCK FALSE
INVARIANTS ReadyMeansStartable
