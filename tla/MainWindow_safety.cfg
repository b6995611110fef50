SPECIFICATION FairSpec
CONSTANTS
  Workers = {w1, w2}
  LegacyFiles = 3
  MaxQueue = 5
  MaxMounts = 2
  EventsWait = TRUE
CHECK_DEADLOCK FALSE
INVARIANTS TypeOK AtMostOneWrite FailureIsShownOrAnswered
PROPERTIES ScheduledStopIsKept StopEndsTheWrite WriteHandsTheWindowBack
