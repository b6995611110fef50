SPECIFICATION Spec
CONSTANTS
  Jobs <- LegacyJob
  Faults = {"sector"}
CHECK_DEADLOCK FALSE
INVARIANT AnnouncedSuccessIsSuccess
