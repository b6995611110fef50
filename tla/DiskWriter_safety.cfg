SPECIFICATION FairSpec
CONSTANTS
  Jobs <- MCJobs
  Faults <- AllFaults
CHECK_DEADLOCK FALSE
INVARIANTS
  TypeOK
  CleanRunIsComplete
  EveryFileIsAccountedFor
  TempIsRemoved
  NoLargeFileOnFAT32
  SuccessMeansWholeFile
PROPERTIES
  StopStopsWriting
  ImplementsWriteInOrder
  EveryWriteEnds
