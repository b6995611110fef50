SPECIFICATION FairSpec
CONSTANTS
    NumThreads = 3
    MsgsPerThread = 1
    PerMsg = 2
    NumChunks = 9
    Incompressible = {2, 7}
    Faults <- MCFaults
INVARIANTS
    TypeOK
    ResultsInOrder
    MessagesHaveOneOwner
PROPERTIES
    EverythingEnds
CHECK_DEADLOCK FALSE
