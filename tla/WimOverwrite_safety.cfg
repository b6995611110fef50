SPECIFICATION Spec
CONSTANTS
    Images = {1}
    Size = 14
    XmlLengths = {1, 2}
    ChunkSize = 4
    FirstFiles <- MCFirstFiles
    CallFlags <- MCCallFlags
    Faults <- MCFaults
    MaxOpens = 2
INVARIANTS
    TypeOK
    AppendIsAtomic
    RebuildSurvivesPowerLoss
    SuccessIsComplete
    DamageIsMarked
    SourcesStayReadable
PROPERTIES
    DataStayInPlace
CHECK_DEADLOCK FALSE
