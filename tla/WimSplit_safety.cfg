SPECIFICATION Spec
CONSTANTS
    FatMax = 10
    ByteRange = 4
    PartsAtATime = 2
    Metadata <- MCMetadata
    Blobs <- MCBlobs
    ChunkSize = 5
    Waste <- MCWaste
    Faults <- MCFaults
INVARIANTS
    PlanIsSound
    PartsMakeTheImage
PROPERTIES
    ProgressOnlyAdvances
CHECK_DEADLOCK FALSE
