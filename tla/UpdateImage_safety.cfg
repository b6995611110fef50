SPECIFICATION Spec
CONSTANTS
    Commands <- MCCommands
    Images <- MCImages
    Names <- MCNames
    MaxCommands = 3
    InlineEntries = 1
    Faults <- MCFaults
INVARIANTS
    TypeOK
    EveryTreeHasOneOwner
PROPERTIES
    UpdateIsAtomic
CHECK_DEADLOCK FALSE
