CONSTANTS
    Node = {initiator, receiver}
    MaxTime = 3
    MayHalt = FALSE
    DroppedTime = 2
SPECIFICATION LocksSpec
INVARIANT RwWriterExcludesAll
SYMMETRY Symmetry
CHECK_DEADLOCK FALSE
