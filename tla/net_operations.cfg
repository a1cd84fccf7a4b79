CONSTANTS
    Capacity = 1
    MaxId = 2
    MaxChan = 1
    MaxClock = 8
    MaxSkew = 2
    MaxTime = 2
    MaxItems = 2
SPECIFICATION Spec
INVARIANTS
    SameOutcome
    StartsTogether
    NoFault
PROPERTIES
    BothReturn
    Closes
    MutexReleases
CHECK_DEADLOCK FALSE
