CONSTANTS
    None = None
    MaxId = 4
    MaxSent = 8
    MaxGroups = 2
    PortRange = 2
    GroupIds = {0, 1}
    Alice = Alice
    Bob = Bob
SPECIFICATION StreamsSpec
INVARIANTS
    TypesOK
    InOrder
    NothingHeldBack
    GroupIsConfirmed
    NonceVersionsDiffer
    StatusesAreTrue
    GroupsAreTracked
PROPERTIES
    AllDelivered
    SplitterImplementsWaves
    TransfersEnd
CHECK_DEADLOCK FALSE
