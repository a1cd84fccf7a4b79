CONSTANTS
    None = None
    client = client
    server = server
    Peers = {client, server}
    Initiator = client
    Perfect = FALSE
    BasePerfect = FALSE
    Direct = FALSE
    MultiThreaded = FALSE
    MAX_HYPER_RATCHETS_IN_MEMORY = 2
    MaxVersion = 3
    MaxId = 3
    MaxMessages <- TwoTwo
    MaxRekeys <- TwoZero
    Droppers = {}
SPECIFICATION SettingsSpec
INVARIANTS
    TypeOK
    WindowInv
    EndsUnderstandEachOther
    LocksAccounted
    AgreeAtRest
    InOrder
    QueueWaitsForUpdate
PROPERTIES
    SessionImplementsAgreement
    UpdatesEnd
CHECK_DEADLOCK FALSE
