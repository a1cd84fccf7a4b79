CONSTANTS
    None = None
    client = client
    server = server
    Peers = {client, server}
    Initiator = client
    Perfect = FALSE
    BasePerfect = FALSE
    Direct = FALSE
    MultiThreaded = FALSE
    MAX_HYPER_RATCHETS_IN_MEMORY = 2
    MaxVersion = 3
    MaxId = 3
    MaxMessages <- TwoTwo
    MaxRekeys <- OneOne
    Droppers = {}
SPECIFICATION Spec
INVARIANTS
    KeyAgreement
CHECK_DEADLOCK FALSE
