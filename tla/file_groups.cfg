CONSTANTS
    None = None
    MaxId = 4
    Alice = Alice
    Bob = Bob
    Node = {Alice, Bob}
    Plans <- TwoFiles
    WaveCount = 2
    ChannelLimit = 1
    MaxMessage <- NoMessages
    Responses = {"accept"}
    MayFail = FALSE
    MayExpire = FALSE
SPECIFICATION FileSpec
INVARIANT EveryFileIsWhole
CHECK_DEADLOCK FALSE
