SPECIFICATION FairSpec
CONSTANTS
    Scenes = {"connect", "drop", "overlap", "register", "leave", "part", "decline", "founded", "public", "rejoin", "three", "invite"}
    Peer1 = p1
    Peer2 = p2
    Peer3 = p3
CHECK_DEADLOCK FALSE
INVARIANTS
    RegistrationsHold
    ConnectionsHold
    GroupsHold
PROPERTIES
    OneAnswer
    EveryRequestAnswered
    EveryCommandAnswered
