SPECIFICATION Spec
CONSTANTS
    Scenes = {"decline"}
    Peer1 = p1
    Peer2 = p2
    Peer3 = p3
CHECK_DEADLOCK FALSE
PROPERTY OneAnswerAfterDecline
