CONSTANTS
    Scenes = {"retries"}
    Client1 = c1
    ServerNode = server
    Link1 = l1
    Link2 = l2
    Account = user
    Nothing = None
SPECIFICATION Spec
INVARIANT
    KeysAgree
CHECK_DEADLOCK FALSE
