CONSTANTS
    Scenes = {"attempt", "refusal", "retries"}
    Client1 = c1
    ServerNode = server
    Link1 = l1
    Link2 = l2
    Account = user
    Nothing = None
SPECIFICATION FairSpec
INVARIANTS
    OneOutcome
    LoginInOrder
    ClientEntryIsLive
PROPERTY
    EveryAttemptAnswered
\* Sessions that have ended are not begun again.
CHECK_DEADLOCK FALSE
