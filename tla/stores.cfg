CONSTANTS
    User1 = u1
    User2 = u2
    User3 = u3
    Old = old
    New = new
SPECIFICATION Spec
INVARIANTS
    QueriesAgree
    RestartKeeps
PROPERTY
    StoresImplement
