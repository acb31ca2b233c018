SPECIFICATION Spec
CONSTANTS
    Own = own
    Others = {p, q}
    Paths = {{1, 3}, {1, 3, 6}}
    MaxChallenges = 2
    Disputed = {2, 3}
    Patience = 5
    MaxReorgs = 1
    MaxDepth = 1
    MaxFaults = 1
INVARIANTS
    TypeOK
    NothingOverlooked
PROPERTIES
    OnlyOverlookedExpire
    WrongIsDefeated
CHECK_DEADLOCK FALSE
