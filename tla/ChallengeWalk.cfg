SPECIFICATION WalkSpec
CONSTANTS
    Sizes = {2, 3, 5}
    Powers = {0, 1}
    MaxPerRound = 3
    MaxLies = 1
INVARIANTS
    EveryRoundIsProvable
    TrueAccusation
