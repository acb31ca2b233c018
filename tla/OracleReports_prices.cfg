SPECIFICATION Spec
PROPERTY EveryoneTakesPart
CONSTANTS
    n1 = n1
    n2 = n2
    n3 = n3
    Nodes = {n1, n2, n3}
    Kind = "prices"
    MaxRound = 1
    MaxReports = 1
    MaxFaults = 1
    LateEvents = {}
    MissingSlots = {}
    MegapoolStaking = FALSE
