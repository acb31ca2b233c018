SPECIFICATION Spec
INVARIANT TypeOK
INVARIANT OneReportAtATime
INVARIANT OnlyFinalizedReported
 
PROPERTY LastCheckpointAgreed
CONSTANTS
    n1 = n1
    n2 = n2
    Nodes = {n1, n2}
    Kind = "balances"
    MaxRound = 3
    MaxReports = 2
    MaxFaults = 1
    LateEvents = {}
    MissingSlots = {2}
    MegapoolStaking = TRUE
