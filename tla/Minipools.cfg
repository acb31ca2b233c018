SPECIFICATION Spec
CONSTANTS
    Members = {a, b}
    Quorum = 2
    Minipools = {1, 2}
    ScrubPeriod = 3
    PromotionPeriod = 3
    WindowStart = 2
    WindowLength = 2
    LaunchTimeout = 8
    MaxFaults = 1
CHECK_DEADLOCK FALSE
INVARIANTS TypeOK   GoodIsLaunched
