SPECIFICATION Spec
CONSTANTS
    Interval = 2
    MaxEpoch = 8
    MaxFaults = 0
CHECK_DEADLOCK FALSE
INVARIANT NeverPenalizable
