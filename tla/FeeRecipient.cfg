SPECIFICATION Spec
CONSTANTS
    Interval = 2
    MaxEpoch = 10
    MaxFaults = 2
CHECK_DEADLOCK FALSE
INVARIANT TypeOK
INVARIANT OnlyJoinsExpose
PROPERTY IllegalIsReplaced
 
