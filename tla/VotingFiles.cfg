SPECIFICATION Spec
CONSTANTS
    Procs = {p, q}
    Blocks = {1, 2}
    MaxCalls = 3
    MaxFaults = 1
CHECK_DEADLOCK FALSE
INVARIANT TypeOK
INVARIANT SavedIsFound
 
