SPECIFICATION Spec
INVARIANT TypeOK
INVARIANT TargetsAdvance
 
PROPERTY SnapshotNeverChanges
CONSTANTS
    GenesisTime = 0
    SecondsPerSlot = 2
    SlotsPerEpoch = 2
    Reference = 5
    Interval = 7
    LookBack = 2
    EndTimes = {4, 7, 9, 11}
    MaxSlot = 10
