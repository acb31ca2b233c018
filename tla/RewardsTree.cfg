SPECIFICATION Spec
INVARIANT TypeOK
INVARIANT FlagIsCleared
PROPERTY TreeSavedBeforeVote
PROPERTY OnlyHiddenVotesAreMissing
CONSTANTS
    n1 = n1
    n2 = n2
    Nodes = {n1, n2}
    Trusted = {n1, n2}
    MaxElapsed = 2
    MaxGenerations = 2
    MaxFaults = 1
    MaxFailedRuns = 1
