SPECIFICATION Spec
INVARIANT TypeOK
INVARIANT WrongChainNeverUsed
INVARIANT FallbacksForced
PROPERTY FlagFollowsPrimary
PROPERTY CallsReturn
CONSTANTS
    g1 = g1
    w1 = w1
    k1 = k1
    Callers = {g1}
    FallbackEnabled = TRUE
    Flags = {"ignore-sync-check", "force-fallbacks"}
    Conditions = {"down", "syncing", "stale", "synced"}
    MaxChanges = 1
    Waiters = {w1}
    TimedWaiters = {w1}
    Collectors = {k1}
