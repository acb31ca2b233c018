SPECIFICATION Spec
INVARIANT TypeOK
 
PROPERTY WaitsReturn
PROPERTY FlagsFollowClients
CONSTANTS
    g1 = g1
    w1 = w1
    w2 = w2
    Callers = {g1}
    FallbackEnabled = TRUE
    Flags = {"ignore-sync-check", "force-fallbacks"}
    Conditions = {"down", "broken", "syncing", "stale", "synced"}
    MaxChanges = 1
    Waiters = {w1, w2}
