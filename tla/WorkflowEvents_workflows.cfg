SPECIFICATION Spec
CONSTANTS
    Orgs = {o1, o2}
    Workers = {w1, w2}
    LastEvent = 2
    TTL = 1
    MaxAttempts = 2
    MaxDeliveries = 3
    MaxCrashes = 1
SYMMETRY Alike
INVARIANT Owed
INVARIANT NewestShown
PROPERTY TenantRecent
CHECK_DEADLOCK FALSE
