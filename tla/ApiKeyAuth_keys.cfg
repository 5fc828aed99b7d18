SPECIFICATION Spec
CONSTANTS
    Keys = {k1, k2}
    Callers = {r1, r2}
    CacheSize <- OneEach
    CacheTTL <- Lifetimes
    Timeout = 1
    MaxTime = 4
INVARIANTS TypeOK FreshExclusive CachesWhole AcceptanceIsRecent OutageHidden WaiterHasFlight
CHECK_DEADLOCK FALSE
