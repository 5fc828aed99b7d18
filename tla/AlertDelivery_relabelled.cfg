SPECIFICATION Spec
CONSTANTS
    Instances = {i1, i2}
    Silences = {}
    Scopes <- NoScopes
    Channels = {c1}
    Groups = {"direct"}
    Workers = {w1}
    Mutations = {"pause", "labels"}
    MaxEvents = 2
    Horizon = 2
    MaxTime = 5
    MaxThrows = 0
    GroupWait = 1
    GroupInterval = 2
    IdleAt = 99
    ClaimCap = 1
INVARIANTS TypeOK ChainOwned OneTerminal MutedStaysQuiet
PROPERTIES PacedFlush
CHECK_DEADLOCK FALSE
