SPECIFICATION Spec
CONSTANTS
    Instances = {i1}
    Silences = {s1}
    Scopes <- Everything
    Channels = {c1}
    Groups = {"direct"}
    Workers = {w1}
    Mutations = {"unsilence"}
    MaxEvents = 1
    Horizon = 3
    MaxTime = 5
    MaxThrows = 0
    GroupWait = 1
    GroupInterval = 2
    IdleAt = 99
    ClaimCap = 2
INVARIANTS ChainOwned
CHECK_DEADLOCK FALSE
