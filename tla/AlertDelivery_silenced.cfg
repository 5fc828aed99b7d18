SPECIFICATION Spec
CONSTANTS
    Instances = {i1}
    Silences = {s1}
    Scopes <- Everything
    Channels = {c1}
    Groups = {"direct"}
    Workers = {w1, w2}
    Mutations = {"labels", "delete", "unsilence"}
    MaxEvents = 2
    Horizon = 1
    MaxTime = 4
    MaxThrows = 0
    GroupWait = 1
    GroupInterval = 2
    IdleAt = 99
    ClaimCap = 2
INVARIANTS OpenHasJob FlushBooked
PROPERTIES ImplementsChain
CHECK_DEADLOCK FALSE
