SPECIFICATION FairSpec
CONSTANTS
    Instances = {i1}
    Silences = {s1}
    Scopes <- Everything
    Channels = {c1}
    Groups = {"direct"}
    Workers = {w1}
    Mutations = {"pause"}
    MaxEvents = 2
    Horizon = 2
    MaxTime = 9
    MaxThrows = 1
    GroupWait = 1
    GroupInterval = 2
    IdleAt = 99
    ClaimCap = 1
PROPERTIES Settles
CHECK_DEADLOCK FALSE
