CONSTANTS
    Instances = {}
    Editors = {x1, x2}
    Mutations = {"update", "labels", "adopt", "pause", "resume", "delete"}
    ForSecs = 0
    ResolveAfter = 1
    Interval = 2
    Phase = 1
    RetryInitial = 1
    RetryMax = 2
    StaleEnqueue = 2
    Horizon = 3
    MaxTime = 12
    MaxEdits = 2
    MaxThrows = 1
SPECIFICATION FairSpec
INVARIANTS NextIsNew
PROPERTY Watched
CHECK_DEADLOCK FALSE
