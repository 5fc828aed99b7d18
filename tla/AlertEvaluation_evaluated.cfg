CONSTANTS
    Instances = {i1}
    Editors = {x1}
    Mutations = {"update", "labels", "pause"}
    ForSecs = 1
    ResolveAfter = 2
    Interval = 1
    Phase = 0
    RetryInitial = 1
    RetryMax = 2
    StaleEnqueue = 2
    Horizon = 3
    MaxTime = 4
    MaxEdits = 1
    MaxThrows = 0
SPECIFICATION Spec
INVARIANTS TypeOK EpisodesWellFormed
PROPERTY ForHonest
CHECK_DEADLOCK FALSE
