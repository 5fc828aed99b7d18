SPECIFICATION Spec
CONSTANTS
    Requests = {p1, p2}
    MaxCheckouts = 3
SYMMETRY Alike
INVARIANT NeverSoldTwice
CHECK_DEADLOCK FALSE
