SPECIFICATION Spec
CONSTANTS
    Requests = {p1, p2}
    MaxCheckouts = 3
SYMMETRY Alike
INVARIANT TypeOK
INVARIANT SoldOnce
INVARIANT EntitlementPaid
INVARIANT PaidEntitled
INVARIANT PaidNotDeleted
CHECK_DEADLOCK FALSE
