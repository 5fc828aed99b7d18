SPECIFICATION Spec
CONSTANTS
    Runs = {r1, r2}
    MaxAttempts = 2
    MaxRestarts = 1
INVARIANT TypeOK
INVARIANT ReadyServes
INVARIANT NothingForgotten
PROPERTY ReadyStays
PROPERTY SetUp
PROPERTY CleanedUp
