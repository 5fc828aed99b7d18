CONSTANTS
    Runs = {r1, r2, r3}
    MaxAttempts = 5
    MaxFaults = 3
SPECIFICATION FairSpec
INVARIANTS TypeOK OneSuccessRow AttemptsCounted ResentOnlyBlind
PROPERTIES SentIsFinal Concludes
CHECK_DEADLOCK FALSE
