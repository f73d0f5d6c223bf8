SPECIFICATION FairSpec
CONSTANTS
    r1 = r1  r2 = r2  c1 = c1  c2 = c2  w1 = w1  w2 = w2
    Rows <- TwoRows
    Pollers <- OnePoller
    Workers <- TwoWorkers
    MaxRetries = 3
    KeepFailed = 1
    MaxResends = 1
    MayFail = TRUE
CHECK_DEADLOCK FALSE
INVARIANTS
    SentWasAccepted
    DeadWasTried
PROPERTIES
    FinalUntilResent
    DueIsAttempted
