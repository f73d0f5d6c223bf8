SPECIFICATION FairSpec
CONSTANTS
    r1 = r1  r2 = r2  c1 = c1  c2 = c2  w1 = w1  w2 = w2
    Rows <- TwoRows
    Pollers <- OnePoller
    Workers <- OneWorker
    MaxRetries = 3
    KeepFailed = 1
    MaxResends = 1
    MayFail = FALSE
CHECK_DEADLOCK FALSE
PROPERTY EveryChangeIsAnnounced
