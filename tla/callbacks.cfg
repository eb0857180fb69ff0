CONSTANTS
    MaxAttempts = 2
    MaxRetry = 1
    Calm = TRUE
    MaxGen = 2
    MaxRun = 1
    MaxHk = 1
    MaxReq = 1
    MaxCrash = 1
    MaxStale = 1
SPECIFICATION FairSpec
INVARIANTS DeliveriesSound EventTrue
PROPERTIES SettledStays Told
CHECK_DEADLOCK FALSE
