SPECIFICATION FairSpec
CONSTANTS
    Sample = {s1}
    Orderly = TRUE
    MaxVersion = 3
    MaxEdition = 3
    MaxTry = 1
    MaxReq = 4
    MaxJob = 1
    MaxCrash = 1
INVARIANTS  RunTrue
PROPERTIES Settles
CHECK_DEADLOCK FALSE
