SPECIFICATION Spec
CONSTANTS
    N = 2
    Files = 2
    Label = {"contract"}
    Opens = {"contract"}
    Layout <- MCLayout
    Review <- MCReview
    Calm = TRUE
    MaxTry = 1
    MaxGen = 2
    MaxReq = 1
    MaxCrash = 1
INVARIANTS SplitSound ShownTrue
PROPERTIES ReviewStands
CHECK_DEADLOCK FALSE
