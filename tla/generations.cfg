CONSTANTS
    N = 2
    Batch = 1
    RenderInflight = 1
    RenderAhead = 1
    OcrInflight = 1
    MaxRetry = 0
    Hold = {FALSE}
    IsImage = FALSE
    Faulty = {"ocr", "index"}
    Flaky = {1}
    Crashable = {"api", "delete"}
    Ops = {"reparse", "cancel", "delete"}
    Timing = {"prompt_finish", "prompt_split", "serial_stop"}
    MaxGen = 2
    MaxHk = 1
    MaxReq = 2
    MaxCrash = 2
    MaxStale = 0
    MaxStray = 0
SPECIFICATION FairSpec
INVARIANTS RowsBelong ImagesKept
PROPERTIES FollowsLifecycle Ends
CHECK_DEADLOCK FALSE
