CONSTANTS
    N = 2
    Batch = 2
    RenderInflight = 1
    RenderAhead = 2
    OcrInflight = 2
    MaxRetry = 1
    Hold = {FALSE}
    IsImage = FALSE
    Faulty = {"render", "ocr", "engine"}
    Flaky = {2}
    Crashable = {"upload", "render", "ocr", "assemble", "index"}
    Ops = {}
    Timing = {"prompt_finish"}
    MaxGen = 1
    MaxHk = 1
    MaxReq = 0
    MaxCrash = 2
    MaxStale = 0
    MaxStray = 1
SPECIFICATION FairSpec
INVARIANTS CrashSafe
PROPERTIES NeverReread Settles
CHECK_DEADLOCK FALSE
