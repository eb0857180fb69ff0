CONSTANTS
    N = 4
    Batch = 2
    RenderInflight = 1
    RenderAhead = 1
    OcrInflight = 1
    MaxRetry = 1
    Hold = {FALSE, TRUE}
    IsImage = FALSE
    Faulty = {"split", "split_permanent", "render", "ocr", "index", "tree"}
    Flaky = {1, 2}
    Crashable = {}
    Ops = {"cancel", "pages"}
    Timing = {"prompt_finish", "serial_pages"}
    MaxGen = 1
    MaxHk = 1
    MaxReq = 2
    MaxCrash = 0
    MaxStale = 0
    MaxStray = 0
SPECIFICATION FairSpec
INVARIANTS CountersExact Windows Load VerdictTrue
 
CHECK_DEADLOCK FALSE
