\* Two tasks on two files, one PDFium instance, batches of up to two pages,
\* recycling after two pages, one child process that dies.
SPECIFICATION FairSpec
CONSTANTS
    Task = {t1, t2}
    Key = {k1, k2}
    Workers = 1
    Recycle = 2
    Inst = {i1, i2}
    MaxPages = 2
    MaxCrash = 1
INVARIANTS FilesSafe PoolSafe
PROPERTIES TasksReturn
