SPECIFICATION FairSpec
CONSTANTS
    Sheet = {s1, s2}
    FileOf <- MCFileOf
    Key = {k}
    Value = {v}
    Conns = 3
    Calm = TRUE
    MaxTry = 1
    MaxReq = 2
    MaxCrash = 1
INVARIANTS FieldsSound CellsSound
PROPERTIES DoneStays SheetSettles
CHECK_DEADLOCK FALSE
