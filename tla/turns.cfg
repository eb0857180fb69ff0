CONSTANTS
    Message = {m1, m2, s}
    Stops = {s}
    Leavers = {m1, s}
    Patient = TRUE
    MaxCalls = 2
    Window = 500
    Faulty = {"persist", "setup", "model", "store"}
SPECIFICATION FairSpec
 
PROPERTIES TranscriptGrows Served
CHECK_DEADLOCK FALSE
