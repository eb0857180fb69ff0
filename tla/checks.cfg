SPECIFICATION FairSpec
CONSTANTS
    Run = {r1}
    Req = {q1, q2}
    c1 = c1
    c2 = c2
    Contract = {c1, c2}
    Doc = {d1}
    Steps <- MCThenAI
    Worlds <- MCSome
    Ordered = TRUE
    Calm = TRUE
    Overlap = FALSE
    MaxTry = 1
    MaxReq = 3
  
PROPERTIES RunSettles
CHECK_DEADLOCK FALSE
