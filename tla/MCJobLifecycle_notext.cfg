SPECIFICATION Spec
CONSTANTS
    q1 = q1
    q2 = q2
    q3 = q3
    NoRec = NoRec
    Requests = {q1}
    Ops = {"download"}
    Batches = 1
    TextMay = {TRUE, FALSE}
    Keep = {"no"}
    MaxCrashes = 0
    Recovery = {TRUE}
PROPERTIES
    EveryJobEnds
CHECK_DEADLOCK FALSE
