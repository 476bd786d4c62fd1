SPECIFICATION Spec
CONSTANTS
    q1 = q1
    q2 = q2
    q3 = q3
    NoRec = NoRec
    Requests = {q1, q2}
    Ops = {"cancel", "download"}
    Batches = 2
    TextMay = {TRUE}
    Keep = {"no"}
    MaxCrashes = 1
    Recovery = {TRUE}
INVARIANTS
    NoGhostResult
PROPERTIES
    EveryJobEnds
    EndedJobsVanish
CHECK_DEADLOCK FALSE
