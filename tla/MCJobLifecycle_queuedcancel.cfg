SPECIFICATION Spec
CONSTANTS
    q1 = q1
    q2 = q2
    q3 = q3
    NoRec = NoRec
    Requests = {q1}
    Ops = {"cancel"}
    Batches = 1
    TextMay = {TRUE, FALSE}
    Keep = {"job"}
    MaxCrashes = 0
    Recovery = {TRUE}
INVARIANTS
    QueuedCancelStops
CHECK_DEADLOCK FALSE
