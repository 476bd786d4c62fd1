SPECIFICATION Spec
CONSTANTS
    q1 = q1
    q2 = q2
    q3 = q3
    NoRec = NoRec
    Requests = {q1, q2}
    Ops = {"cancel", "download", "purge"}
    Batches = 2
    TextMay = {TRUE, FALSE}
    Keep = {"no", "job", "global"}
    MaxCrashes = 1
    Recovery = {TRUE, FALSE}
SYMMETRY RequestSymmetry
INVARIANTS
    TypeOK
    FailedRunReclaims
    UploadKept
    CleanCancelHonoured
PROPERTIES
    StatusMovesForward
CHECK_DEADLOCK FALSE
