SPECIFICATION AccountsSpec
CONSTANTS
    l1 = l1
    l2 = l2
    a1 = a1
    a2 = a2
    r1 = r1
    s1 = s1
    NoUser = NoUser
    Logins = {l1, l2}
    Admins = {a1, a2}
    Refreshes = {r1}
    Startups = {s1}
    Roles = {"user", "admin", "viewer"}
SYMMETRY RequestSymmetry
INVARIANTS
    TypeOK
    QuietDecisionStands
    ForgottenNeverReturns
    RetriedForgetIsFinal
CHECK_DEADLOCK FALSE
