\* One command dies with the lock; two others recover it at the same time.
CONSTANTS
    p1 = p1
    p2 = p2
    p3 = p3
    nobody = nobody
    Procs = {p1, p2, p3}
    Users = {}
    MaxTokens = 2
    MayFail = FALSE
    MayCrash = TRUE
    NoOne = nobody
SPECIFICATION Spec
SYMMETRY Symmetric
INVARIANTS
    RefreshExclusive
CHECK_DEADLOCK FALSE
