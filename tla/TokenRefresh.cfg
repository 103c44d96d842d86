\* Two commands that share a profile with a shell that logs in and out; lock
\* waits, exchanges and saves fail, and a command may die with the lock.
CONSTANTS
    p1 = p1
    p2 = p2
    u1 = u1
    nobody = nobody
    Procs = {p1, p2}
    Users = {u1}
    MaxTokens = 3
    MayFail = TRUE
    MayCrash = TRUE
    NoOne = nobody
SPECIFICATION FairSpec
INVARIANTS
    RefreshExclusive
    NoSpentRefresh
PROPERTIES
    TokenNeverGoesBack
    EveryCommandEnds
CHECK_DEADLOCK FALSE
