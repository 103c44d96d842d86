\* Two failing commands, two shells, one uploader, crashes and timeouts anywhere.
CONSTANTS
    c1 = c1
    c2 = c2
    u1 = u1
    u2 = u2
    m1 = m1
    nobody = nobody
    Commands = {c1, c2}
    Users = {u1, u2}
    Uploaders = {m1}
    MaxGen = 2
    MayFail = TRUE
    NoOne = nobody
SPECIFICATION FairSpec
INVARIANTS
    DisabledIsSilent
PROPERTIES
    NoSilentLoss
    DisableIsAtomic
    DisableEnds
\* Every command may be over and every bound reached.
CHECK_DEADLOCK FALSE
