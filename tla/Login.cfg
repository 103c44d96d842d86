\* Two commands, at a time or one after the other, after a login or none, with
\* the keychain locked and unlocked once.
CONSTANTS
    p1 = p1
    p2 = p2
    Procs = {p1, p2}
    Commands <- MCCommands
    MaxToken = 3
    MaxKeys = 2
    MaxOutages = 1
    Interval = 1
    ExpiresIn = 2
SPECIFICATION FairSpec
INVARIANTS
    LoadIsExplained
    CatalogFollowsLogin
PROPERTIES
    EveryLoginEnds
