\* The same command, against the documentation of a server error's exit code.
CONSTANTS
    nan = nan
    me = me
    other = other
    old = old
    nofile = nofile
    Given <- MCGiven
    Fallback <- MCFallback
    LowerKebab <- MCLowerKebab
    FlagName <- MCFlagName
    Listings <- MCListings
    Stocked <- MCStocked
    NotANumber = nan
    Concurrency = 2
    MaxIDs = 3
    Inputs <- MCInputs
    Commands <- MCCommands
    Replies <- MCReplies
    MaxPages = 4
    MaxEmpty = 2
    MaxInt = 6
    MaxItems = 1
    MaxToken = 2
    Totals = {0, 2}
    MaxSize = 3
    PartSize = 2
    MaxRuns = 2
    Downloads = {me, other}
    Me = me
    PartsOf <- MCPartsOf
    Old = old
    NoFile = nofile
SPECIFICATION CommandSpec
INVARIANT ServerErrorsExitTwo
CHECK_DEADLOCK FALSE
