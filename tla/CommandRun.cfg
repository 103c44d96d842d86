\* One command of each kind: up to two of six plugins, or every listing of up to two of
\* eighteen tools and of three of eleven; up to four IDs over two workers with a cap of
\* three; four pages of at most one item; an upload of up to two parts in two runs; two
\* downloads, of two parts and of one.
CONSTANTS
    nan = nan
    me = me
    other = other
    old = old
    nofile = nofile
    Given <- MCGiven
    Fallback <- MCFallback
    LowerKebab <- MCLowerKebab
    FlagName <- MCFlagName
    Listings <- MCListings
    Stocked <- MCStocked
    NotANumber = nan
    Concurrency = 2
    MaxIDs = 3
    Inputs <- MCInputs
    Commands <- MCCommands
    Replies <- MCReplies
    MaxPages = 4
    MaxEmpty = 2
    MaxInt = 6
    MaxItems = 1
    MaxToken = 2
    Totals = {0, 2}
    MaxSize = 3
    PartSize = 2
    MaxRuns = 2
    Downloads = {me, other}
    Me = me
    PartsOf <- MCPartsOf
    Old = old
    NoFile = nofile
SPECIFICATION FairCommandSpec
INVARIANTS
    InstalledWhole
    BatchIsTrue
    EachNumberOnce
    PagesInOrder
    MarksAreTrue
    RequestsBounded
    UploadIsWhole
    TreeHolds
    EveryToolAnswered
    ToldOnce
PROPERTIES
    DownloadIsWhole
    CommandEnds
\* A command that has ended stops.
CHECK_DEADLOCK FALSE
