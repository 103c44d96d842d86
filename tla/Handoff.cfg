\* Two commands, one retry each, changes of the config from elsewhere.
CONSTANTS
    a = a
    b = b
    Procs = {a, b}
    Commands <- MCCommands
    MaxRetries = 1
    MaxVersion = 2
    None = None
SPECIFICATION FairSpec
INVARIANTS
    LinkOnce
    StaleOnlyByRace
PROPERTY
    CommandsEnd
