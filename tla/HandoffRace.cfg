\* Two commands that do not retry, against the comment that a snapshot is served
\* only to the configuration that it was started for.
CONSTANTS
    a = a
    b = b
    Procs = {a, b}
    Commands <- MCCommands
    MaxRetries = 0
    MaxVersion = 1
    None = None
SPECIFICATION Spec
INVARIANT ServedIsCurrent
