\* Two processes, any two commands, over no, one or two profiles.
CONSTANTS
    p1 = p1
    p2 = p2
    Procs = {p1, p2}
    a = a
    b = b
    default = default
    Names = {a, b, default}
    Default = default
    v = v
    digits = digits
    Values = {v, digits}
    NonText = {digits}
    Unset = unset
    Commands <- MCCommands
    Files <- MCFiles
SPECIFICATION Spec
INVARIANTS
    LostOnlyByOverlap
    DanglesOnlyByRace
