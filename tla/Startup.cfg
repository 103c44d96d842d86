\* Two starts, of which an account may let either run as another profile.
CONSTANTS
    p1 = p1
    p2 = p2
    Procs = {p1, p2}
    Profiles = {"a", "b"}
    First = "a"
    Selectable = {"b"}
    Commands <- MCCommands
    MaxToken = 2
    MaxEvents = 1
SPECIFICATION Spec
INVARIANTS
    ForeignToolsOnlyByInspect
    RunsAsSelected
    LoginLostOnlyByOverlap
