\* Two wrappers; the hooks of the plugin vault are fail-closed.
CONSTANTS
    N = 2
    StartHooks <- MCStartHooks
    StopHooks <- MCStopHooks
    Closed = {"vault.start", "vault.stop"}
SPECIFICATION FairSpec
INVARIANTS
    OneRealRun
    QuietAfterReturn
    NoFalseReport
    HandlerIsGated
    CleanupIsTried
PROPERTIES
    ExitsDespiteHangs
CHECK_DEADLOCK FALSE
