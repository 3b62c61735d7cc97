SPECIFICATION Spec
CONSTANTS
    N = 2
    Codes = {0, 7}
    LocalVsock = FALSE
    MaxKills = 0
    MaxShimCrashes = 0
    MaxAgentCrashes = 1
    MaxVMDeaths = 1
    MaxTimeouts = 0
CONSTRAINT OneFault
INVARIANTS
    OneProcess
    ExitCodeIsOwn
    DeadGuestIsNotRunning
PROPERTIES
    ImplementsRuntime
CHECK_DEADLOCK FALSE
