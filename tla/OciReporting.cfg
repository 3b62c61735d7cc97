SPECIFICATION FairSpec
CONSTANTS
    N = 1
    Codes = {7}
    LocalVsock = TRUE
    MaxKills = 1
    MaxShimCrashes = 1
    MaxAgentCrashes = 1
    MaxVMDeaths = 1
    MaxTimeouts = 1
PROPERTIES
    ExitIsReported
    StartResolves
CHECK_DEADLOCK FALSE
