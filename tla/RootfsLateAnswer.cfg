SPECIFICATION Spec
CONSTANTS
    NCalls = 1
    NPieces = 2
    Marks = {1, 2}
    ShAt = 2
    Shell = {2}
    CanPull = TRUE
    Overlap = FALSE
    MaxDiskFaults = 0
    MaxHostFaults = 0
    MaxTimeouts = 1
INVARIANTS
    RunningIsStarted
CHECK_DEADLOCK FALSE
