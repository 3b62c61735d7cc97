SPECIFICATION FairSpec
CONSTANTS
    NCalls = 2
    NPieces = 2
    Marks = {2}
    ShAt = 2
    Shell = {1, 2}
    CanPull = TRUE
    Overlap = TRUE
    MaxDiskFaults = 1
    MaxHostFaults = 1
    MaxTimeouts = 0
INVARIANTS
    RunningIsStarted
PROPERTIES
    RetriesRun
