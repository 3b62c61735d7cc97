SPECIFICATION FairSpec
CONSTANTS
    NCalls = 3
    NPieces = 3
    Marks = {2, 3}
    ShAt = 3
    Shell = {1, 3}
    CanPull = TRUE
    Overlap = FALSE
    MaxDiskFaults = 1
    MaxHostFaults = 1
    MaxTimeouts = 2
INVARIANTS
    RestartLeavesTree
PROPERTIES
    CopyOkMeansWhole
    RetriesRun
