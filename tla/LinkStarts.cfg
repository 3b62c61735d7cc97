SPECIFICATION FairSpec
CONSTANTS
    NPods = 2
    MaxVMs = 3
    MaxFaults = 1
    CopiedManifests = FALSE
    None = None
PROPERTIES
    OwnVMOnly
    StartsGetThrough
CHECK_DEADLOCK FALSE
