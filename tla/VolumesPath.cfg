SPECIFICATION FairSpec
CONSTANTS
    None = None
    Alnum <- Letters
    SerialLen = 4
    MaxAnnotation = 8
    MinGuestMem = 512
    TeeSlop = 256
    Defaults <- CodeDefaults
    ConfigSandbox <- OwnClasses
    Templates <- AllTemplates
    Ctrs = {"i", "a", "b"}
    Vols <- Volumes
    Claims = {"k1", "k2", "k3"}
    Formatted = {"k2"}
    ChrootPaths = {"/tmp", "/dev/x", "/dev/l"}
    DevPaths = {"/dev/x", "/dev/l"}
    MaxCreates = 2
    MaxFaults = 1
INVARIANTS
    AdmissionIsStable
    RestoreIsWhole
    RunsWithItsVolumes
    VolumesAreShared
    VMIHoldsPod
PROPERTIES
    DataIsKept
    ContainersRun
CHECK_DEADLOCK FALSE
