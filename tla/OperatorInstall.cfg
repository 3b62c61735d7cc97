SPECIFICATION FairSpec
CONSTANTS
    Names = {"a", "b"}
    MaxCRs = 2
    MaxFaults = 1
    FailingGroups = {"hooks"}
    None = None
INVARIANTS
    NoMixing
    DeployedMayWork
PROPERTIES
    OnlyUnwantedFail
    Deploys
    AdmissionRecovers
CHECK_DEADLOCK FALSE
