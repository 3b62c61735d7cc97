SPECIFICATION Spec
CONSTANTS
    ThePod = n1
    Names = {n1}
    UIDs = {u1, u2}
    NameOf <- OneName
    None = None
    Workers = {w1, w2}
    Sizes = {300}
    WorkloadCount = 1
    PVCRoots = {FALSE}
    RawPods = {FALSE}
    PublishGuestIPOnPod = FALSE
    MaxVMIs = 2
    MaxFaults = 0
    MaxRestarts = 0
    MaxWrites = 1
    MaxFailures = 1
    MaxVMIDeletes = 0
    MaxFlips = 0
INVARIANTS
    TypeOK
    RecreateHitsJudgedVMI
PROPERTIES
    NoVMIAfterRelease
SYMMETRY Symmetric
CHECK_DEADLOCK FALSE
