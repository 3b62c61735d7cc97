SPECIFICATION FairSpec
CONSTANTS
    ThePod = n1
    Names = {n1}
    UIDs = {u1}
    NameOf <- OneName
    None = None
    Workers = {w1}
    Sizes = {300}
    WorkloadCount = 1
    PVCRoots = {FALSE}
    RawPods = {FALSE}
    PublishGuestIPOnPod = FALSE
    MaxVMIs = 2
    MaxFaults = 1
    MaxRestarts = 1
    MaxWrites = 1
    MaxFailures = 0
    MaxVMIDeletes = 0
    MaxFlips = 1
PROPERTIES
    DeletingPodGoes
    VMIGoesWithPod
CHECK_DEADLOCK FALSE
