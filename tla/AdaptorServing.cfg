SPECIFICATION FairSpec
CONSTANTS
    ThePod = n1
    Names = {n1}
    UIDs = {u1}
    NameOf <- OneName
    None = None
    Workers = {w1}
    Sizes = {300}
    WorkloadCount = 1
    PVCRoots = {FALSE, TRUE}
    RawPods = {FALSE}
    PublishGuestIPOnPod = TRUE
    MaxVMIs = 3
    MaxFaults = 1
    MaxRestarts = 0
    MaxWrites = 1
    MaxFailures = 0
    MaxVMIDeletes = 1
    MaxFlips = 0
PROPERTIES
    LivePodsAreServed
    GuestIPConverges
CHECK_DEADLOCK FALSE
