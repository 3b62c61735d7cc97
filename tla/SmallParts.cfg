SPECIFICATION FairSpec
CONSTANTS
    Ctrs = {"app", "side"}
    CPUs = 1
    MaxCPU = 1
    Milli = 2
    Instants = 2
    StaleAfter = 2
    MaxStarts = 2
    MaxLosses = 1
    NoSnap = NoSnap
    Unread = Unread
    MaxParts = 3
    MaxAnswer = 2
    MaxDrops = 2
    Execs = {"e1"}
    CmdCodes = {0, 3}
    NoCode = NoCode
    Ports = {80, 443}
    GuestIPs = {"ip1", "ip2"}
    MaxIPChanges = 2
    MaxRewrites = 1
    MaxShimStops = 1
    MaxTaken = 1
    NoIP = NoIP
    NoFile = NoFile
    EmptyFile = EmptyFile
    CertConfigs <- ThreeHours
    MaxTime = 12
    SafeOutage = 1
    MaxOutage = 5
    MaxTroubles = 2
    NoCert = NoCert
INVARIANTS
    ExecRunsAsAsked
    OneForwarder
    ServedIsTrusted
PROPERTIES
    StatsFollowGuest
    LogFollowsGuest
    ExecEnds
    PortsFollowGuest
    TrustRecovers
CHECK_DEADLOCK FALSE
