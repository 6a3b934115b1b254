SPECIFICATION Spec
CONSTANTS
    r1 = r1
    r2 = r2
    logins = logins
    beacon = beacon
    ip1 = ip1
    ip2 = ip2
    portscan = portscan
    brute = brute
    leak = leak
    web = web
    lan = lan
    None = None
    Reporters <- TwoReporters
    Prints <- TwoPrints
    Ruled <- OneRule
    Exempt <- NoPrints
    Window = 2
    StormSpan = 1
    SummaryEvery = 1
    Threshold = 1
    Cap = 2
    MaxEvents = 3
    PipelineEnd = 2
    MaxTrouble = 1
    Feeders <- TwoReporters
    Addresses <- TwoAddresses
    Inside <- TwoAddresses
    ThreatTypes <- ThreeTypes
    Recon <- ScanType
    Intrusion <- BruteType
    Exfil <- LeakType
    Staging <- ScanType
    Tunnels <- NoType
    Brute = brute
    CorrWindow = 2
    Cooldown = 1
    MultiVectorMin = 2
    BruteMin = 2
    DistributedMin = 2
    MaxFeeds = 2
    SiemEnd = 2
    Outside <- WebSource
    Internal <- LanHost
    Ports <- TwoPorts
    Sizes <- TwoSizes
    FloodMin = 1
    ScanMin = 2
    ExfilMax = 3
    FloodSpan = 1
    ScanSpan = 2
    ExfilSpan = 4
    FloodHorizon = 1
    ScanHorizon = 2
    ExfilHorizon = 2
    MaxPackets = 4
    WindowsEnd = 4
SYMMETRY Swapped
CHECK_DEADLOCK FALSE
INVARIANTS
    NothingVanishes
    MergedIntoSame
    StormIsAnnounced
    HitIsKnown
    NothingYoungIsPruned
