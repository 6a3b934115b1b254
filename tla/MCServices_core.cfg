SPECIFICATION Spec
CONSTANTS
    u1 = u1
    u2 = u2
    t1 = t1
    t2 = t2
    s1 = s1
    p1 = p1
    p2 = p2
    broken = broken
    None = None
    Parts = {"identity", "throttle", "syslog", "lookups", "tails", "vuln", "fuzz", "patch", "edr", "net", "yara", "sigma", "features", "sweep", "counts", "retrain"}
    Names <- TwoNames
    Threads <- TwoThreads
    Sids <- OneSocket
    RolesGiven <- TwoRoles
    SessionCap = 2
    SessionLife = 2
    MaxRequests = 4
    IdentityEnd = 1
    Doors <- TwoThreads
    Peers <- TwoPeers
    MaxAttempts = 2
    FailSpan = 2
    Lockout = 2
    FailCap = 2
    LegacyCap = 1
    LegacyLife = 1
    MaxLogins = 4
    ThrottleEnd = 3
    Links <- TwoThreads
    LogHosts <- OneSocket
    Origins <- TwoPeers
    Foreign <- WebPeer
    Pieces <- TwoPieces
    Chunks <- CutAnywhere
    MaxConns = 1
    EventCap = 2
    MaxReceived = 2
    Askers <- TwoThreads
    Subjects <- TwoSubjects
    Own <- OnePeer
    Services <- BothServices
    KeyGiven = TRUE
    DemoAllowed = FALSE
    CacheLife = 1
    Iocs <- WebPeer
    MaxAsks = 3
    LookupEnd = 2
    Readers <- SixReaders
    Entry <- ThreeLines
    BruteMinimum = 1
    BruteSpan = 2
    BruteCooldown = 2
    MaxRotations = 2
    MaxCrashes = 1
    MaxSlips = 1
    TailEnd = 2
    Hosts <- TwoHosts
    PortsSeen <- SomePorts
    Updates <- OpensshOrNot
    Scanners <- TwoThreads
    FuzzTargets <- ThreeTargets
    WriteAllowed = FALSE
    MaxSent = 2
    FindingCap = 2
    Commands <- SomeCommands
    JobCap = 2
    MaxScans = 2
    MaxFuzzRuns = 3
    MaxJobs = 2
    Pids <- ThreeNumbers
    OwnPid = 1
    ProcessKinds <- FourKinds
    MaxProcesses = 3
    NetPorts <- TwoPorts
    UsualPorts <- UsualPort
    BadPeers <- TwoPeers
    DrillPeer = p1
    MaxPasses = 4
    FilePaths <- OneSocket
    Scans <- TwoThreads
    SeenCap = 2
    MaxWrites = 2
    SensorEnd = 1
    SigmaFiles = 2
    SigmaDocs <- SixDocs
    Broken = broken
    Bundled <- TwoBundled
    Compares <- SameForAll
    ProcessEvents <- TwoEvents
    Feeders <- TwoThreads
    Reloaders <- OneSocket
    SigmaSeenCap = 1
    MaxFeeds = 2
    MaxEdits = 1
    FlushEvery = 2
    FlushInterval = 2
    FeatureDays = 1
    FeatureEnd = 3
    MaxRows = 4
    MaxFlushFaults = 2
    Configured <- AllTurns
    Floor <- FloorOfOne
    LargeDelete = 0
    SweepEnd = 4
    MaxItems = 1
    MaxSweeps = 2
    Viewers <- ThreeViewers
    AggLives <- LivesAsked
    AggWait = 1
    MaxAggAsks = 3
    MaxAggFaults = 1
    AggEnd = 2
    MinReal = 1
    TooFew = 1
    RetrainEvery = 1
    AutoRetrain = TRUE
    MaxLive = 1
    MaxTrainings = 2
    MaxCuts = 2
    Analysts = {"loop"}
    MaxForeign = 2
    RetrainEnd = 1
CHECK_DEADLOCK FALSE
INVARIANTS
    TrailHasAuthority
    RevokedIsUnplugged
    GuessesAreBounded
    LinesSurviveChunks
    CachesAreTrue
    ReadersAreExact
    EnginesTellTruth
    PassedOverWasHandled
    SwallowedWasTold
    RowsAreOnce
    DestroyedWasDue
    AnswersAreCurrent
    ModelIsOne
