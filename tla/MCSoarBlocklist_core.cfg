SPECIFICATION FairSpec
CONSTANTS
    ip1 = ip1
    worker = worker
    api1 = api1
    None = None
    IPs <- OneIp
    Protected <- NoIps
    Threads <- TwoThreads
    Worker = worker
    BlockModes <- SimulateOrIptables
    TTLs <- AnyTTL
    Reasons <- Texts
    MaxNow = 2
    MaxFault = 1
    MaxRestart = 1
    MaxRules = 3
CHECK_DEADLOCK FALSE
INVARIANTS
    RecordIsEnforced
    FileHoldsBlocks
PROPERTIES
    ExpiredBlockLeaves
