SPECIFICATION Spec
CONSTANTS
    ip1 = ip1
    worker = worker
    api1 = api1
    None = None
    IPs <- OneIp
    Protected <- NoIps
    Threads <- TwoThreads
    Worker = worker
    BlockModes <- OnlyUfw
    TTLs <- AnyTTL
    Reasons <- Plain
    MaxNow = 2
    MaxFault = 0
    MaxRestart = 0
    MaxRules = 3
CHECK_DEADLOCK FALSE
INVARIANTS
    RecordIsEnforced
