SPECIFICATION FairSpec
CONSTANTS
    ip1 = ip1
    worker = worker
    api1 = api1
    None = None
    IPs <- OneIp
    Threads <- WorkerAndApi
    Worker = worker
    Cap = 2
    Timeout = 1
    Retention = 1
    Liftable <- NoIps
    Requesters <- OnlyApi
    Playbooks <- OnlyWorker
    MaxId = 2
    MaxNow = 2
    MaxRestart = 0
    MaxFault = 0
CHECK_DEADLOCK FALSE
PROPERTIES
    OverdueIsDecided
