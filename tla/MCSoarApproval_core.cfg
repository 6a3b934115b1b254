SPECIFICATION Spec
CONSTANTS
    ip1 = ip1
    worker = worker
    api1 = api1
    None = None
    IPs <- OneIp
    Threads <- WorkerAndApi
    Worker = worker
    Cap = 1
    Timeout = 1
    Retention = 1
    Liftable <- OneIp
    Requesters <- WorkerAndApi
    Playbooks <- OnlyWorker
    MaxId = 2
    MaxNow = 1
    MaxRestart = 1
    MaxFault = 2
CHECK_DEADLOCK FALSE
INVARIANTS
    DequeMatchesStore
    OutcomeIsTrue
PROPERTIES
    GuardedStaysOpen
    KeepsLedger
