SPECIFICATION Spec
CONSTANTS
    a1 = a1
    a2 = a2
    a3 = a3
    a4 = a4
    ip1 = ip1
    ip2 = ip2
    lan = lan
    t1 = t1
    t2 = t2
    test = test
    block = block
    None = None
    Alerts <- AllAlerts
    AlertOf <- Said4
    Hosts <- AllHosts
    External <- Web
    Guarded <- Kept
    Settings <- FourSettings
    Switched <- OneSwitch
    AiVerdicts <- StandInVerdicts
    QueueCap = 1
    Budget = 1
    BudgetSpan = 1
    MinConfidence = 2
    RuleMin = 2
    ProbeLimit = 2
    MaxHanded = 2
    MaxMeddling = 1
    TriageEnd = 1
    Callers <- TwoThreads
    BreakerThreshold = 2
    BreakerCooldown = 2
    TaskCap = 1
    Available = TRUE
    MaxAsked = 4
    BreakerEnd = 4
    Senders <- TwoThreads
    PushKeys <- TwoKeys
    TestKey = test
    PushCooldown = 2
    MinLevel = 1
    HistoryCap = 1
    MaxPushes = 3
    PushEnd = 3
CHECK_DEADLOCK FALSE
INVARIANTS
    ClosedOnJudgement
