SPECIFICATION Spec
CONSTANTS
    scan = scan
    net1 = net1
    None = None
    Types <- OneType
    Nets <- OneNet
    Legacies <- WithLegacy
    Debounces <- Both
    ResolveDays = 1
    KeepDays = 1
    MaxId = 2
    MaxRev = 3
    MaxNow = 2
    MaxFault = 1
    MaxRestart = 1
CHECK_DEADLOCK FALSE
INVARIANTS
    CleanIsStored
    UnsavedIsScheduled
    UpdateIsKept
PROPERTIES
    NewIdIsFree
