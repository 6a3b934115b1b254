SPECIFICATION Spec
CONSTANTS
    r1 = r1
    w1 = w1
    w2 = w2
    unreviewed = unreviewed
    truePositive = truePositive
    None = None
    Writers <- TwoWriters
    Readers <- NoReader
    Verdicts <- Verdict2
    Unreviewed = unreviewed
    LiveDays = 0
    ArchiveDays = 1
    Moves <- CutoverOnly
    MaxId = 3
    MaxNow = 3
    MaxTrouble = 1
CHECK_DEADLOCK FALSE
INVARIANTS
    VerdictKept
PROPERTIES
    KeepsRecord
