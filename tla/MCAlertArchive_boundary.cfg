SPECIFICATION Spec
CONSTANTS
    r1 = r1
    w1 = w1
    w2 = w2
    unreviewed = unreviewed
    truePositive = truePositive
    None = None
    Writers <- OneWriter
    Readers <- NoReader
    Verdicts <- Verdict2
    Unreviewed = unreviewed
    LiveDays = 0
    ArchiveDays = 2
    Moves <- RetentionOnly
    MaxId = 2
    MaxNow = 2
    MaxTrouble = 0
CHECK_DEADLOCK FALSE
PROPERTIES
    KeepsRecord
