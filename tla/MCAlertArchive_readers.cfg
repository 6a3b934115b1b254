SPECIFICATION Spec
CONSTANTS
    r1 = r1
    w1 = w1
    w2 = w2
    unreviewed = unreviewed
    truePositive = truePositive
    None = None
    Writers <- TwoWriters
    Readers <- OneReader
    Verdicts <- Verdict2
    Unreviewed = unreviewed
    LiveDays = 0
    ArchiveDays = 2
    Moves <- BothMoves
    MaxId = 2
    MaxNow = 3
    MaxTrouble = 2
CHECK_DEADLOCK FALSE
INVARIANTS
    ReaderMissesNothing
    FreshIds
