SPECIFICATION FairSpec
CONSTANTS
    QMax = 2
    BatchLen = 2
    BufMax = 2
    BufKeep = 1
    MaxRun = 3
    MaxSeq = 2
    MaxResets = 2
    MaxCrashes = 1
    MaxLate = 1
INVARIANTS TypeOK RowsInOrder AnsweredResetStartsNewRun LaterRowsKept
PROPERTIES ResetAnswered
