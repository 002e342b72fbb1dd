SPECIFICATION Spec
CONSTANTS
    QMax = 2
    BatchLen = 2
    BufMax = 1
    BufKeep = 1
    MaxUpsets = 1
    MaxTime = 6
INVARIANTS TypeOK OutageMeansSilence SilenceReported
PROPERTY ReportCatchesUp
