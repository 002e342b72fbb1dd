SPECIFICATION FairSpec
CONSTANTS
    r1 = r1
    m1 = m1
    None = None
    Cmds = {r1, m1}
    Kind <- MCKind
    AckMax = 1
    MaxCrashes = 1
    MaxFaults = 1
INVARIANTS TypeOK OncePerFault AckedIsDurable ResetNotLost
PROPERTIES TakenInOrder AbstractSpec Acknowledged
