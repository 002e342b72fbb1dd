SPECIFICATION Spec
CONSTANTS
    r1 = r1
    m1 = m1
    None = None
    Cmds = {r1}
    Kind <- MCKind
    AckMax = 1
    MaxCrashes = 1
    MaxFaults = 0
INVARIANTS AckedWasExecuted
