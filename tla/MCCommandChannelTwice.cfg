SPECIFICATION Spec
CONSTANTS
    r1 = r1
    m1 = m1
    None = None
    Cmds = {r1, m1}
    Kind <- MCKind
    AckMax = 1
    MaxCrashes = 1
    MaxFaults = 2
INVARIANTS OneFaultHarmless
