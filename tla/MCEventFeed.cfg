SPECIFICATION Spec
CONSTANTS
    Devs = {n1, n2}
    FCnts = {}
    None = None
    MaxFrames = 3
    Slots = {s1, s2}
    PageSize = 2
    MaxOpens = 1
    MaxDeletes = 1
INVARIANTS TypeOK NothingMissing ClearedStaysOff
PROPERTY PageCatchesUp
