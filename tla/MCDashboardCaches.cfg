SPECIFICATION Spec
CONSTANTS
    Threads = {t1, t2}
    Gateways = {g1, g2}
    None = None
    TTL = 2
    MaxCompute = 1
    MaxClears = 2
    MaxEdits = 1
SYMMETRY Symmetry
INVARIANTS TypeOK ServedIsRecent ClearedNotServed ReturnsAtMostOnce QuietRoundSettles
