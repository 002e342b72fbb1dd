SPECIFICATION Spec
CONSTANTS
    Devs = {n1, n2}
    FCnts = {0, 2}
    None = None
    MaxFrames = 2
    MaxUplinks = 2
    Workers = {w1, w2}
    NoOne = NoOne
    MaxEvents = 1
    MapMax = 1
    MaxCalls = 2
    MaxRestarts = 1
SYMMETRY Symmetry
CHECK_DEADLOCK FALSE
INVARIANTS MapBounded
