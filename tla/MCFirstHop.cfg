SPECIFICATION Spec
CONSTANTS
    QMax = 1
    SeqSpace = 3
    Window = 1
    Delay = 1
    CheckEvery = 2
    Ring = 2
    None = None
    MaxProbes = 5
    MaxSamples = 3
    MaxBoots = 2
    MaxChanges = 1
    MaxRestarts = 1
CONSTRAINT NotBothLong
INVARIANTS TypeOK EachProbeOnce DishHistoryTrue
CHECK_DEADLOCK FALSE
