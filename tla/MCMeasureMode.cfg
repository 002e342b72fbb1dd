SPECIFICATION FairSpec
CONSTANTS
    ModeqMax = 2
    MaxSwitches = 3
    MaxDelayed = 1
    MaxFaults = 1
INVARIANTS TypeOK OffMeansQuiet OnMeansCollecting EveryPauseLogged
PROPERTIES LogCatchesUp
