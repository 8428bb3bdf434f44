CONSTANTS
    Threshold = 2
    MaxMoves = 3
    MaxFaults = 1
SPECIFICATION FairSpec
INVARIANTS
    TypeOK
    ShownIsDrawn
    SuspendedIsOwed
PROPERTIES
    EvictionSettles
    EveryWaitEnds
CHECK_DEADLOCK FALSE
