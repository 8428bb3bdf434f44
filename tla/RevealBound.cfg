CONSTANTS
    Threshold = 2
    MaxMoves = 3
    MaxFaults = 0
SPECIFICATION FairSpec
PROPERTIES
    EveryWaitHasABound
CHECK_DEADLOCK FALSE
