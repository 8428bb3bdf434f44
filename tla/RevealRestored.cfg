CONSTANTS
    Threshold = 2
    MaxMoves = 1
    MaxFaults = 1
SPECIFICATION FairSpec
PROPERTIES
    EveryWaitHasABound
CHECK_DEADLOCK FALSE
