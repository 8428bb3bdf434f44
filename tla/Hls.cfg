CONSTANTS
    Run = {r1, r2, r3}
    Viewer = {v1}
    MaxMedia = 2
    Mishap = {"answer", "send", "delivery", "overlap", "stall", "beat"}
SPECIFICATION FairSpec
INVARIANTS
    TypeOK
    PlayedTreesAreStored
    ReadyIsCurrent
PROPERTIES
    EveryRequestIsDecided
CHECK_DEADLOCK FALSE
