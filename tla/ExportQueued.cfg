CONSTANTS
    Export = {e1}
    Run = {r1}
    Windows = 1
    MaxTries = 1
    MaxFaults = 0
SPECIFICATION Spec
INVARIANTS
    AbandonedHadStarted
CHECK_DEADLOCK FALSE
