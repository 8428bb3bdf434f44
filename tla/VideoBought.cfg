CONSTANTS
    Run = {r1}
    MaxTries = 2
    MaxFaults = 1
SPECIFICATION Spec
INVARIANTS
    BoughtOnce
CHECK_DEADLOCK FALSE
