CONSTANTS
    Run = {r1, r2, r3}
    MaxTries = 2
    MaxFaults = 3
SPECIFICATION FairSpec
INVARIANTS
    TypeOK
    OneSection
    RedriveNeverBuysAgain
PROPERTIES
    JobEnds
CHECK_DEADLOCK FALSE
