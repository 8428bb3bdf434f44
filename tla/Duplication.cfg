CONSTANTS
    Job = {j1, j2}
    Run = {r1, r2}
    Tree = {t1, t2}
    FirstTree = t1
    MaxFaults = 1
SPECIFICATION FairSpec
INVARIANTS
    TypeOK
    CopiesOfAKeptVideoAreWhole
PROPERTIES
    KeepsThePromise
    EveryRequestIsAnswered
CHECK_DEADLOCK FALSE
