CONSTANTS
    Export = {e1}
    Run = {r1, r2}
    Windows = 2
    MaxTries = 3
    MaxFaults = 2
SPECIFICATION FairSpec
INVARIANTS
    TypeOK
    OneEncode
    ReadyIsTrue
    CancelIsKept
PROPERTIES
    ExportEnds
CHECK_DEADLOCK FALSE
