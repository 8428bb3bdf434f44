CONSTANTS
    Dub = {d1, d2}
    Run = {r1, r2}
    Slot = {s1}
    MaxMedia = 2
    MaxEvents = 1
SPECIFICATION FairSpec
INVARIANTS
    TypeOK
    OneInvoice
    SlotsAreExclusive
PROPERTIES EveryDubEnds
CHECK_DEADLOCK FALSE
