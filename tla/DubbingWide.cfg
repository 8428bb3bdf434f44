CONSTANTS
    Dub = {d1, d2}
    Run = {r1, r2}
    Slot = {s1}
    MaxMedia = 1
    MaxEvents = 2
SPECIFICATION Spec
INVARIANTS
    TypeOK
    OneInvoice
    SlotsAreExclusive
CHECK_DEADLOCK FALSE
