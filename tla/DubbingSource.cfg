CONSTANTS
    Dub = {d1}
    Run = {r1, r2}
    Slot = {s1, s2}
    MaxMedia = 2
    MaxEvents = 2
SPECIFICATION Spec
INVARIANTS
    DubIsOfItsSource
CHECK_DEADLOCK FALSE
