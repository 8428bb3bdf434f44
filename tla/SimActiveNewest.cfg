SPECIFICATION Spec
CONSTANTS
    Publisher = {p1, p2}
    Operator = {o1}
    Collector = {}
    Viewer = {}
    File = {f1}
    Class = {}
    MaxRevisions = 3
    MaxStamp = 4
SYMMETRY Symmetry
CHECK_DEADLOCK FALSE
INVARIANTS
    ActiveIsNewest
