SPECIFICATION Spec
CONSTANTS
    Publisher = {p1}
    Operator = {o1}
    Collector = {g1}
    Viewer = {}
    File = {f1}
    Class = {}
    MaxRevisions = 3
    MaxStamp = 3
SYMMETRY Symmetry
CHECK_DEADLOCK FALSE
INVARIANTS
    PointerNamesTheActiveRow
    EligibleRevisionsAreWhole
PROPERTIES
    PublishedBytesAreFrozen
    RollbackStaysPossible
