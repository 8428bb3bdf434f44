SPECIFICATION Spec
CONSTANTS
    Publisher = {p1}
    Operator = {o1}
    Collector = {g1}
    Viewer = {}
    File = {f1}
    Class = {}
    MaxRevisions = 2
    MaxStamp = 2
SYMMETRY Symmetry
CHECK_DEADLOCK FALSE
INVARIANTS
    EligibleRevisionsHaveAManifest
