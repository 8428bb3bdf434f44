SPECIFICATION Spec
CONSTANTS
    Publisher = {p1, p2}
    Operator = {o1}
    Collector = {}
    Viewer = {v1}
    File = {f1}
    Class = {c1, c2}
    MaxRevisions = 2
    MaxStamp = 3
SYMMETRY Symmetry
CHECK_DEADLOCK FALSE
INVARIANTS
    TypeOK
    ShownVerdictIsOfServedBytes
PROPERTIES
    NoPublicationIsLost
    ImplementsRegister
