CONSTANTS
    Client = {c1, c2, c3}
    Sweeper = {}
    Ext = {"mp4", "m4v"}
    MaxBlobs = 2
SYMMETRY ClientSymmetry
SPECIFICATION Spec
INVARIANTS
    ReferencesHaveBytes
    ReferencesAgreeWithTheRow
