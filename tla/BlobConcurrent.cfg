CONSTANTS
    Client = {c1}
    Sweeper = {s1}
    Ext = {"mp4"}
    MaxBlobs = 2
SPECIFICATION Spec
INVARIANTS
    MediaHaveBytes
