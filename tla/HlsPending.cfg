CONSTANTS
    Run = {r1, r2}
    Viewer = {}
    MaxMedia = 1
    Mishap = {"send"}
SPECIFICATION FairSpec
PROPERTIES
    PendingIsDriven
CHECK_DEADLOCK FALSE
