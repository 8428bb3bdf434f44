CONSTANTS
    Run = {r1, r2}
    Viewer = {}
    MaxMedia = 1
    Mishap = {"beat"}
SPECIFICATION FairSpec
PROPERTIES
    AbandonedRowsAreReaped
CHECK_DEADLOCK FALSE
