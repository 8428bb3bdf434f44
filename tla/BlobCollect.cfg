CONSTANTS
    Client = {c1, c2}
    Sweeper = {s1}
    Ext = {"mp4"}
    MaxBlobs = 2
SPECIFICATION FairSpec
INVARIANTS
    TypeOK
    RecheckIsRedundant
PROPERTIES
    UnreferencedIsCollected
    MarkIsWithdrawn
