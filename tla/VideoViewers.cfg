SPECIFICATION ViewersFairSpec
CONSTANTS
    Uploads = {u, v}
    NoFile = NoFile
    Length = 2
    MaxSecond = 1
INVARIANTS
    AckedIsStored
    LatestIsWhole
    WatchedIsWhole
PROPERTY NobodyWaits
CHECK_DEADLOCK FALSE
