SPECIFICATION FairSpec
CONSTANTS
    ControlBacklog = 1
    PiBacklog = 2
PROPERTIES
    TravelsAtSafeHeight
    PlacedAfterThreePictures
    RunEnds
    DaemonReturns
    FailuresEnd
