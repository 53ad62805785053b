SPECIFICATION FairLineSpec
CONSTANTS
    CommandValues = {0, 1, 3}
    SpeedValues = {0, 5}
    FastPolling = FALSE
    StableFrames = 2
    RunCommand = 1
    SpeedCmd = 5
    ShutdownCommand = 3
    Colors = {1}
    Rejections = {}
    Faults = {"pi", "crash", "server", "quit"}
PROPERTIES
    EmptyBeltStops
    CubeMovesBelt
