SPECIFICATION LineSpec
CONSTANTS
    CommandValues = {0, 1}
    SpeedValues = {0, 5}
    FastPolling = FALSE
    StableFrames = 1
    RunCommand = 1
    SpeedCmd = 5
    ShutdownCommand = 0
    Colors = {1}
    Rejections = {"command"}
    Faults = {"emergency", "server", "vision"}
INVARIANTS
    BeltAsConfigured
    AtMostOneLateCommand
