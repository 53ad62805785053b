SPECIFICATION VisionNodeSpec
CONSTANTS
    CommandValues = {0, 1, 4}
    SpeedValues = {0, 5}
    StableFrames = 3
    RunCommand = 1
    SpeedCmd = 5
    ShutdownCommand = 4
    Colors = {1, 2}
    Rejections = {"read", "vision"}
    Viewers = {v, w}
    NoViewer = NoViewer
    MaxFrames = 2
INVARIANT RegistersTellRecord
PROPERTIES
    MotionNeedsRecentCube
    OnlyNonReadersHoldUp
CHECK_DEADLOCK FALSE
