SPECIFICATION Spec
CONSTANTS
    Side = 2
    Spots <- BenchSpots
    NoSpot = NoSpot
    MaxSessions = 2
    Pixels <- BenchPixels
    Corners = 4
    Sizes = {small, large}
    NoFrame = NoFrame
    MaxCycles = 2
    Threads = {a, b}
    MaxPictures = 2
    Needed = 3
    Clients = {c}
    Nobody = Nobody
    Tools = {s, t}
    Modulus = 3
    MaxBeats = 4
    MaxRestarts = 1
INVARIANTS
    CalibrationSurvives
    MenuTellsMeasured
    SavedAsClicked
    RoiInFrameSpace
    PinsObeyHolder
    PictureOfItsRequest
    VerdictOfAllPictures
    OkMeansWritten
PROPERTIES
    HeartbeatVouches
CHECK_DEADLOCK FALSE
