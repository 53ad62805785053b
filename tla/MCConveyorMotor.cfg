SPECIFICATION FairSpec
CONSTANTS
    InitialDelay = 4
    MaxSpeed = 2
    SpeedGain = 1
    Loops = {l1, l2, l3}
    NoLoop = NoLoop
    SpeedCmds <- MCSpeedCmds
INVARIANTS
    TypeOK
    StartedMeansStepping
PROPERTIES
    ImplementsContract
    StopEndsLoops
    LostEnableHeals
