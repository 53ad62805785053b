SPECIFICATION FairSpec
CONSTANTS
    CommandValues = {0, 1, 2, 4, 9}
    SpeedValues = {0, 100}
    FastPolling = FALSE
INVARIANTS
    TypeOK
    LatchedMeansOff
    DriveFollowsCommand
    OffWhileUnattended
    StatusPublished
PROPERTIES
    EmergencyEdgeLatches
    CommandObeyed
