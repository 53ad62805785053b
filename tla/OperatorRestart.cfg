CONSTANTS
    CommandValues = {0, 1}
    SpeedValues = {0}
    FastPolling = FALSE
SPECIFICATION HistorySpec
PROPERTY RestartNeedsNewRun
