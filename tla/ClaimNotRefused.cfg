CONSTANTS
    NumDevices = 1
    MaxLiveTiles = 1
    MaxSessions = 4
    LateClose = FALSE
SPECIFICATION Spec
INVARIANT NeverRefusesItself
CHECK_DEADLOCK FALSE
