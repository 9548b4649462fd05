CONSTANTS
    NumDevices = 2
    MaxLiveTiles = 1
    MaxSessions = 3
    LateClose = TRUE
SPECIFICATION FairSpec
INVARIANT
    OnePaneAsks
PROPERTIES
    RunningTileStays
    PaneIsServed
    LeftDeviceIsFreed
CHECK_DEADLOCK FALSE
