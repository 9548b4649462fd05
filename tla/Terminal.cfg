CONSTANTS
    LastCmd = 1
    LastConn = 2
    LastSession = 2
    AllowTerminal = {TRUE, FALSE}
    MaxOutput = 1
    Widths = {1, 6}
    ReadLimit = 4
SPECIFICATION FairSpec
INVARIANT
    RunsAreOnRecord
PROPERTY
    EntrySettles
CHECK_DEADLOCK FALSE
