\* One claim at a time: TLC stops at the first it refutes.  EntrySettles is
\* refuted under DaemonSpec.
CONSTANTS
    LastCmd = 1
    LastConn = 2
    LastSession = 2
    AllowTerminal = {TRUE, FALSE}
    MaxOutput = 1
    Widths = {1, 6}
    ReadLimit = 4
SPECIFICATION Spec
INVARIANT OutputKeepsChannel
\* INVARIANT WrittenBeforeRun
\* PROPERTY ResultsGoHome
\* PROPERTY EntrySettles
CHECK_DEADLOCK FALSE
