CONSTANTS
    Enrolls = {e1, e2}
    Old = old
    NoId = NoId
    MaxOps = 2
    MaxDeaths = 1
SPECIFICATION FairRuntimeSpec
INVARIANT
    LastRequestWins
PROPERTY
    DisconnectCompletes
