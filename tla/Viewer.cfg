CONSTANTS
    LastAttempt = 2
    MaxCands = 1
    MaxFaults = 1
SPECIFICATION FairSpec
INVARIANT
    NoCandidateStranded
PROPERTIES
    AttemptSettles
    LeavingFreesDevice
CHECK_DEADLOCK FALSE
