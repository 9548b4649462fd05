\* One claim at a time: TLC stops at the first it refutes.
CONSTANTS
    LastAttempt = 2
    MaxCands = 1
    MaxFaults = 1
SPECIFICATION Spec
INVARIANT OperatorIsTold
\* INVARIANT RetryIsAdmitted
\* INVARIANT AnswersAreOwn
CHECK_DEADLOCK FALSE
