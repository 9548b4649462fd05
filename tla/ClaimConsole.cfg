\* One claim at a time: TLC stops at the first it refutes.
CONSTANTS
    Admins = {a1}
    None = None
    MaxActs = 3
    MaxEvents = 1
    MaxCalls = 3
SPECIFICATION ConsoleSpec
INVARIANT SignedOutStaysOut
\* PROPERTY MoveLeavesAdmin
CHECK_DEADLOCK FALSE
