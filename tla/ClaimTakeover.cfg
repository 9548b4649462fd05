\* One claim at a time: TLC stops at the first it refutes.
CONSTANTS
    Machines = {m1, m2}
    OldAgents = {m1, m2}
    Names = {n1}
    OldNames = {n1}
    Renamed = {}
    HostNames <- NamesByAge
    Tokens = {t1}
    Attempts = {a1, a2, a3}
    Impatient = {m1}
    MayDelete = FALSE
    None = None
SPECIFICATION EnrollSpec
PROPERTY ClaimedRowsStay
\* INVARIANT OldAgentsKeepOneRow
CHECK_DEADLOCK FALSE
