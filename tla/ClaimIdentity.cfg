\* One claim at a time: TLC stops at the first it refutes.
CONSTANTS
    Machines = {m1, m2}
    OldAgents = {}
    Names = {n1}
    OldNames = {}
    Renamed = {}
    HostNames <- NamesByAge
    Tokens = {t1}
    Attempts = {a1, a2}
    Impatient = {m1}
    MayDelete = TRUE
    None = None
SPECIFICATION EnrollSpec
INVARIANT IdentityIsPermanent
\* INVARIANT TokensAreSingleUse
\* PROPERTY RedemptionsHaveRows
CHECK_DEADLOCK FALSE
