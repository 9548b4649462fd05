CONSTANTS
    Machines = {m1, m2, m3}
    OldAgents = {m3}
    Names = {n1, n2}
    OldNames = {n2}
    Renamed = {m2}
    HostNames <- NamesByAge
    Tokens = {t1}
    Attempts = {a1, a2, a3}
    Impatient = {m2}
    MayDelete = TRUE
    None = None
SPECIFICATION EnrollSpec
SYMMETRY EnrollSymmetry
INVARIANTS
    MachinesKeepApart
    NewcomersStayOut
    DeadTokensEnrollNothing
    PatientAgentIsLetIn
CHECK_DEADLOCK FALSE
