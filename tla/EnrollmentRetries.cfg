CONSTANTS
    Machines = {m1, m2}
    OldAgents = {m1}
    Names = {n1}
    OldNames = {n1}
    Renamed = {m2}
    HostNames <- NamesByAge
    Tokens = {t1}
    Attempts = {a1, a2, a3, a4}
    Impatient = {m2}
    MayDelete = TRUE
    None = None
SPECIFICATION EnrollSpec
SYMMETRY EnrollSymmetry
INVARIANTS
    MachinesKeepApart
    NewcomersStayOut
CHECK_DEADLOCK FALSE
