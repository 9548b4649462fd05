CONSTANTS
    Runs = {r1, r2}
    Conns = {c1, c2}
    Sessions = {s1, s2}
    None = None
    Budgets <- OneChangeOrClick
SPECIFICATION AgentSpec
INVARIANTS
    OneVideoAtATime
    NoVideoWithoutConnection
    ViewedIsShown
SYMMETRY AgentSymmetry
CHECK_DEADLOCK FALSE
