\* One claim at a time: TLC stops at the first it refutes.
CONSTANTS
    Runs = {r1}
    Conns = {c1}
    Sessions = {s1, s2}
    None = None
    Budgets <- TwoClicks
SPECIFICATION AgentSpec
INVARIANT RedWhileViewed
\* INVARIANT GreyWhileReconnecting
\* PROPERTY ClickEndsBackoff
CHECK_DEADLOCK FALSE
