CONSTANTS
    Runs = {r1}
    Conns = {c1}
    Sessions = {s1, s2}
    None = None
    Budgets <- TwoClicks
SPECIFICATION FairAgentSpec
PROPERTIES
    CaptureEndsWithConnection
    StopEndsVideo
CHECK_DEADLOCK FALSE
