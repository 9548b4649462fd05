CONSTANTS
    Sockets = {c1, c2}
    Sessions = {s1, s2}
    None = None
SPECIFICATION FairConnSpec
INVARIANTS
    CaptureNeedsConnection
    OneWayBack
PROPERTY
    StartIsAnswered
