\* One claim at a time: TLC stops at the first it refutes.
CONSTANTS
    Sockets = {c1, c2}
    Sessions = {s1, s2}
    None = None
SPECIFICATION ConnSpec
INVARIANT ViewerIsShown
\* INVARIANT StopIsForGood
\* INVARIANT WaitingIsAsked
