\* One claim at a time: TLC stops at the first it refutes.
CONSTANTS
    Devices = {d1}
    Conns = {c1, c2}
    Sessions = {s1, s2}
    Owners = {o1}
    AllowScreen = {TRUE}
    None = None
SPECIFICATION RelaySpec
INVARIANT LiveDeviceReadsOnline
\* INVARIANT ServedSessionRowIsClosed
\* INVARIANT EndedSessionIsNotCaptured
\* INVARIANT RunningSessionUndisturbed
