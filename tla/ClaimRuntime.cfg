\* One claim at a time: TLC stops at the first it refutes.
CONSTANTS
    Enrolls = {e1, e2}
    Old = old
    NoId = NoId
    MaxOps = 2
    MaxDeaths = 1
SPECIFICATION RuntimeSpec
INVARIANT DisconnectStays
\* PROPERTY EnrolledIgnoresLinks
\* INVARIANT ConnectsWithSaved
