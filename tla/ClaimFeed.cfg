\* One claim at a time: TLC stops at the first it refutes.
CONSTANTS
    Devices = {d1}
    Sessions = {s1}
    Owners = {o1}
    Callers = {k1, k2}
    Feeds = {f1, f2}
    ChanCap = 2
    None = None
SPECIFICATION FeedSpec
INVARIANT NeverLatchesOffline
\* INVARIANT PublishNeverFails
\* INVARIANT ReconnectRefreshes
