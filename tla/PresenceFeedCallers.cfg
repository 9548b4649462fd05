CONSTANTS
    Devices = {d1}
    Sessions = {}
    Owners = {o1}
    Callers = {k1, k2}
    Feeds = {f1, f2}
    ChanCap = 1
    None = None
SPECIFICATION FeedSpec
INVARIANT
    CaughtUpIsRight
