CONSTANTS
    Devices = {d1}
    Sessions = {s1}
    Owners = {o1}
    Callers = {k1}
    Feeds = {f1, f2}
    ChanCap = 1
    None = None
SPECIFICATION FairFeedSpec
INVARIANT
    CaughtUpIsRight
PROPERTY
    GoneFeedLeaves
