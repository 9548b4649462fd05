CONSTANTS
    Admins = {a1}
    None = None
    MaxActs = 3
    MaxEvents = 1
    MaxCalls = 3
SPECIFICATION FairConsoleSpec
INVARIANT SignedOutShowsNothing
PROPERTY NothingStaysBusy
CHECK_DEADLOCK FALSE
