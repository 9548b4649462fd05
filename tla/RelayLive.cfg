CONSTANTS
    Devices = {d1}
    Conns = {c1, c2}
    Sessions = {s1}
    Owners = {o1}
    AllowScreen = {TRUE}
    None = None
SPECIFICATION FairRelaySpec
PROPERTIES
    TeardownCompletes
    GoneDeviceGoesOffline
    ScreenSessionEndsWithDevice
