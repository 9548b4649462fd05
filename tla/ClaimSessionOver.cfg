CONSTANTS
    Devices = {d1}
    Conns = {c1}
    Sessions = {s1}
    Owners = {o1}
    AllowScreen = {FALSE}
    None = None
SPECIFICATION FairRelaySpec
PROPERTY DeviceGoneSessionOver
