CONSTANTS
    Devices = {d1}
    Conns = {c1, c2}
    Sessions = {s1, s2}
    Owners = {o1}
    AllowScreen = {TRUE}
    None = None
SPECIFICATION RelaySpec
SYMMETRY Interchangeable
INVARIANTS
    WelcomeIsFirst
    ReplacedIsClosed
    PresenceHasSocket
    StatusHasSocket
    SlotHasOperator
    OneOperatorPerDevice
    CompletedCaptureHasStop
PROPERTIES
    RelayImplementsSlot
