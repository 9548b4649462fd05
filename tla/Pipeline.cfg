CONSTANTS
    Buffers = {b1, b2}
    None = None
    MaxFrames = 6
SPECIFICATION FairPipelineSpec
INVARIANTS
    GateExclusive
    BuffersOwnedOnce
PROPERTIES
    FramesGoForward
    BothGoroutinesEnd
