CONSTANTS
    Buffers = {b1, b2, b3}
    None = None
    MaxFrames = 3
SPECIFICATION PipelineSpec
INVARIANT FailedSessionIsReported
