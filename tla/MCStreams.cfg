CONSTANTS
    Viewers = {v1, v2}
    FrameBuffer = 1
    MaxStreams = 2
    MaxVisits = 1
    MaxSamples = 2
    OutputLength = 3
    Outputs <- AllOutputs
    Clients = {c1, c2}
    Calls = {r1, r2}
    LimitConfigured = 2
    WindowConfigured = 3
    Minute = 4
    Second = 2
    MaxTracked = 1
    MaxTime = 4
SPECIFICATION Spec
CONSTRAINT NobodyExcused
INVARIANTS
    OneSharedStream
    ViewersCurrent
    LinesIntact
    RateBounded
    TrackedBounded
PROPERTIES
    ActiveWindowsKept
    StreamsSettle
CHECK_DEADLOCK FALSE
