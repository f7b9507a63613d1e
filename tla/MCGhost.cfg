SPECIFICATION FairSpec
CONSTANTS
    Conns = {k1, k2}
    InboxLimit = 1
    PipeLimit = 1
    Arrivals = 3
INVARIANTS
    HeartbeatHarmless
    FramesForwarded
PROPERTIES
    Stops
    Promise
CHECK_DEADLOCK FALSE
