SPECIFICATION FairSpec
CONSTANTS
    p1 = p1
    Peers = {p1}
    Pids = {c1}
    EventLimit = 1
    FrameLimit = 1
    PipeLimit = 2
    GiveUpAfter = 2
    Emissions <- ThreeFrames
    Starts = 1
    Faults = 0
    Nobody = Nobody
PROPERTY ShutdownReturns
CHECK_DEADLOCK FALSE
