SPECIFICATION FairSpec
CONSTANTS
    p1 = p1
    Peers = {p1, p2}
    Pids = {c1}
    EventLimit = 1
    FrameLimit = 1
    PipeLimit = 1
    GiveUpAfter = 1
    Emissions <- OneFrame
    Starts = 2
    Faults = 1
    Nobody = Nobody
INVARIANTS
    GhostsTracked
    GhostsAttended
    ClosedIsQuiet
    FramesKept
    SweepSparesTheLiving
PROPERTIES
    LivesAsPromised
    DeadIsReplaced
    ReturnsUnlessStuck
CHECK_DEADLOCK FALSE
