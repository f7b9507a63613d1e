SPECIFICATION ReportingSpec
CONSTANTS
    ann = ann
    bob = bob
    a1 = a1
    b1 = b1
    b2 = b2
    None = None
    Members <- TwoMembers
    Founders = {ann}
    Revocable = {bob}
    Conns = {a1, b1}
    MemberOf <- OneEach
    Envelopes = {}
    AddressedTo <- ToBob
    Sessions = {s}
    Publishers = {a1, b1}
    QueueLimit = 1
INVARIANT NoOrphanSessions
PROPERTIES
    WorkspaceKept
    RostersConverge
    ClosedEnds
CHECK_DEADLOCK FALSE
