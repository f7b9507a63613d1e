SPECIFICATION Spec
CONSTANTS
    ann = ann
    bob = bob
    a1 = a1
    b1 = b1
    b2 = b2
    None = None
    Members <- TwoMembers
    Founders = {ann, bob}
    Revocable = {}
    Conns = {a1, b1}
    MemberOf <- OneEach
    Envelopes = {e1, e2}
    AddressedTo <- ToBob
    Sessions = {}
    Publishers = {}
    QueueLimit = 2
INVARIANT FlushKeepsTheRest
CHECK_DEADLOCK FALSE
