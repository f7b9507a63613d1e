SPECIFICATION Spec
CONSTANTS
    ann = ann
    bob = bob
    a1 = a1
    b1 = b1
    b2 = b2
    None = None
    Members <- TwoMembers
    Founders = {ann}
    Revocable = {}
    Conns = {a1, b1, b2}
    MemberOf <- OneAndTwo
    Envelopes = {e1, e2}
    AddressedTo <- ToBob
    Sessions = {}
    Publishers = {}
    QueueLimit = 1
SYMMETRY Alike
INVARIANTS
    Accounted
    RightRecipient
    OnlineExact
PROPERTY Mailbox
CHECK_DEADLOCK FALSE
