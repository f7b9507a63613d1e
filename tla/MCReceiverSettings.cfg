SPECIFICATION FairSpec
CONSTANTS
    m1 = m1
    m2 = m2
    Messages = {m1}
    Proposed <- PeerAndNone
    Machine <- HoldOrPeer
    Approvers = {}
    HeldLimit = 1
    Edits = 2
    Starts = 1
    Faults = 0
    Nothing = Nothing
PROPERTY SettingsApply
CHECK_DEADLOCK FALSE
