SPECIFICATION Spec
CONSTANTS
    m1 = m1
    m2 = m2
    Messages = {m1, m2}
    Proposed <- PeerAndNone
    Machine <- FourSettings
    Approvers = {k1, k2}
    HeldLimit = 1
    Edits = 2
    Starts = 2
    Faults = 2
    Nothing = Nothing
SYMMETRY Alike
INVARIANTS
    DecidedOnce
    KeptSurvives
    LevelGranted
PROPERTIES
    DecisionsStand
CHECK_DEADLOCK FALSE
