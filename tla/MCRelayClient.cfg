SPECIFICATION FairSpec
CONSTANTS
    pia = pia
    desk = desk
    none = none
    some = some
    Nothing = Nothing
    People = {pia}
    Sessions = {desk}
    OwnerOf <- OneOwner
    Exposures = {none, some}
    Unexposed = none
    Senders = {g1, g2}
    Targets = {desk}
    InboxLimit = 1
    WireLimit = 2
    DialLimit = 2
    NumberLimit = 2
INVARIANTS
    NumbersDistinct
    SendersAnswerable
PROPERTIES
    RedialsOrCloses
    ReportsConverge
CHECK_DEADLOCK FALSE
