SPECIFICATION FairSpec
CONSTANTS
    api = api
    web = web
    peerApi = peerApi
    peerWeb = peerWeb
    Sessions = {api, web}
    NameOf <- PeerNames
    WorkspacePeer = WorkspacePeer
    Blank = Blank
    Everybody = Everybody
    Someone = Someone
    Nobody = Nobody
    Policies <- SomePolicies
    Changes = 3
    Frames = 1
INVARIANTS
    CapKept
PROPERTIES
    OnlyAsked
    WantedStays
    FramesReach
    RoutedByName
    PeersSettle
CHECK_DEADLOCK FALSE
