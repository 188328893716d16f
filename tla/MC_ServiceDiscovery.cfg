SPECIFICATION FairSpec
CONSTANTS
    LocalService = {l1, l2}
    RemoteService = {r1}
    NoService = NoService
    ConfigTtl = {1, 4}
    WireTtlValues = 4
    MaxTtl = 1
    CyclicDelay = 1
    MaxPause = 1
INVARIANTS
    TypeOK
    AnnouncementIsCurrent
    DiscoveredIsReported
    ViewIsBacked
PROPERTIES
    SilentServiceIsReported
    OffersAreRepeated
