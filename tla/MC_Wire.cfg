SPECIFICATION FairSpec
CONSTANTS
    Outgoing <- Messages
    Datagrams <- SdMessages
    Cuts = {2, 4, 11}
    MaxMessageSize = 28
    MaxSends = 2
INVARIANTS
    TypeOK
    FramesIntact
    FittingIsDelivered
    ItemsReadBack
    SdIsUnderstood
PROPERTIES
    SentIsDelivered
CHECK_DEADLOCK FALSE
