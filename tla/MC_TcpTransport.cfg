SPECIFICATION FairSpec
CONSTANTS
    Caller = {c1, c2}
    Acceptor = Acceptor
    Endpoint = {e1}
    AnyPeer = AnyPeer
    MaxConnections = 2
INVARIANTS
    TypeOK
    ConnectionIsServed
    MappingIsCurrent
PROPERTY PeerCloseIsNoticed
CHECK_DEADLOCK FALSE
