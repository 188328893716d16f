SPECIFICATION FairSpec
CONSTANTS
    Caller = {c1}
    Acceptor = Acceptor
    Endpoint = {e1}
    AnyPeer = AnyPeer
    MaxConnections = 1
PROPERTY StopReturns
CHECK_DEADLOCK FALSE
