SPECIFICATION Spec
CONSTANTS
    u1 = u1
    u2 = u2
    e1 = e1
    f1 = f1
    s1 = s1
    s2 = s2
    g1 = g1
    m0 = m0
    m1 = m1
    v1 = v1
    v2 = v2
    User = {u1, u2}
    Receiver = Receiver
    TcpReceiver = TcpReceiver
    SdWorker = SdWorker
    Nobody = Nobody
    Event = {e1, f1}
    Field = {f1}
    Service = {s1, s2}
    GroupId = {g1}
    Method = {m0, m1}
    SkeletonMethod = m0
    Value = {v1, v2}
    Blank = Blank
    None = None
    Arrivals <- Messages
    Scenarios <- Scripts
    Reentry <- HandlerCalls
INVARIANTS
    TypeOK
    NoCircularWait
    OfferStands
    NotifiedIsStored
    
CHECK_DEADLOCK FALSE
