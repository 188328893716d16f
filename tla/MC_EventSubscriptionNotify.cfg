SPECIFICATION Spec
CONSTANTS
    e1 = e1
    e2 = e2
    g1 = g1
    g2 = g2
    s1 = s1
    Event = {e1, e2}
    Eventgroup = {g1, g2}
    Service = {s1}
    GroupOf <- OneGroup
    ServiceOf <- OneService
    Peer = {p1, p2}
    RepetitionMax = 1
    MaxOptions = 2
    MaxPending = 1
    MaxAttempts = 1
INVARIANT NotifyReachesAcked
