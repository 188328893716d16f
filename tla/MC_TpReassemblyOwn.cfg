SPECIFICATION Spec
CONSTANTS
    m1 = m1
    m2 = m2
    q1 = q1
    q2 = q2
    Message = {m1, m2}
    Request = {q1, q2}
    RequestOf <- OwnRequest
    EmptyTail = {}
    Receiver = {t1, t2}
    NoRequest = NoRequest
    OffsetValues = 8
    SegmentSize = 2
    MaxSize = 4
INVARIANT CompletionIsReported
SYMMETRY ReceiverSymmetry
