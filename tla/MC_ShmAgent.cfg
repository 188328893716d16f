SPECIFICATION FairSpec
CONSTANTS
    c1 = c1
    c2 = c2
    s1 = s1
    Caller = {c1, c2}
    Worker = Worker
    Nobody = Nobody
    Service = {s1}
    NoService = NoService
    Used = {"REGISTER_SERVICE"}
    Capacity = 2
    MaxSequence = 3
INVARIANTS
    TypeOK
    SequencesAscend
    ViewFollowsRegistry
PROPERTIES
    RingsAreFifos
    ResponsesAreHandled
    DisconnectReturns
CHECK_DEADLOCK FALSE
