SPECIFICATION FairSpec
CONSTANTS
    SessionCount = 2
    MaxDraws = 3
    MaxEndpoints = 1
INVARIANTS
    TypeOK
    NoOrphanedFuture
    AnswerMatchesSession
    BrokenOnlyByWrap
    DoubleSetOnlyAfterFailedSend
PROPERTY FutureIsSettled
CHECK_DEADLOCK FALSE
