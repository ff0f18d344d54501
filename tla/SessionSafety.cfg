SPECIFICATION FairSpec
CONSTANTS
    Nobody = Nobody
    Senders = {t1, t2}
    KeyAtStart = 0
    FirstSeqn = 1
    MaxSends = 2
    MaxArrivals = 2
    MaxDrops = 1
    MaxSessions = 1
    MaxClock = 2
INVARIANTS
    TypeOK
    EachAckIsTakenOnce
    EachDropIsTakenOnce
    AnswersNameTheQuery
    ContainersCloseLast
    SeqnosAreUniqueUnlessSetBack
PROPERTY PacketsAreFinished
CHECK_DEADLOCK FALSE
