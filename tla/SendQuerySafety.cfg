SPECIFICATION FairSpec
CONSTANTS
    Nobody = Nobody
    Callers = {c1, c2, c3}
    KeyAtStart = 0
    MaxFd = 3
    MaxItems = 2
    MaxSends = 3
INVARIANTS
    TypeOK
    SocketsAreNotShared
    KeyIsMadeOnce
    ResultsAreOwn
PROPERTY EveryCallReturns
CHECK_DEADLOCK FALSE
