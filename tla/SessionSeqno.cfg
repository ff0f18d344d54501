SPECIFICATION Spec
CONSTANTS
    Nobody = Nobody
    Senders = {t1, t2}
    KeyAtStart = 0
    FirstSeqn = 1
    MaxSends = 2
    MaxArrivals = 1
    MaxDrops = 0
    MaxSessions = 1
    MaxClock = 2
INVARIANT SeqnosAreUnique
CHECK_DEADLOCK FALSE
