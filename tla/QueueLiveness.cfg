SPECIFICATION FairSpec
CONSTANTS
    Nobody = Nobody
    Queries = {q1, q2}
    Cancellers = {c1}
    Ticks <- FineClock
    MaxItems = 1
    MaxSends = 1
    KeyAtStart = 0
PROPERTIES
    AnswersAreDelivered
    AnsweredThreadEnds
    StoppedThreadEndsOrWaits
CHECK_DEADLOCK FALSE
