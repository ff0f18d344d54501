SPECIFICATION Spec
CONSTANTS
    Nobody = Nobody
    Queries = {q1, q2}
    Cancellers = {c1}
    Ticks <- FineClock
    MaxItems = 1
    MaxSends = 2
    KeyAtStart = 1
PROPERTY StoppedIsNotSentAgain
CHECK_DEADLOCK FALSE
