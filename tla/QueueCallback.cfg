SPECIFICATION Spec
CONSTANTS
    Nobody = Nobody
    Queries = {q1, q2}
    Cancellers = {}
    Ticks <- FineClock
    MaxItems = 1
    MaxSends = 2
    KeyAtStart = 1
INVARIANT CallbackRunsOnDone
CHECK_DEADLOCK FALSE
