SPECIFICATION Spec
CONSTANTS
    Nobody = Nobody
    Queries = {q1, q2}
    Cancellers = {c1}
    Ticks <- CoarseClock
    MaxItems = 2
    MaxSends = 2
    KeyAtStart = 1
SYMMETRY Symmetry
INVARIANTS
    TypeOK
    AtMostOneCallback
    AnswersReachTheAsker
    ListedAreAlive
    ListedAreUnlocked
    NestedLockIsSafe
PROPERTY ImplementsQueryService
CHECK_DEADLOCK FALSE
