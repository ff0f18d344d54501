SPECIFICATION Spec
CONSTANTS
    Nobody = Nobody
    Callers = {c1, c2}
    KeyAtStart = 0
    MaxFd = 3
    MaxItems = 1
    MaxSends = 2
INVARIANT ReportedSocketIsClosed
CHECK_DEADLOCK FALSE
