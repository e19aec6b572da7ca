SPECIFICATION Spec
CONSTANTS
    Paths = {p1}
    Requests = {r1, r2}
    Loop = Loop
    Flusher = Flusher
    Free = Free
    None = None
    QueueMax = 1
    MaxAttempts = 3
    MaxVersion = 1
    MaxIssued = 3
SYMMETRY SymmetryOfAll
INVARIANT ConcurrentAnswersFresh
CHECK_DEADLOCK FALSE
