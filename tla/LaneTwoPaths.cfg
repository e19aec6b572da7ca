SPECIFICATION FairSpec
CONSTANTS
    Paths = {p1, p2}
    Requests = {r1}
    Loop = Loop
    Flusher = Flusher
    Free = Free
    None = None
    QueueMax = 1
    MaxAttempts = 3
    MaxVersion = 1
    MaxIssued = 2
INVARIANTS  CapturedTogether  StrongAnswerFresh
PROPERTIES RequestsEnd 
CHECK_DEADLOCK FALSE
