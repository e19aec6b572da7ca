SPECIFICATION Spec
CONSTANTS
    Paths = {p1}
    None = None
    ReaderMayDie = TRUE
    MaxChanges = 1
    MaxOverflows = 0
    MaxFailures = 0
    MaxOthers = 0
INVARIANT StaleIsNoticedOnceStarted
