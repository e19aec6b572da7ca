SPECIFICATION PartSpec
CONSTANTS
    None = None
    Sessions = {s1, s2}
    MaxAge = 2
    MaxTries = 2
    MaxClock = 4
    a = a
    b = b
    Names = {a, b}
    InitialDirs <- MCInitial
    MaxDepth = 2
    MaxMakes = 1
    MaxMoves = 1
    MaxRemoves = 1
    MaxWrites = 1
    MaxLosses = 1
    iwPaths = {x1}
    ReaderMayDie = TRUE
    MaxChanges = 2
    MaxOverflows = 1
    MaxFailures = 1
    MaxOthers = 1
    Servers = {s1, s2, s3}
    MayBeFull = TRUE
INVARIANTS LeaseInv PartTypes AllWatchedUnlessCrossed MissedOnlyInGap
INVARIANTS StaleIsNoticedUnlessBlind
INVARIANTS AloneItServes
PROPERTIES TakenOnlyWhenFree StaleNeverOverwrites Settles
CHECK_DEADLOCK FALSE
