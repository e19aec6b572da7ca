SPECIFICATION PartSpec
CONSTANTS
    None = None
    root = root
    d = d
    s = s
    f = f
    h = h
    Dirs = {root, d, s}
    Files = {f, h}
    Root = root
    Parent <- MCParent
    Above <- MCAbove
    Terminals = {s, f}
    Movable = {d, s}
    Absent = Absent
    mkMaxClock = 4
    Callers = {y1, y2}
    Processes = {y1, y2}
    Home <- MCHome
    Inodes = {x1, x2}
    Attempts = 2
    MaxClock = 2
    MaxVersion = 3
    csCallers = {y1, y2}
    MaxInodes = 3
    Durable = FALSE
    MaxFailures = 1
    MaxSpoils = 1
SYMMETRY Symmetry
INVARIANTS PartTypes ExactUnmoved ExactOutsideMoves
INVARIANTS RowsExact ReadWasThere PutsHold
CHECK_DEADLOCK FALSE
