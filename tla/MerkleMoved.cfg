SPECIFICATION Spec
CONSTANTS
    root = root
    d = d
    s = s
    f = f
    g = g
    h = h
    Dirs = {root, d, s}
    Files = {f, g, h}
    Root = root
    Parent <- MCParent
    Above <- MCAbove
    Terminals = {s, f}
    Movable = {d}
    None = None
    Absent = Absent
    MaxClock = 2
INVARIANT FastEqualsStrong
CHECK_DEADLOCK FALSE
