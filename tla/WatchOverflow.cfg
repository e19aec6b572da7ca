SPECIFICATION Spec
CONSTANTS
    a = a
    b = b
    Names = {a, b}
    InitialDirs <- MCInitial
    None = None
    MaxDepth = 2
    MaxMakes = 1
    MaxMoves = 1
    MaxRemoves = 0
    MaxWrites = 0
    MaxLosses = 1
INVARIANT AllWatched
CHECK_DEADLOCK FALSE
