SPECIFICATION Spec
CONSTANTS
    Paths = {p1, p2}
    Clients = {c1}
    None = None
    MaxChanges = 2
    MaxGeneration = 6
    MaxRestarts = 0
INVARIANT FreshUnlessRaced
CHECK_DEADLOCK FALSE
