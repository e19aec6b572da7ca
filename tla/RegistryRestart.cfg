SPECIFICATION Spec
CONSTANTS
    p = p
    Clients = {c1}
    DaemonOnly = {}
    Manifests <- One
    None = None
    MaxPending = 1
    MaxRegistered = 1
    MaxPaths = 1
    MaxTotalPaths = 1
    MaxTokens = 2
    MaxLives = 1
    MaxLost = 0
INVARIANT AutoAnswers
CHECK_DEADLOCK FALSE
