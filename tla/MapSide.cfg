SPECIFICATION PartSpec
CONSTANTS
    None = None
    Paths = {x1, x2}
    Clients = {y1, y2}
    MaxChanges = 2
    MaxGeneration = 4
    MaxRestarts = 1
    scip = scip
    pyright = pyright
    project = project
    decl = decl
    shared = shared
    evClients = {y1, y2}
    Producers = {scip, pyright, project}
    Bound = {scip, pyright}
    Imported = {scip}
    Manifests = {decl, shared}
    Watches <- MCWatches
    Shared = {shared}
    Contents = {0, 1}
    MaxEdits = 1
    evMaxChanges = 2
    evMaxGeneration = 3
    Imports = 2
    MaxSnapshot = 2
    MaxTimeouts = 2
    MaxChatter = 1
    Checks = {y1, y2, z1}
    Interval = 2
    StaleAfter = 1
    MaxClock = 3
    rgClients = {c1, c2}
    DaemonOnly = {c2}
    rgManifests <- MCManifests
    MaxPending = 1
    MaxRegistered = 1
    MaxPaths = 1
    MaxTotalPaths = 1
    MaxTokens = 2
    MaxLives = 1
    MaxLost = 1
SYMMETRY Symmetry
   
INVARIANTS PartTypes EvidenceFreshUnlessRaced EdgesAreAnswers OncePerInterval
INVARIANTS Balanced NothingLeaks 
CHECK_DEADLOCK FALSE
