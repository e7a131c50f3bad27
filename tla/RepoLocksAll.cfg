SPECIFICATION Spec
CONSTANTS
    Clients = {c1, c2}
    Routes <- AllRoutes
    MaxOps = 3
    NoLock = NoLock
SYMMETRY Threads
PROPERTIES
    OnlyCommitWrites
