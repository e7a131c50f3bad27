SPECIFICATION Spec
CONSTANTS
    Clients = {c1, c2, c3}
    Routes <- WriterRoutes
    MaxOps = 3
    NoLock = NoLock
INVARIANTS
    TypeOK
    LockedOpsKept
SYMMETRY Threads
PROPERTIES
    StoreStillWhileLocked
    ImplementsSession

