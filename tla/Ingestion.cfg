SPECIFICATION Spec
CONSTANTS
    Places = {a, b, c}
    Start = a
    MaxEvents = 3
    MaxMoves = 2
    MaxFails = 1
    MaxReadFails = 1
    MaxStops = 1
    MaxSessions = 1
    MaxTroubles = 3
SYMMETRY Symm
CHECK_DEADLOCK FALSE
INVARIANTS
    TypeOK
    NoEventLost
    AppliedInOrder
    BufferInOrder
    FilterSound
