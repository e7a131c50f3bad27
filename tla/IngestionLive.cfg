SPECIFICATION FairSpec
CONSTANTS
    Places = {a, b}
    Start = a
    MaxEvents = 3
    MaxMoves = 1
    MaxFails = 0
    MaxReadFails = 0
    MaxStops = 0
    MaxSessions = 1
    MaxTroubles = 3
CHECK_DEADLOCK FALSE
PROPERTIES
    EventuallyApplied
