SPECIFICATION Spec
CONSTANTS
    c1 = c1
    c2 = c2
    Clients = {c1, c2}
    MaxCmds = 4
    MaxFiles = 2
    MaxRecs = 2
    MaxFaults = 1
SYMMETRY Symm
INVARIANTS IndexAgrees SameRecordBack
PROPERTIES BytesLeaveByChoice MetadataKept
CHECK_DEADLOCK FALSE
