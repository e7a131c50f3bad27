CONSTANTS
    v1 = v1
    v2 = v2
    Vals = {v1, v2}
    Contents = {1, 2}
    Paths = {"p", "q"}
    MaxEvents = 2
SPECIFICATION Spec
SYMMETRY Symm
INVARIANTS EverySyncSettles
CHECK_DEADLOCK FALSE
