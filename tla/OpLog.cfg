CONSTANTS
    Records = {a}
    Root = root
    Fields = {f,g}
    Values = {x}
    NoField = none
    Commands = {}
    UserLimit = 0
    WatcherLimit = 0
    MaxOps = 5
    MaxLabels = 1
SPECIFICATION Spec
INVARIANTS TypeOK LogExplainsStore
PROPERTIES RevertRestores
CHECK_DEADLOCK FALSE
