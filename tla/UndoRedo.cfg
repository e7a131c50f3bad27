CONSTANTS
    Records = {a}
    Root = root
    Fields = {}
    Values = {x}
    NoField = none
    Commands = {}
    UserLimit = 0
    WatcherLimit = 0
    MaxOps = 5
    MaxLabels = 5
    Window = 2
    WideWindow = 3
SPECIFICATION UndoSpec
INVARIANTS SelectionAgrees
PROPERTIES RedoNeverUndoes
CHECK_DEADLOCK FALSE
