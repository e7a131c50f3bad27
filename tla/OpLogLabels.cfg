CONSTANTS
    Records = {a}
    Root = root
    Fields = {}
    Values = {}
    NoField = none
    Commands = {k}
    UserLimit = 1
    WatcherLimit = 1
    MaxOps = 5
    MaxLabels = 4
SPECIFICATION Spec
INVARIANTS HeadInLog LabelsLive OriginsApart NoIdleLabel
PROPERTIES RetentionKeeps
CHECK_DEADLOCK FALSE
