\* Two actions are enough for one that removes the other.
CONSTANTS
    Action = {a1, a2}
    NoAction = NoAction
    FrameBound = 2
    MaxDelta = 1
    MaxWait = 1
CHECK_DEADLOCK FALSE
SPECIFICATION ActionsSpec
PROPERTY RemovedIsStopped
