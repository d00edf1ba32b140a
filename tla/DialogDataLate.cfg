SPECIFICATION Spec
CONSTANTS
    Docs = {}
    Stray = "stray"
    Intervals = {2}
    MaxMessages = 2
    MaxFaults = 1
    MaxStarts = 1
    MaxTasks = 1
INVARIANT
    DeletionTakesEveryVector
CHECK_DEADLOCK FALSE
