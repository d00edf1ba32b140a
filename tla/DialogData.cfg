CONSTANTS
    Docs = {"d1"}
    Stray = "stray"
    Intervals = {1, 2}
    MaxMessages = 4
    MaxFaults = 2
    MaxStarts = 2
    MaxTasks = 2
SPECIFICATION Spec
CHECK_DEADLOCK FALSE
INVARIANTS
    NothingUntracked
    DeletedDialogsLeaveNothing
    ArchiveIsComplete
PROPERTIES
    OnlyReadyIsRetrieved
    ForgottenIsNeverResumed
