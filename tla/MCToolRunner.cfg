CONSTANTS
    Texts = {"v1", "v2"}
    Payloads = {"p1", "huge"}
    Shown = {"p1"}
    Platforms = {"linux", "windows"}
    MaxOps = 2
    MaxOthers = 2
    MaxStarts = 1
SPECIFICATION Spec
CHECK_DEADLOCK FALSE
INVARIANTS
    NothingForeignIsLost
    OutcomesAreHonest
    OnlyConsentedActionsRun
