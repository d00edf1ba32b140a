SPECIFICATION Spec
CONSTANTS
    Items <- MCItems
    Rewrites <- MCRewrites
    Tails <- MCTails
    Settings <- MCSettings
    Pools <- MCPools
    Overhead = 1
    Separator = 1
    Header = 1
    Long = 3
    LaneTokens = 2
    PlainSettings <- MCPlainSettings
    ShortHistory = 1
    MaxHistory = 4
    MaxEdits = 1
INVARIANTS
    RefusedExactlyWhenTooLarge
    PlanExplainsItself
    TruncationIsMaximal
    NothingIsOrphaned
CHECK_DEADLOCK FALSE
