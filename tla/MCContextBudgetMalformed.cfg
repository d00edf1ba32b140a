SPECIFICATION Spec
CONSTANTS
    Items <- MCItems
    Rewrites <- MCRewrites
    Tails <- MCTails
    Settings <- MCSettings
    Pools <- MCPools
    PlainSettings <- MCPlainSettings
    Overhead = 1
    Separator = 1
    Header = 1
    Long = 3
    LaneTokens = 2
    ShortHistory = 1
    MaxHistory = 2
    MaxEdits = 1
INVARIANT
    MalformedCallsAreDropped
CHECK_DEADLOCK FALSE
