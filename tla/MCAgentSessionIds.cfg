CONSTANTS
    Texts = {"short", "long"}
    Size <- MCSize
    Digest = "short"
    MaxTokens = 3
    PinCap = 2
    TopK = 2
    MaxId = 4
    Sessions = {"default", "other"}
    Default = "default"
    HandEdited = {"other"}
    MaxIterations = 2
    Outputs <- MCOutputs
    MaxActions = 2
    TailSize = 2
    SaveEvery = 2
    MaxStarts = 2
    MaxTurns = 2
SPECIFICATION Spec
CHECK_DEADLOCK FALSE
PROPERTIES
    IdsAreCollisionFree
