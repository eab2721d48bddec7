SPECIFICATION FairSpec
CONSTANTS
    Prompts = {p1}
    Steers = {}
    FollowUps = {}
    SteeringMode = "one-at-a-time"
    FollowUpMode = "one-at-a-time"
    RepeatLimit = 2
    ToolModes = {"parallel", "sequential"}
    ReplaySafe = {TRUE, FALSE}
    MaxConcurrent = 1
    MaxCalls = 2
    MaxTurns = 1
    Prints = {"a"}
    Retryable = TRUE
    MayTerminate = TRUE
    HooksMayFail = TRUE
    MaxCrashes = 2
INVARIANTS
    Consistent
    RequestWellFormed
PROPERTIES
    NoEffectAfterCancel
    ExecutedOnce
    AbortSettles
CHECK_DEADLOCK FALSE
