SPECIFICATION Spec
CONSTANTS
    Prompts = {p1}
    Steers = {s1, s2}
    FollowUps = {f1}
    SteeringMode = "one-at-a-time"
    FollowUpMode = "all"
    RepeatLimit = 2
    ToolModes = {"sequential"}
    ReplaySafe = {TRUE}
    MaxConcurrent = 2
    MaxCalls = 1
    MaxTurns = 3
    Prints = {"a"}
    Retryable = FALSE
    MayTerminate = FALSE
    HooksMayFail = FALSE
    MaxCrashes = 0
SYMMETRY Symmetry
INVARIANTS
    OneSteeringPerTurn
    NoEndlessRepetition
PROPERTIES
    QueueOrderKept
CHECK_DEADLOCK FALSE
