SPECIFICATION FairSpec
CONSTANTS
    Agents = {a1, a2}
    Root = Root
    MaxActiveSessions = 3
    MaxAgents = 3
    MaxPendingMessages = 3
    MaxRetainedTurns = 3
    Correspondents = {}
    Reporters = {}
    RunOutcomes = {"completed", "interrupted"}
    StorageMayFail = TRUE
    MaxOpens = 1
PROPERTIES
    InterruptSettles
    ShutdownTerminates
CHECK_DEADLOCK FALSE
