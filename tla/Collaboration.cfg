SPECIFICATION Spec
CONSTANTS
    Agents = {a1, a2}
    Root = Root
    MaxActiveSessions = 2
    MaxAgents = 3
    MaxPendingMessages = 2
    MaxRetainedTurns = 3
    Correspondents = {Root}
    Reporters = {a1, a2}
    RunOutcomes = {"completed", "failed", "interrupted"}
    StorageMayFail = TRUE
    MaxOpens = 2
SYMMETRY Symmetry
INVARIANTS
    Consistent
    NoSelfInflictedFailure
    CompletionNotLost
    LedgerFollowsAgent
    SessionsSound
PROPERTIES
    RecoverySettles
CHECK_DEADLOCK FALSE
