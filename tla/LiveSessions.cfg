SPECIFICATION FairSpec
CONSTANTS
    Conns = {a, b}
    MaxReqs = 2
    MaxCloses = 2
CHECK_DEADLOCK FALSE
INVARIANTS
    Consistent
    CloseComplete
PROPERTIES
    SessionsSettle
