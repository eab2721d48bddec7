SPECIFICATION Spec
CONSTANTS
    Repos = {r1, r2}
    Storages = {a, b, c}
    Ttl = 2
    Interval = 1
    MaxTime = 3
    MaxLog = 2
    MaxQueue = 1
    Faults = TRUE
SYMMETRY Symmetry
CHECK_DEADLOCK FALSE
INVARIANTS
    Consistent
PROPERTIES
    NoForeignRelease
    ImplementsFencedLog
