SPECIFICATION ClientFairSpec
CONSTANTS
    MaxAttempts = 2
    MaxAcqs = 3
INVARIANTS
    Consistent
    LeasesConsistent
    ExclusiveAlone
    DetachSparesOthers
PROPERTIES
    ClientSettles
CHECK_DEADLOCK FALSE
