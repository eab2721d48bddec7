\* A connection lost between a response and its continuation.
SPECIFICATION ClientSpec
CONSTANTS
    MaxAttempts = 2
    MaxAcqs = 2
INVARIANT ExclusiveAlways
CHECK_DEADLOCK FALSE
