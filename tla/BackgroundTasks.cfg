\* Two launches, one at a time, somebody who waits, and a shutdown or cleanup.
SPECIFICATION FairSpec
CONSTANTS
    Tasks = {a, b}
    Waiters = {w}
    MaxTasks = 1
    MaxShutdowns = 1
INVARIANTS
    Consistent
    StoppedIsDead
    NoLostWaiter
PROPERTIES
    TasksEnd
CHECK_DEADLOCK FALSE
