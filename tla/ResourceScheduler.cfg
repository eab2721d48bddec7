\* Four calls of one key over two slots, and one signal they may share.
SPECIFICATION MCSpec
CONSTANTS
    Calls = {1, 2, 3, 4}
    Keys = {k1}
    NoKey = NoKey
    Signals = {s1}
    NoSignal = NoSignal
    MaxConcurrency = 2
INVARIANTS
    Consistent
    NoStartableWaiter
PROPERTIES
    NoGrantAfterAbort
    EveryWaiterSettles
CHECK_DEADLOCK FALSE
