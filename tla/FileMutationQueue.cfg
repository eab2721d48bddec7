\* Three calls of a path whose canonical file may change, over two files.
SPECIFICATION FairSpec
CONSTANTS
    Calls = {c1, c2, c3}
    Paths = {p1}
    Keys = {k1, k2}
INVARIANTS
    Consistent
PROPERTIES
    ImplementsFileLock
    EveryCallSettles
