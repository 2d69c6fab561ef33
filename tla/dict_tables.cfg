SPECIFICATION LiveSpec
CONSTANTS
    k1 = k1
    k2 = k2
    k3 = k3
    k4 = k4
    Key = {k1, k2, k3}
    Val = {v, w}
    None = none
    Hash <- SmallHash
    INITIAL_SIZE = 2
    MAX_SIZE = 8
    FORCE_RATIO = 1
    MAX_ITERATORS = 1
    EmptyWhileIterating = FALSE
INVARIANTS
    KeyStoredOnce
    EntriesReachable
    UsedExact
PROPERTIES
    ImplementsDictMap
    MigrationEnds
