SPECIFICATION Spec
CONSTANTS
    k1 = k1
    k2 = k2
    k3 = k3
    k4 = k4
    Key = {k1, k2, k3, k4}
    NULL = null
    Hash <- SmallHash
    INITIAL_SIZE = 2
    MAX_SIZE = 8
    Allowed = {}
INVARIANTS
    NextEntryLive
    SteadyKeysOnce
