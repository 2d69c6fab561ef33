SPECIFICATION Spec
CONSTANTS
    W = 4
    Sizes = {4, 8, 16}
    MAX_SHRINK = 4
INVARIANTS
    NothingMissed
