SPECIFICATION LiveSpec
CONSTANTS
    W = 4
    Sizes = {2, 4, 8, 16}
    MAX_SHRINK = 2
INVARIANTS
    NothingMissed
PROPERTIES
    ScanEnds
