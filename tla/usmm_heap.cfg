SPECIFICATION Spec
CONSTANTS
    N = 24
    Class = {}
    NoClass = 0
    SliceSize <- NoSliceSize
    SlabSize = 7
    HeadSize = 1
    NLenSize = 1
    HeapSizes = {7, 14, 35, 56, 112}
INVARIANTS
    HeapBlocksDisjoint
CHECK_DEADLOCK FALSE
