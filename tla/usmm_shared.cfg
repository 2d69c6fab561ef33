SPECIFICATION DocSpec
CONSTANTS
    N = 8
    Class = {1, 2}
    NoClass = 0
    SliceSize <- SmallSliceSize
    SlabSize = 7
    HeadSize = 1
    NLenSize = 1
    HeapSizes = {14, 42}
INVARIANTS
    TypeOK
    LevelsDisjoint
    BitmapIsHeap
    SlabPlaced
    SliceAccounts
    CountersMatch
    NullMeansFull
    NeverDies
PROPERTIES
    HeldSlabKeepsClass
    ImplementsRegionAlloc
CONSTRAINT
    FewSlicesHeld
