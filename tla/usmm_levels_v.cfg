SPECIFICATION Spec
CONSTANTS
    N = 8
    Class = {1}
    NoClass = 0
    SliceSize <- OneSliceSize
    SlabSize = 7
    HeadSize = 1
    NLenSize = 1
    HeapSizes = {14}
INVARIANTS
    NeverDies
