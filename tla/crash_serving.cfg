SPECIFICATION Spec
CONSTANTS
    N = 4
    Nums = {2}
    Class = {c1, c2}
    NoClass = none
    Total <- TwoSlices
    MaxCrashes = 2
    DieInInit = FALSE
INVARIANTS
    HeldIsNotFree
    UsedCoversHeld
    OneListEach
    BlockIntact
PROPERTIES
    HeldSlabKeepsClass
CHECK_DEADLOCK FALSE
