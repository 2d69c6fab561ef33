SPECIFICATION SizeSpec
CONSTANTS
    INT_MAX = 262143
    MaxSize = 660000
INVARIANTS
    ClassIsSmallestFit
    FreeFindsSameClass
CHECK_DEADLOCK FALSE
