SPECIFICATION Spec
CONSTANTS
    Key = {k1, k2}
    Slot = {s1, s2}
    Text = text
    MaxNum = 0
    ItemSize <- SmallItemSize
    Conn = {r1, r2}
    RefModulus = 4
    MaxTime = 2
    Delay = {2}
    MaxVersion = 2
    EvictErased = FALSE
    None = none
INVARIANTS
    TypeOK
    RefsExact
    ReplyStable
    CacheExact
    TimerCovers
    CasSound
PROPERTY
    ImplementsItemStore
SYMMETRY
    ShardSymmetry
