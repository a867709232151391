\* A plain job and a No Fear job, each with two outputs that share a subtitle.
CONSTANTS
    a = a
    b = b
    o1 = o1
    o2 = o2
    v1 = v1
    v2 = v2
    sub = sub
    Jobs = {a, b}
    Ops = {o1, o2}
    Files = {v1, v2, sub}
    SourceOf <- MCSourceOf
    ExtrasOf <- MCExtrasOf
    NoFear <- MCNoFear
    None = None
    Foreign = Foreign
    MaxCrashes = 1
    RevertCrashes = FALSE
SPECIFICATION Spec
CHECK_DEADLOCK FALSE
INVARIANT ContentSafe
INVARIANT RemuxAccounted
PROPERTY ImplementsPublication
