SPECIFICATION Spec
CONSTANTS
    Source = {s1, s2, s3}
    Dest = {d1, d2}
    Sizes = {1, 2}
    Ticks = {0, 1}
    MaxPush = 4
INVARIANT SizesAgree
PROPERTY ImplementsStore
SYMMETRY Symmetry
CHECK_DEADLOCK FALSE
