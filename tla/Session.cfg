SPECIFICATION RepairSpec
CONSTANTS
    Node = {a, b}
    MaxNonce = 1
    MaxKeys = 8
    MaxTime = 2
    MaxWrites = 2
    Patience = 5
CONSTRAINT FewKeys
INVARIANTS NonceUsedOnce NextIsNew Heals
SYMMETRY NodeSymmetry
CHECK_DEADLOCK FALSE
