SPECIFICATION Spec
CONSTANTS
    Reader = {r1}
    MaxSets = 1
    MaxAsked = 2
    MaxPackets = 2
INVARIANT NoPanic
CHECK_DEADLOCK FALSE
