SPECIFICATION NetFairSpec
CONSTANTS
    Reader = {r1, r2, loop}
    Loop = loop
    User = {u1, u2}
    MaxSets = 2
    MaxAsked = 3
    MaxPackets = 2
INVARIANTS NoLostWakeup OnlyLastTimerCancels NoDoubleClose OneLoop
PROPERTIES AllSettled PassedOn CloseNoticed
CHECK_DEADLOCK FALSE
