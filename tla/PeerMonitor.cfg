SPECIFICATION LinkFairSpec
CONSTANTS
    MaxSize = 2
    SeqLimit = 2
    Overhead = 1
    PathLen = {0, 1}
    MaxPush = 1
    MaxData = 1
INVARIANTS RestsReady ReadyMeansEmpty NoTimerLeft
PROPERTIES FallsSilent AnswerArrives
CHECK_DEADLOCK FALSE
