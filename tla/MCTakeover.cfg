SPECIFICATION FairSpec
CONSTANTS
    Managers = {m1, m2}
    Whispers = {w1, w2}
    MaxSentences = 1
    MaxFaults = 1
INVARIANTS
    TakeoverHasManager
PROPERTIES
    HintGivenOnce
    TakeoverStopsTurns
    TakeoverSilences
CHECK_DEADLOCK FALSE
