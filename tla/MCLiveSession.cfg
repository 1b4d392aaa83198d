SPECIFICATION FairLiveSpec
CONSTANTS
    OutCap = 2
    EndCap = 1
    TimerCap = 1
INVARIANTS
    LiveTypeOK
    HangUpNotLost
PROPERTIES
    DoomedCallEnds
CHECK_DEADLOCK FALSE
