SPECIFICATION FairSpec
CONSTANTS
    h = h
    f1 = f1
    f2 = f2
    u1 = u1
    u2 = u2
    Handler = h
    Forced <- TheForced
    Uploads <- TheUploads
    MaxTurns = 2
    MaxPolls = 2
    MaxFaults = 1
INVARIANTS
    TypeOK
    DuplicateRowOnlyWhenRacing
    CallIsRecorded
PROPERTIES
    ClosedCallIsKept
CHECK_DEADLOCK FALSE
