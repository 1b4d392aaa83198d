SPECIFICATION FairSpec
CONSTANTS
    s1 = s1
    r1 = r1
    r2 = r2
    r3 = r3
    lead = lead
    Schedulers <- OneScheduler
    Requests <- ThreeRequests
    Leads <- OneLead
    MaxFaults = 1
INVARIANTS
    SchedulerDialsOnce
    CallbackHeldByOne
    CancelledNeverPending
    TwoPendingOnlyWhenRacing
PROPERTIES
    DueCallConcludes
CHECK_DEADLOCK FALSE
