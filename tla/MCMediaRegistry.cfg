SPECIFICATION Spec
CONSTANTS
    Calls = {c1, c2}
    Manual = {c2}
    Rung = {c2}
    Named = {c1}
    Bare = {c2}
    Sim = sim
    None = none
    MaxFaults = 1
INVARIANTS
    ServedUnderOwnContext
    MuteOnlyIfUntimely
CHECK_DEADLOCK FALSE
