SPECIFICATION TopUpSpec
CONSTANTS
    o1 = o1
    o2 = o2
    r1 = r1
    r2 = r2
    r3 = r3
    h1 = h1
    Orders <- TwoOrders
    Requests <- ThreeRequests
    Hooks <- OneHook
    MaxFaults = 2
INVARIANTS
    CreditedTwiceOnlyWhenRacing
    VerifiedUncreditedOnlyWhenInterrupted
SYMMETRY TopUpSymmetry
CHECK_DEADLOCK FALSE
