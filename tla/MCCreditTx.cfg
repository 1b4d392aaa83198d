SPECIFICATION FairSpec
CONSTANTS
    d1 = d1
    d2 = d2
    free = free
    buy = buy
    adjust = adjust
    c1 = c1
    c2 = c2
    p1 = p1
    m1 = m1
    Txs <- MCTxs
    Refs <- MCRefs
    Op <- MCOp
    OpeningPaise <- MCOpening
INVARIANTS
    RepeatChargeOnlyWhenOverlapping
    OverdrawnOnlyWhenOverlapping
PROPERTIES
    LedgerExplainsBalance
    EveryCallReturns
