----------------------------- MODULE MCCreditTx -----------------------------
(* CreditTx with two billings of call c1 (the finalizer runs twice), one of *)
(* a call that costs nothing, a top-up and a manual adjustment.             *)
EXTENDS CreditTx

CONSTANTS d1, d2, free, buy, adjust, c1, c2, p1, m1

MCTxs == {d1, d2, free, buy, adjust}
MCRefs == {c1, c2, p1, m1}

OpOf(t) ==
    CASE t \in {d1, d2} -> [kind |-> "call_deduction", ref |-> c1, amount |-> 2]
      [] t = free       -> [kind |-> "call_deduction", ref |-> c2, amount |-> 0]
      [] t = buy        -> [kind |-> "purchase", ref |-> p1, amount |-> 2]
      [] t = adjust     -> [kind |-> "manual_adjust", ref |-> m1, amount |-> 1]
MCOp == [t \in MCTxs |-> OpOf(t)]

MCOpening == {3}
=============================================================================
