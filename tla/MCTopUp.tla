------------------------------ MODULE MCTopUp -------------------------------
(* TopUp with two orders, three verify requests and one webhook delivery.   *)
EXTENDS TopUp, TLC

CONSTANTS o1, o2, r1, r2, r3, h1

TwoOrders == {o1, o2}
ThreeRequests == {r1, r2, r3}
OneHook == {h1}

\* Requests are interchangeable, and so are orders.
TopUpSymmetry == Permutations(Requests) \cup Permutations(Orders)
=============================================================================
