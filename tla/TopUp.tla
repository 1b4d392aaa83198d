------------------------------- MODULE TopUp --------------------------------
(***************************************************************************)
(* Buying call credits: billing.Service.CreateCreditOrder, the browser's   *)
(* VerifyAndAddCredits requests and Razorpay's payment.captured webhook,   *)
(* which share the billing_payments row of an order.  A request reads the  *)
(* row, marks it captured, adds the credit and writes an invoice, each in  *)
(* a database call of its own; AddCredits is one atomic step here because  *)
(* CreditTx shows its transaction to be one.                               *)
(***************************************************************************)
EXTENDS Integers

CONSTANTS Orders,    \* Razorpay orders of credit top-ups
          Requests,  \* POST /api/billing/credits/verify, retries included
          Hooks,     \* deliveries of POST /api/billing/webhook
          MaxFaults  \* bound: failed database calls and crashes

ASSUME MaxFaultsAssumption == MaxFaults \in Nat

VARIABLES row,       \* billing_payments.status of the order
          paid,      \* orders the customer has paid at Razorpay
          credited,  \* purchase rows in credit_transactions, per order
          invoiced,  \* invoices, per order
          stage,     \* where each request is
          order,     \* the order each request or hook is about
          hook,      \* where each webhook delivery is
          faults,    \* faults so far
          overlapped, uncaptured, dropped, hooked \* history, see below

\* History, each a set of orders:
\*   overlapped  a request read the row while another was about to mark it
\*   uncaptured  marking the row captured failed and the request went on
\*   dropped     a request ended between its read and its credit
\*   hooked      the webhook marked the row captured
history == <<overlapped, uncaptured, dropped, hooked>>
topUpVars == <<row, paid, credited, invoiced, stage, order, hook, faults, history>>

Answered == {"verified", "refused", "crashed"}

TopUpTypeOK ==
    /\ row \in [Orders -> {"none", "missing", "created", "captured"}]
    /\ paid \subseteq Orders
    /\ credited \in [Orders -> Nat]
    /\ invoiced \in [Orders -> Nat]
    /\ stage \in [Requests -> {"unsent", "capture", "credit", "invoice"} \cup Answered]
    /\ order \in [Requests \cup Hooks -> Orders]
    /\ hook \in [Hooks -> {"unsent", "capture", "done"}]
    /\ faults \in 0 .. MaxFaults
    /\ overlapped \subseteq Orders /\ uncaptured \subseteq Orders
    /\ dropped \subseteq Orders /\ hooked \subseteq Orders

TopUpInit ==
    /\ row = [o \in Orders |-> "none"]
    /\ paid = {}
    /\ credited = [o \in Orders |-> 0]
    /\ invoiced = [o \in Orders |-> 0]
    /\ stage = [r \in Requests |-> "unsent"]
    /\ order \in [Requests \cup Hooks -> Orders]
    /\ hook = [h \in Hooks |-> "unsent"]
    /\ faults = 0
    /\ overlapped = {} /\ uncaptured = {} /\ dropped = {} /\ hooked = {}

Fault == faults < MaxFaults /\ faults' = faults + 1
Proceed(r, l) == stage' = [stage EXCEPT ![r] = l]

\* The order exists at Razorpay; a failed INSERT of its row is only logged.
CreateCreditOrder(o) ==
    /\ row[o] = "none"
    /\ \/ row' = [row EXCEPT ![o] = "created"] /\ UNCHANGED faults
       \/ row' = [row EXCEPT ![o] = "missing"] /\ Fault
    /\ UNCHANGED <<paid, credited, invoiced, stage, order, hook, history>>

\* The customer pays in Razorpay's checkout.
Pay(o) ==
    /\ row[o] # "none"
    /\ paid' = paid \cup {o}
    /\ UNCHANGED <<row, credited, invoiced, stage, order, hook, faults, history>>

-----------------------------------------------------------------------------
(* VerifyAndAddCredits. *)

\* Requests on the same order that have read "created" and not yet marked it.
Marking(o) == {r \in Requests : order[r] = o /\ stage[r] = "capture"}

\* The signature is Razorpay's, so the order is paid.  The row is read: a
\* missing row is refused, a captured one answered at once.
\* Mutants: the guard against captured payments is gone; a missing row is
\* taken for a settled one.
AlwaysProceed(s) == IF s = "missing" THEN "refused" ELSE "capture"
MissingIsSettled(s) == IF s = "created" THEN "capture" ELSE "verified"
AfterRead(s) ==
    IF s = "captured" THEN "verified" ELSE IF s = "missing" THEN "refused" ELSE "capture"
GetPayment(r) ==
    LET o == order[r] IN
    /\ stage[r] = "unsent"
    /\ o \in paid
    /\ \/ /\ Proceed(r, AfterRead(row[o]))
          /\ overlapped' = IF Marking(o) # {} /\ row[o] = "created"
                           THEN overlapped \cup {o} ELSE overlapped
          /\ UNCHANGED faults
       \/ Fault /\ Proceed(r, "refused") /\ UNCHANGED overlapped
    /\ UNCHANGED <<row, paid, credited, invoiced, order, hook,
                   uncaptured, dropped, hooked>>

\* CompleteRazorpayPayment, whose error is only logged.
Capture(r) ==
    LET o == order[r] IN
    /\ stage[r] = "capture"
    /\ \/ row' = [row EXCEPT ![o] = "captured"] /\ UNCHANGED <<faults, uncaptured>>
       \/ Fault /\ uncaptured' = uncaptured \cup {o} /\ UNCHANGED row
    /\ Proceed(r, "credit")
    /\ UNCHANGED <<paid, credited, invoiced, order, hook, overlapped, dropped, hooked>>

\* AddCredits commits, or fails and the request is refused.
AddCredits(r) ==
    LET o == order[r] IN
    /\ stage[r] = "credit"
    /\ \/ /\ credited' = [credited EXCEPT ![o] = @ + 1]
          /\ Proceed(r, "invoice")
          /\ UNCHANGED <<faults, dropped>>
       \/ /\ Fault
          /\ Proceed(r, "refused")
          /\ dropped' = dropped \cup {o}
          /\ UNCHANGED credited
    /\ UNCHANGED <<row, paid, invoiced, order, hook, overlapped, uncaptured, hooked>>

\* CreateInvoice, whose error is only logged; then the answer.
CreateInvoice(r) ==
    /\ stage[r] = "invoice"
    /\ \/ /\ invoiced' = [invoiced EXCEPT ![order[r]] = @ + 1]
          /\ UNCHANGED faults
       \/ Fault /\ UNCHANGED invoiced
    /\ Proceed(r, "verified")
    /\ UNCHANGED <<row, paid, credited, order, hook, history>>

\* The process stops while it serves the request.
Crash(r) ==
    /\ stage[r] \in {"capture", "credit", "invoice"}
    /\ Fault
    /\ Proceed(r, "crashed")
    /\ dropped' = IF stage[r] = "invoice" THEN dropped ELSE dropped \cup {order[r]}
    /\ UNCHANGED <<row, paid, credited, invoiced, order, hook,
                   overlapped, uncaptured, hooked>>

-----------------------------------------------------------------------------
(* razorpayWebhook, event payment.captured: it marks the row and leaves the *)
(* crediting to the browser's request.                                      *)

HookRead(h) ==
    /\ hook[h] = "unsent"
    /\ order[h] \in paid
    /\ hook' = [hook EXCEPT ![h] = IF row[order[h]] = "created" THEN "capture" ELSE "done"]
    /\ UNCHANGED <<row, paid, credited, invoiced, stage, order, faults, history>>

HookCapture(h) ==
    LET o == order[h] IN
    /\ hook[h] = "capture"
    /\ \/ /\ row' = [row EXCEPT ![o] = "captured"]
          /\ hooked' = hooked \cup {o}
          /\ UNCHANGED faults
       \/ Fault /\ UNCHANGED <<row, hooked>>
    /\ hook' = [hook EXCEPT ![h] = "done"]
    /\ UNCHANGED <<paid, credited, invoiced, stage, order, overlapped, uncaptured, dropped>>

RequestStep(r) == GetPayment(r) \/ Capture(r) \/ AddCredits(r) \/ CreateInvoice(r) \/ Crash(r)

TopUpNext ==
    \/ \E o \in Orders : CreateCreditOrder(o) \/ Pay(o)
    \/ \E r \in Requests : RequestStep(r)
    \/ \E h \in Hooks : HookRead(h) \/ HookCapture(h)

TopUpSpec == TopUpInit /\ [][TopUpNext]_topUpVars

-----------------------------------------------------------------------------
(* Properties. *)

\* An order is credited twice only if two verify requests overlapped between
\* their read of the payment and its capture, or the capture write failed:
\* a retry after the first answer adds nothing (VerifyAndAddCredits).
CreditedTwiceOnlyWhenRacing ==
    \A o \in Orders : credited[o] > 1 => o \in overlapped \cup uncaptured

\* A request answered "verified" whose order carries no credit owes it to the
\* webhook, to a request that ended before its credit, or to one that is still
\* about to credit (VerifyAndAddCredits).
VerifiedUncreditedOnlyWhenInterrupted ==
    \A r \in Requests :
        stage[r] = "verified" /\ credited[order[r]] = 0 =>
            \/ order[r] \in hooked \cup dropped
            \/ \E s \in Requests : order[s] = order[r] /\ stage[s] \in {"capture", "credit"}
=============================================================================
