---------------------------- MODULE CreditLedger ----------------------------
(***************************************************************************)
(* What the prepaid credit account of one organisation promises, whatever  *)
(* the order in which calls are billed, top-ups arrive and an operator     *)
(* adjusts the minutes: the balance moves only by appending a ledger row,  *)
(* by exactly the amount that row says, and the "balance after" column of  *)
(* a top-up or an adjustment is the true balance.                          *)
(*                                                                         *)
(* The "balance after" of a call deduction is NOT promised: the code       *)
(* computes it from a balance it read earlier (see CreditTx).              *)
(***************************************************************************)
EXTENDS Integers, Sequences

CONSTANTS Refs,     \* call sids, payment ids and adjustment references
          Authors   \* the database transactions that may write a row

VARIABLES created,  \* the org_credits row exists
          balance,  \* org_credits.balance_paise, 0 while there is no row
          ledger    \* credit_transactions, in commit order

ledgerVars == <<created, balance, ledger>>

Kinds == {"call_deduction", "purchase", "manual_adjust"}

\* One credit_transactions row.  `by` stands for the row's identity.
Row == [by : Authors, kind : Kinds, ref : Refs, delta : Int, after : Int]

TypeOK ==
    /\ created \in BOOLEAN
    /\ balance \in Int
    /\ ledger \in Seq(Row)

\* An organisation may be seen for the first time, or with credit in hand.
Init ==
    /\ created \in BOOLEAN
    /\ balance \in IF created THEN Nat ELSE {0}
    /\ ledger = <<>>

\* The org_credits row appears with a zero balance (lazy creation).
CreateRow ==
    /\ ~created
    /\ created' = TRUE
    /\ UNCHANGED <<balance, ledger>>

\* A ledger row and the balance change it accounts for, in one step.
Post(row) ==
    /\ row \in Row
    /\ row.kind # "call_deduction" => row.after = balance + row.delta
    /\ created' = TRUE
    /\ balance' = balance + row.delta
    /\ ledger' = Append(ledger, row)

\* The posted row is the one the step adds to the ledger.
Next == CreateRow \/ \E i \in DOMAIN ledger' \ DOMAIN ledger : Post(ledger'[i])

Spec == Init /\ [][Next]_ledgerVars
=============================================================================
