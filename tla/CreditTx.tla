------------------------------ MODULE CreditTx ------------------------------
(***************************************************************************)
(* The SQL transactions of backend/internal/db/credits.go that move one    *)
(* organisation's prepaid credit, statement by statement:                  *)
(*                                                                         *)
(*   DeductCallCredits    SELECT by reference; INSERT IGNORE; SELECT       *)
(*                        balance; UPDATE relative; INSERT row; COMMIT     *)
(*   AddCredits           INSERT IGNORE; UPDATE relative; SELECT; INSERT   *)
(*                        row; COMMIT                                      *)
(*   SetOrgCreditMinutes  INSERT IGNORE; SELECT balance; UPDATE absolute;  *)
(*                        INSERT row; COMMIT                               *)
(*                                                                         *)
(* The tables are InnoDB and the connection sets no isolation level, so a  *)
(* transaction runs at REPEATABLE READ: its first plain SELECT fixes the   *)
(* snapshot all its later plain SELECTs read, INSERT IGNORE on an existing *)
(* key takes a shared lock on the org_credits row (an exclusive one when   *)
(* it inserts the row), UPDATE takes an exclusive lock and works on the    *)
(* latest committed value.  Locks are held to the end of the transaction.  *)
(***************************************************************************)
EXTENDS Integers, Sequences

CONSTANTS Txs,         \* database transactions, one per call of a method
          Refs,        \* call sids, payment ids, adjustment references
          Op,          \* what each transaction does
          OpeningPaise \* balances an organisation may start with

Kinds == {"call_deduction", "purchase", "manual_adjust"}

\* amount: the cost of the call in paise, rounded up (a deduction), the
\* paise bought (a purchase), the balance to set (a manual adjustment).
OpRecord == [kind : Kinds, ref : Refs, amount : Nat]

ASSUME OpAssumption == Op \in [Txs -> OpRecord]
ASSUME OpeningAssumption == OpeningPaise \subseteq Nat

VARIABLES created, balance, ledger,   \* committed table contents
          pc,         \* the last statement each transaction executed
          shared,     \* transactions holding the org row's S lock
          exclusive,  \* transactions holding the org row's X lock
          inserted,   \* transactions whose INSERT IGNORE added the row
          snap,       \* the REPEATABLE READ snapshot of each transaction
          pend        \* uncommitted new balance and ledger row

dbVars == <<created, balance, ledger>>
vars == <<created, balance, ledger, pc, shared, exclusive, inserted, snap, pend>>

Ledger == INSTANCE CreditLedger WITH Authors <- Txs

\* What a snapshot fixes: the committed org row and a prefix of the ledger.
Snapshot == [created : BOOLEAN, balance : Int, len : Nat]
Now == [created |-> created, balance |-> balance, len |-> Len(ledger)]

Pending == [balance : Int, row : Ledger!Row]

Active == {"begun", "checked", "ensured", "read", "updated"}
Done == {"noop", "committed", "aborted"}

NoSnap == [created |-> FALSE, balance |-> 0, len |-> 0]
NoPend(t) == [balance |-> 0,
              row |-> [by |-> t, kind |-> Op[t].kind, ref |-> Op[t].ref,
                       delta |-> 0, after |-> 0]]

TypeOK ==
    /\ Ledger!TypeOK
    /\ pc \in [Txs -> Active \cup Done]
    /\ shared \subseteq Txs
    /\ exclusive \subseteq Txs
    /\ inserted \subseteq Txs
    /\ snap \in [Txs -> Snapshot]
    /\ pend \in [Txs -> Pending]

Init ==
    /\ created \in BOOLEAN
    /\ balance \in IF created THEN OpeningPaise ELSE {0}
    /\ ledger = <<>>
    /\ pc = [t \in Txs |-> "begun"]
    /\ shared = {}
    /\ exclusive = {}
    /\ inserted = {}
    /\ snap = [t \in Txs |-> NoSnap]
    /\ pend = [t \in Txs |-> NoPend(t)]

-----------------------------------------------------------------------------
(* Locks on the org_credits row. *)

CanShare(t) == exclusive \subseteq {t}
CanExclude(t) == exclusive \subseteq {t} /\ shared \subseteq {t}

\* Mutant: an early return without the deferred Rollback keeps the lock.
LeakyRelease(t) ==
    /\ exclusive' = exclusive \ {t}
    /\ inserted' = inserted \ {t}
    /\ UNCHANGED shared
Release(t) ==
    /\ shared' = shared \ {t}
    /\ exclusive' = exclusive \ {t}
    /\ inserted' = inserted \ {t}

Goto(t, l) == pc' = [pc EXCEPT ![t] = l]

-----------------------------------------------------------------------------
(* Statements. *)

\* A deduction with this reference is visible in the first n ledger rows.
\* Mutant: the idempotency SELECT is missing.
NeverCharged(n, ref) == FALSE
ChargedIn(n, ref) ==
    \E i \in 1 .. n : ledger[i].kind = "call_deduction" /\ ledger[i].ref = ref

\* DeductCallCredits: the idempotency SELECT, which also fixes the snapshot.
CheckReference(t) ==
    /\ pc[t] = "begun"
    /\ Op[t].kind = "call_deduction"
    /\ snap' = [snap EXCEPT ![t] = Now]
    /\ Goto(t, IF ChargedIn(Len(ledger), Op[t].ref) THEN "noop" ELSE "checked")
    /\ UNCHANGED <<dbVars, shared, exclusive, inserted, pend>>

\* INSERT IGNORE INTO org_credits.
EnsureRow(t) ==
    /\ pc[t] = IF Op[t].kind = "call_deduction" THEN "checked" ELSE "begun"
    /\ \/ /\ created
          /\ CanShare(t)
          /\ shared' = shared \cup {t}
          /\ UNCHANGED <<exclusive, inserted>>
       \/ /\ ~created
          /\ CanExclude(t)
          /\ exclusive' = exclusive \cup {t}
          /\ inserted' = inserted \cup {t}
          /\ UNCHANGED shared
    /\ Goto(t, "ensured")
    /\ UNCHANGED <<dbVars, snap, pend>>

\* SELECT balance_paise: DeductCallCredits reads the snapshot it already
\* has, SetOrgCreditMinutes fixes its snapshot here.  A row somebody else
\* inserted after the snapshot is invisible: sql.ErrNoRows, rolled back.
ReadSnapshot(t) == IF Op[t].kind = "call_deduction" THEN snap[t] ELSE Now
ReadBalance(t) ==
    /\ pc[t] = "ensured"
    /\ Op[t].kind # "purchase"
    /\ snap' = [snap EXCEPT ![t] = ReadSnapshot(t)]
    /\ \/ /\ ReadSnapshot(t).created \/ t \in inserted
          /\ Goto(t, "read")
          /\ UNCHANGED <<shared, exclusive, inserted>>
       \/ /\ ~ReadSnapshot(t).created /\ t \notin inserted
          /\ Goto(t, "aborted")
          /\ Release(t)
    /\ UNCHANGED <<dbVars, pend>>

\* DeductCallCredits charges the lesser of the cost and the balance it read.
\* Mutant: the cap is missing.
FullCharge(t) == Op[t].amount
Charge(t) == IF Op[t].amount > snap[t].balance THEN snap[t].balance
                                               ELSE Op[t].amount

\* A call that costs nothing commits without a ledger row.
SkipCharge(t) ==
    /\ pc[t] = "read"
    /\ Op[t].kind = "call_deduction"
    /\ Op[t].amount = 0
    /\ created' = (created \/ t \in inserted)
    /\ Goto(t, "noop")
    /\ Release(t)
    /\ UNCHANGED <<balance, ledger, snap, pend>>

\* The ledger row's delta_paise.
Delta(t) ==
    IF Op[t].kind = "call_deduction" THEN -Charge(t)
    ELSE IF Op[t].kind = "purchase"  THEN Op[t].amount
    ELSE Op[t].amount - snap[t].balance

\* The UPDATE is relative for deductions and purchases, absolute for
\* adjustments, and works on the latest committed balance.
\* Mutant: the deduction writes the balance it computed, not a difference.
AbsoluteUpdate(t) ==
    IF Op[t].kind = "purchase" THEN balance + Delta(t) ELSE snap[t].balance + Delta(t)
NewBalance(t) ==
    IF Op[t].kind = "manual_adjust" THEN Op[t].amount ELSE balance + Delta(t)

\* The row's balance_after_paise: a deduction derives it from what it read.
BalanceAfter(t) ==
    IF Op[t].kind = "call_deduction" THEN snap[t].balance + Delta(t) ELSE NewBalance(t)

\* What a transaction's UPDATE and ledger INSERT leave uncommitted.
Effect(t) ==
    [balance |-> NewBalance(t),
     row |-> [by |-> t, kind |-> Op[t].kind, ref |-> Op[t].ref,
              delta |-> Delta(t), after |-> BalanceAfter(t)]]

\* UPDATE org_credits SET balance_paise = ..., under the exclusive lock.
UpdateBalance(t) ==
    /\ pc[t] = IF Op[t].kind = "purchase" THEN "ensured" ELSE "read"
    /\ ~(Op[t].kind = "call_deduction" /\ Op[t].amount = 0)
    /\ CanExclude(t)
    /\ exclusive' = exclusive \cup {t}
    /\ pend' = [pend EXCEPT ![t] = Effect(t)]
    /\ Goto(t, "updated")
    /\ UNCHANGED <<dbVars, shared, inserted, snap>>

\* INSERT INTO credit_transactions and COMMIT: everything becomes visible.
Commit(t) ==
    /\ pc[t] = "updated"
    /\ created' = TRUE
    /\ balance' = pend[t].balance
    /\ ledger' = Append(ledger, pend[t].row)
    /\ Goto(t, "committed")
    /\ Release(t)
    /\ UNCHANGED <<snap, pend>>

Rollback(t) ==
    /\ Goto(t, "aborted")
    /\ Release(t)
    /\ UNCHANGED <<dbVars, snap, pend>>

\* InnoDB rolls back one of two transactions that hold the shared lock and
\* both ask for the exclusive one.
WantsExclusive(t) ==
    /\ pc[t] = IF Op[t].kind = "purchase" THEN "ensured" ELSE "read"
    /\ t \in shared
DeadlockVictim(t) ==
    /\ WantsExclusive(t)
    /\ \E u \in Txs \ {t} : WantsExclusive(u)
    /\ Rollback(t)

\* A statement fails, the connection is lost or the process dies.
Fail(t) ==
    /\ pc[t] \in Active
    /\ Rollback(t)

\* GetOrgCredit, called by the dial gate and the billing page, creates a
\* missing row in an autocommitted INSERT; when another transaction has just
\* inserted it, the call waits and returns a duplicate-key error instead.
LazyCreate ==
    /\ ~created
    /\ exclusive = {}
    /\ created' = TRUE
    /\ UNCHANGED <<balance, ledger, pc, shared, exclusive, inserted, snap, pend>>

\* Every caller has its answer.
Finished ==
    /\ \A t \in Txs : pc[t] \in Done
    /\ UNCHANGED vars

Statement(t) ==
    \/ CheckReference(t) \/ EnsureRow(t) \/ ReadBalance(t)
    \/ SkipCharge(t) \/ UpdateBalance(t) \/ Commit(t)

Next ==
    \/ \E t \in Txs : Statement(t) \/ DeadlockVictim(t) \/ Fail(t)
    \/ LazyCreate
    \/ Finished

Spec == Init /\ [][Next]_vars

\* The database goes on as long as some statement can run or a deadlock has a
\* victim.
FairSpec == Spec /\ WF_vars(\E t \in Txs : Statement(t) \/ DeadlockVictim(t))

-----------------------------------------------------------------------------
(* Properties. *)

Deductions == {i \in 1 .. Len(ledger) : ledger[i].kind = "call_deduction"}

\* Row i of the ledger was not visible to the deduction that wrote row j > i:
\* the two transactions overlapped.
Overlooked(i, j) == snap[ledger[j].by].len < i /\ i < j

\* A call is billed twice only if the second transaction took its snapshot
\* before the first committed: DeductCallCredits is idempotent on the call
\* sid for calls that follow one another, whatever else runs between them.
RepeatChargeOnlyWhenOverlapping ==
    \A i, j \in Deductions :
        i < j /\ ledger[i].ref = ledger[j].ref => Overlooked(i, j)

\* The balance goes below zero only if some deduction was capped with a
\* balance that a concurrent transaction had already changed.
OverdrawnOnlyWhenOverlapping ==
    balance < 0 =>
        \E j \in Deductions : \E i \in 1 .. Len(ledger) : Overlooked(i, j)

\* The balance and the ledger never disagree: every committed balance change
\* is one ledger row of that amount, and the "balance after" of top-ups and
\* adjustments is the true one (AddCredits, SetOrgCreditMinutes).
LedgerExplainsBalance == Ledger!Spec

\* No transaction waits for ever: InnoDB's deadlock victim frees the other.
EveryCallReturns == \A t \in Txs : <>(pc[t] \in Done)
=============================================================================
