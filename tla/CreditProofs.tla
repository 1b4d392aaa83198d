---------------------------- MODULE CreditProofs ----------------------------
(***************************************************************************)
(* Proofs about the prepaid credit.                                        *)
(*                                                                         *)
(* CreditTx, for every set of transactions, every operation and every      *)
(* opening balance: type correctness, the lock discipline, that the SQL    *)
(* transactions implement CreditLedger, and when a call can be billed      *)
(* twice or the balance overdrawn.                                         *)
(*                                                                         *)
(* TopUp, for any number of orders, requests, webhook deliveries and       *)
(* faults: type correctness, when an order can be credited twice, and when *)
(* a request is answered "verified" without a credit.                      *)
(***************************************************************************)
EXTENDS CreditTx, TopUp, TLAPS

-----------------------------------------------------------------------------
(* Type correctness. *)

\* What an UPDATE leaves uncommitted has the type of a balance and a row.
LEMMA EffectType ==
    ASSUME TypeOK, NEW t \in Txs
    PROVE  Effect(t) \in Pending
<1>1. Op[t] \in OpRecord /\ snap[t] \in Snapshot /\ balance \in Int
  BY OpAssumption DEF TypeOK, Ledger!TypeOK
<1>2. Charge(t) \in Int
  BY <1>1 DEF OpRecord, Snapshot, Charge
<1>3. Delta(t) \in Int
  BY <1>1, <1>2 DEF OpRecord, Snapshot, Delta
<1>4. NewBalance(t) \in Int /\ BalanceAfter(t) \in Int
  BY <1>1, <1>3 DEF OpRecord, Snapshot, NewBalance, BalanceAfter
<1> QED
  BY <1>1, <1>3, <1>4
  DEF Effect, OpRecord, Pending, Ledger!Row, Kinds, Ledger!Kinds

\* Committed rows, locks, snapshots and uncommitted writes of credits.go's
\* transactions have their types in every reachable state.
THEOREM TypeCorrect == Spec => []TypeOK
<1>1. Init => TypeOK
  <2> SUFFICES ASSUME Init PROVE TypeOK
    OBVIOUS
  <2>1. \A t \in Txs : NoPend(t) \in Pending
    BY OpAssumption DEF NoPend, Pending, OpRecord, Ledger!Row, Kinds, Ledger!Kinds
  <2>2. NoSnap \in Snapshot
    BY DEF NoSnap, Snapshot
  <2> QED
    BY <2>1, <2>2, OpeningAssumption DEF Init, TypeOK, Ledger!TypeOK, Active, Done
<1>2. TypeOK /\ [Next]_vars => TypeOK'
  <2> SUFFICES ASSUME TypeOK, [Next]_vars PROVE TypeOK'
    OBVIOUS
  <2> USE DEF TypeOK, Ledger!TypeOK
  <2>0. Len(ledger) \in Nat /\ Now \in Snapshot
    BY DEF Now, Snapshot
  <2>1. ASSUME NEW t \in Txs, CheckReference(t) PROVE TypeOK'
    BY <2>0, <2>1 DEF CheckReference, Goto, dbVars, Active, Done
  <2>2. ASSUME NEW t \in Txs, EnsureRow(t) PROVE TypeOK'
    BY <2>2 DEF EnsureRow, Goto, dbVars, Active
  <2>3. ASSUME NEW t \in Txs, ReadBalance(t) PROVE TypeOK'
    <3>1. ReadSnapshot(t) \in Snapshot
      BY <2>0 DEF ReadSnapshot
    <3>2. /\ dbVars' = dbVars /\ pend' = pend
          /\ snap' = [snap EXCEPT ![t] = ReadSnapshot(t)]
          /\ \/ Goto(t, "read") /\ UNCHANGED <<shared, exclusive, inserted>>
             \/ Goto(t, "aborted") /\ Release(t)
      BY <2>3 DEF ReadBalance
    <3> QED
      BY <3>1, <3>2 DEF Goto, Release, dbVars, Active, Done
  <2>4. ASSUME NEW t \in Txs, SkipCharge(t) PROVE TypeOK'
    BY <2>4 DEF SkipCharge, Goto, Release, dbVars, Done
  <2>5. ASSUME NEW t \in Txs, UpdateBalance(t) PROVE TypeOK'
    BY <2>5, EffectType DEF UpdateBalance, Goto, dbVars, Active
  <2>6. ASSUME NEW t \in Txs, Commit(t) PROVE TypeOK'
    <3>1. pend[t].balance \in Int /\ pend[t].row \in Ledger!Row
      BY DEF Pending
    <3> QED
      BY <2>6, <3>1 DEF Commit, Goto, Release, dbVars, Done
  <2>7. ASSUME NEW t \in Txs, Rollback(t) PROVE TypeOK'
    BY <2>7 DEF Rollback, Goto, Release, dbVars, Done
  <2>8. CASE LazyCreate
    BY <2>8 DEF LazyCreate
  <2>9. CASE UNCHANGED vars
    BY <2>9 DEF vars, dbVars
  <2> QED
    BY <2>1, <2>2, <2>3, <2>4, <2>5, <2>6, <2>7, <2>8, <2>9
    DEF Next, Statement, DeadlockVictim, Fail, Finished
<1> QED
  BY <1>1, <1>2, PTL DEF Spec

-----------------------------------------------------------------------------
(* The lock discipline and the freshness it buys. *)

\* Between INSERT IGNORE and the end a transaction holds a lock on the row,
\* after UPDATE the exclusive one, and the exclusive lock excludes all others.
Locked ==
    /\ \A t \in exclusive : shared \subseteq {t} /\ exclusive \subseteq {t}
    /\ \A t \in Txs : pc[t] \in {"ensured", "read"} => t \in shared \cup exclusive
    /\ \A t \in Txs : pc[t] = "updated" => t \in exclusive
    /\ inserted \subseteq exclusive

\* Without a row there is no credit, and only an inserter holds a lock.
Absent ==
    /\ ~created => balance = 0 /\ shared = {} /\ exclusive \subseteq inserted
    /\ inserted # {} => ~created

\* The balance an adjustment read under its lock is still the balance.
AdjustmentFresh ==
    \A t \in Txs :
        pc[t] = "read" /\ Op[t].kind = "manual_adjust" => snap[t].balance = balance

\* The uncommitted write of a transaction fits the committed balance.
PendingFits ==
    \A t \in Txs : pc[t] = "updated" =>
        /\ pend[t].balance = balance + pend[t].row.delta
        /\ pend[t].row.by = t
        /\ pend[t].row.kind = Op[t].kind
        /\ pend[t].row.ref = Op[t].ref
        /\ pend[t].row.kind # "call_deduction" =>
               pend[t].row.after = pend[t].balance

LockInv == Locked /\ Absent /\ AdjustmentFresh /\ PendingFits

\* A deduction's uncommitted row also fits; see PendingFits.
LEMMA EffectFits ==
    ASSUME TypeOK, NEW t \in Txs,
           Op[t].kind = "manual_adjust" => snap[t].balance = balance
    PROVE  /\ Effect(t).balance = balance + Effect(t).row.delta
           /\ Effect(t).row.by = t
           /\ Effect(t).row.kind = Op[t].kind
           /\ Effect(t).row.ref = Op[t].ref
           /\ Effect(t).row.kind # "call_deduction" =>
                  Effect(t).row.after = Effect(t).balance
<1>1. Op[t] \in OpRecord /\ snap[t] \in Snapshot /\ balance \in Int
  BY OpAssumption DEF TypeOK, Ledger!TypeOK
<1>2. CASE Op[t].kind = "manual_adjust"
  BY <1>1, <1>2 DEF Effect, NewBalance, BalanceAfter, Delta, OpRecord
<1>3. CASE Op[t].kind # "manual_adjust"
  BY <1>1, <1>3 DEF Effect, NewBalance, BalanceAfter
<1> QED
  BY <1>2, <1>3

\* Locks on the org_credits row are exclusive, and what an adjustment read
\* under its lock stays true until it commits.
THEOREM LockInvariant == Spec => []LockInv
<1>1. Init => LockInv
  <2> SUFFICES ASSUME Init PROVE LockInv
    OBVIOUS
  <2>1. created \/ balance = 0
    BY DEF Init
  <2> QED
    BY <2>1 DEF Init, LockInv, Locked, Absent, AdjustmentFresh, PendingFits
<1>2. TypeOK /\ TypeOK' /\ LockInv /\ [Next]_vars => LockInv'
  <2> SUFFICES ASSUME TypeOK, TypeOK', LockInv, [Next]_vars PROVE LockInv'
    OBVIOUS
  <2> USE DEF LockInv, Locked, Absent, AdjustmentFresh, PendingFits
  <2>t. pc \in [Txs -> Active \cup Done] /\ snap \in [Txs -> Snapshot]
        /\ pend \in [Txs -> Pending] /\ balance \in Int
        /\ shared \subseteq Txs /\ exclusive \subseteq Txs /\ inserted \subseteq Txs
    BY DEF TypeOK, Ledger!TypeOK
  <2>1. ASSUME NEW t \in Txs, CheckReference(t) PROVE LockInv'
    BY <2>t, <2>1 DEF CheckReference, Goto, dbVars
  <2>2. ASSUME NEW t \in Txs, EnsureRow(t) PROVE LockInv'
    <3>1. CASE created /\ CanShare(t) /\ shared' = shared \cup {t}
               /\ UNCHANGED <<exclusive, inserted>>
      BY <2>t, <2>2, <3>1 DEF EnsureRow, CanShare, Goto, dbVars
    <3>2. CASE ~created /\ CanExclude(t) /\ exclusive' = exclusive \cup {t}
               /\ inserted' = inserted \cup {t} /\ UNCHANGED shared
      BY <2>t, <2>2, <3>2 DEF EnsureRow, CanExclude, Goto, dbVars
    <3> QED
      BY <2>2, <3>1, <3>2 DEF EnsureRow
  <2>3. ASSUME NEW t \in Txs, ReadBalance(t) PROVE LockInv'
    <3>1. CASE Goto(t, "read") /\ UNCHANGED <<shared, exclusive, inserted>>
      BY <2>t, <2>3, <3>1 DEF ReadBalance, ReadSnapshot, Now, Goto, dbVars
    <3>2. CASE Goto(t, "aborted") /\ Release(t)
      BY <2>t, <2>3, <3>2 DEF ReadBalance, Release, Goto, dbVars
    <3> QED
      BY <2>3, <3>1, <3>2 DEF ReadBalance
  <2>4. ASSUME NEW t \in Txs, SkipCharge(t) PROVE LockInv'
    BY <2>t, <2>4 DEF SkipCharge, Release, Goto
  <2>5. ASSUME NEW t \in Txs, UpdateBalance(t) PROVE LockInv'
    <3>1. Op[t].kind = "manual_adjust" => snap[t].balance = balance
      BY <2>5 DEF UpdateBalance
    <3>2. pend' = [pend EXCEPT ![t] = Effect(t)]
      BY <2>5 DEF UpdateBalance
    <3>3. PendingFits'
      BY <2>t, <2>5, <3>1, <3>2, EffectFits DEF UpdateBalance, Goto, dbVars
    <3> QED
      BY <2>t, <2>5, <3>3 DEF UpdateBalance, CanExclude, Goto, dbVars
  <2>6. ASSUME NEW t \in Txs, Commit(t) PROVE LockInv'
    <3>1. t \in exclusive
      BY <2>6 DEF Commit
    <3>2. \A u \in Txs \ {t} : pc[u] \notin {"ensured", "read", "updated"}
      BY <3>1
    <3> QED
      BY <2>t, <2>6, <3>1, <3>2 DEF Commit, Release, Goto
  <2>7. ASSUME NEW t \in Txs, Rollback(t) PROVE LockInv'
    BY <2>t, <2>7 DEF Rollback, Release, Goto, dbVars
  <2>8. CASE LazyCreate
    BY <2>t, <2>8 DEF LazyCreate
  <2>9. CASE UNCHANGED vars
    BY <2>9 DEF vars, dbVars
  <2> QED
    BY <2>1, <2>2, <2>3, <2>4, <2>5, <2>6, <2>7, <2>8, <2>9
    DEF Next, Statement, DeadlockVictim, Fail, Finished
<1> QED
  BY <1>1, <1>2, TypeCorrect, PTL DEF Spec

-----------------------------------------------------------------------------
(* The transactions implement the abstract account. *)

\* Every step of the SQL transactions is a step of CreditLedger or leaves the
\* committed tables alone: the balance and the ledger never disagree.
THEOREM ImplementsLedger == Spec => LedgerExplainsBalance
<1>1. Init => Ledger!Init
  BY OpeningAssumption DEF Init, Ledger!Init
<1>2. TypeOK /\ LockInv /\ [Next]_vars => [Ledger!Next]_(Ledger!ledgerVars)
  <2> SUFFICES ASSUME TypeOK, LockInv, [Next]_vars
               PROVE  Ledger!Next \/ UNCHANGED Ledger!ledgerVars
    OBVIOUS
  <2> USE DEF Ledger!ledgerVars, dbVars
  <2>1. ASSUME NEW t \in Txs, SkipCharge(t)
        PROVE  Ledger!Next \/ UNCHANGED Ledger!ledgerVars
    BY <2>1 DEF SkipCharge, Ledger!Next, Ledger!CreateRow, TypeOK, Ledger!TypeOK
  <2>2. ASSUME NEW t \in Txs, Commit(t) PROVE Ledger!Next
    <3>1. pend[t].row \in Ledger!Row /\ ledger \in Seq(Ledger!Row)
      BY DEF TypeOK, Ledger!TypeOK, Pending
    <3>2. Ledger!Post(pend[t].row)
      BY <2>2, <3>1 DEF Commit, Ledger!Post, LockInv, PendingFits
    <3>3. Len(ledger) + 1 \in DOMAIN ledger' \ DOMAIN ledger
          /\ ledger'[Len(ledger) + 1] = pend[t].row
      BY <2>2, <3>1 DEF Commit
    <3> QED
      BY <3>2, <3>3 DEF Ledger!Next
  <2>3. CASE LazyCreate
    BY <2>3 DEF LazyCreate, Ledger!Next, Ledger!CreateRow
  <2>4. ASSUME NEW t \in Txs,
               CheckReference(t) \/ EnsureRow(t) \/ ReadBalance(t)
               \/ UpdateBalance(t) \/ Rollback(t)
        PROVE  UNCHANGED Ledger!ledgerVars
    BY <2>4 DEF CheckReference, EnsureRow, ReadBalance, UpdateBalance, Rollback
  <2>5. CASE UNCHANGED vars
    BY <2>5 DEF vars
  <2> QED
    BY <2>1, <2>2, <2>3, <2>4, <2>5
    DEF Next, Statement, DeadlockVictim, Fail, Finished
<1> QED
  BY <1>1, <1>2, TypeCorrect, LockInvariant, PTL
  DEF Spec, LedgerExplainsBalance, Ledger!Spec

-----------------------------------------------------------------------------
(* When a call can be billed twice, and when the balance can be overdrawn. *)

ChargedRow(i, ref) ==
    ledger[i].kind = "call_deduction" /\ ledger[i].ref = ref

\* No deduction of the reference is in the prefix the transaction saw.
SawNone(t) ==
    /\ snap[t].len \in 0 .. Len(ledger)
    /\ \A i \in 1 .. snap[t].len : ~ChargedRow(i, Op[t].ref)

InFlight == {"checked", "ensured", "read", "updated"}

RowChecked(j) ==
    LET t == ledger[j].by IN
    /\ pc[t] = "committed"
    /\ Op[t].kind = "call_deduction"
    /\ ledger[j].ref = Op[t].ref
    /\ SawNone(t)

\* A deduction that passed the idempotency check saw no earlier one, and the
\* row it committed carries its reference and keeps its snapshot.
CheckedFirst ==
    /\ \A t \in Txs : Op[t].kind = "call_deduction" /\ pc[t] \in InFlight => SawNone(t)
    /\ \A j \in Deductions : RowChecked(j)

Stale == \E j \in Deductions : \E i \in 1 .. Len(ledger) : Overlooked(i, j)

\* A deduction whose snapshot is current read the current balance, so what it
\* is about to leave is not negative.
CappedWhenFresh ==
    /\ \A t \in Txs : Op[t].kind = "call_deduction" /\ pc[t] \in InFlight =>
           (snap[t].len = Len(ledger) => snap[t].balance = balance)
    /\ \A t \in Txs : pc[t] = "updated" =>
           \/ pend[t].balance >= 0
           \/ Op[t].kind = "call_deduction" /\ snap[t].len < Len(ledger)
           \/ Stale
    /\ balance >= 0 \/ Stale

BillingInv == CheckedFirst /\ CappedWhenFresh

\* The ledger only grows, so what was overlooked stays overlooked and what a
\* snapshot contains does not change.
LEMMA PrefixStable ==
    ASSUME TypeOK, NEW post \in Ledger!Row, ledger' = Append(ledger, post)
    PROVE  /\ Len(ledger') = Len(ledger) + 1
           /\ ledger'[Len(ledger) + 1] = post
           /\ \A i \in 1 .. Len(ledger) : ledger'[i] = ledger[i]
  BY DEF TypeOK, Ledger!TypeOK

\* See BillingInv.
THEOREM BillingInvariant == Spec => []BillingInv
<1>1. Init => BillingInv
  <2> SUFFICES ASSUME Init PROVE BillingInv
    OBVIOUS
  <2>1. balance >= 0 /\ Deductions = {}
    BY OpeningAssumption DEF Init, Deductions
  <2> QED
    BY <2>1 DEF Init, BillingInv, CheckedFirst, CappedWhenFresh, InFlight
<1>2. TypeOK /\ TypeOK' /\ LockInv /\ BillingInv /\ [Next]_vars => BillingInv'
  <2> SUFFICES ASSUME TypeOK, TypeOK', LockInv, BillingInv, [Next]_vars
               PROVE  BillingInv'
    OBVIOUS
  <2>t. pc \in [Txs -> Active \cup Done] /\ snap \in [Txs -> Snapshot]
        /\ pend \in [Txs -> Pending] /\ balance \in Int
        /\ ledger \in Seq(Ledger!Row) /\ Len(ledger) \in Nat
        /\ Op \in [Txs -> OpRecord]
    BY OpAssumption DEF TypeOK, Ledger!TypeOK
  <2>b. \A j \in Deductions : ledger[j].by \in Txs
    <3>1. \A j \in 1 .. Len(ledger) : ledger[j] \in Ledger!Row
      BY <2>t
    <3> QED
      BY <3>1 DEF Deductions, Ledger!Row
  <2> USE DEF BillingInv, CheckedFirst, CappedWhenFresh, RowChecked, SawNone,
             ChargedRow, InFlight
  <2>1. ASSUME NEW t \in Txs, CheckReference(t) PROVE BillingInv'
    <3>1. /\ snap' = [snap EXCEPT ![t] = Now]
          /\ pc' = [pc EXCEPT ![t] = IF ChargedIn(Len(ledger), Op[t].ref)
                                      THEN "noop" ELSE "checked"]
          /\ pc[t] = "begun"
          /\ ledger' = ledger /\ balance' = balance /\ pend' = pend
      BY <2>1 DEF CheckReference, Goto, dbVars
    <3>2. \A j \in Deductions : ledger[j].by # t
      BY <3>1
    <3>3. Deductions' = Deductions
      BY <3>1 DEF Deductions
    <3>4. Stale => Stale'
      BY <2>t, <2>b, <3>1, <3>2, <3>3 DEF Stale, Overlooked
    <3>5. CheckedFirst'
      BY <2>t, <2>b, <3>1, <3>2, <3>3 DEF ChargedIn, Now
    <3> QED
      BY <2>t, <3>1, <3>4, <3>5 DEF Now
  <2>2. ASSUME NEW t \in Txs, EnsureRow(t) PROVE BillingInv'
    BY <2>t, <2>b, <2>2 DEF EnsureRow, Goto, dbVars, Deductions, Stale, Overlooked
  <2>3. ASSUME NEW t \in Txs, ReadBalance(t) PROVE BillingInv'
    <3>1. /\ snap' = [snap EXCEPT ![t] = ReadSnapshot(t)]
          /\ pc' = [pc EXCEPT ![t] = "read"] \/ pc' = [pc EXCEPT ![t] = "aborted"]
          /\ pc[t] = "ensured"
          /\ ledger' = ledger /\ balance' = balance /\ pend' = pend
      BY <2>3 DEF ReadBalance, Goto, dbVars
    <3>2. \A u \in Txs : Op[u].kind = "call_deduction" => snap'[u] = snap[u]
      BY <2>t, <3>1 DEF ReadSnapshot
    <3>3. \A j \in Deductions : snap'[ledger[j].by] = snap[ledger[j].by]
      BY <2>b, <3>2
    <3>4. Deductions' = Deductions
      BY <3>1 DEF Deductions
    <3>5. Stale => Stale'
      BY <3>1, <3>3, <3>4 DEF Stale, Overlooked
    <3>6. CheckedFirst'
      BY <2>t, <2>b, <3>1, <3>2, <3>3, <3>4
    <3> QED
      BY <2>t, <3>1, <3>2, <3>5, <3>6
  <2>4. ASSUME NEW t \in Txs, SkipCharge(t) PROVE BillingInv'
    BY <2>t, <2>b, <2>4 DEF SkipCharge, Goto, Deductions, Stale, Overlooked
  <2>5. ASSUME NEW t \in Txs, UpdateBalance(t) PROVE BillingInv'
    <3>1. /\ pend' = [pend EXCEPT ![t] = Effect(t)]
          /\ pc' = [pc EXCEPT ![t] = "updated"]
          /\ pc[t] = IF Op[t].kind = "purchase" THEN "ensured" ELSE "read"
          /\ ledger' = ledger /\ balance' = balance /\ snap' = snap
      BY <2>5 DEF UpdateBalance, Goto, dbVars
    <3>2. Deductions' = Deductions /\ (Stale' <=> Stale)
      BY <3>1 DEF Deductions, Stale, Overlooked
    <3>3. CheckedFirst'
      BY <2>t, <2>b, <3>1, <3>2
    <3>4. Effect(t).balance = NewBalance(t)
      BY DEF Effect
    <3>5. \/ Effect(t).balance >= 0
          \/ Op[t].kind = "call_deduction" /\ snap[t].len < Len(ledger)
          \/ Stale
      <4>1. Op[t] \in OpRecord /\ snap[t] \in Snapshot
        BY <2>t
      <4>2. CASE Op[t].kind = "call_deduction"
        <5>1. snap[t].len \in 0 .. Len(ledger) /\ pc[t] = "read"
          BY <3>1, <4>2
        <5>2. CASE snap[t].len < Len(ledger)
          BY <4>2, <5>2
        <5>3. CASE snap[t].len = Len(ledger)
          <6>1. snap[t].balance = balance
            BY <4>2, <5>1, <5>3
          <6>2. balance >= 0 => balance - Charge(t) >= 0
            BY <2>t, <4>1, <6>1 DEF Charge, OpRecord
          <6>3. NewBalance(t) = balance - Charge(t)
            BY <2>t, <4>1, <4>2, <6>1 DEF NewBalance, Delta, Charge, OpRecord
          <6> QED
            BY <3>4, <6>2, <6>3
        <5> QED
          BY <2>t, <5>1, <5>2, <5>3
      <4>3. CASE Op[t].kind = "purchase"
        BY <2>t, <3>4, <4>1, <4>3 DEF NewBalance, Delta, OpRecord
      <4>4. CASE Op[t].kind = "manual_adjust"
        BY <3>4, <4>1, <4>4 DEF NewBalance, OpRecord
      <4> QED
        BY <4>1, <4>2, <4>3, <4>4 DEF OpRecord, Kinds
    <3> QED
      BY <2>t, <3>1, <3>2, <3>3, <3>5
  <2>6. ASSUME NEW t \in Txs, Commit(t) PROVE BillingInv'
    <3>1. /\ ledger' = Append(ledger, pend[t].row)
          /\ balance' = pend[t].balance
          /\ pc' = [pc EXCEPT ![t] = "committed"]
          /\ pc[t] = "updated" /\ snap' = snap /\ pend' = pend
      BY <2>6 DEF Commit, Goto
    <3>2. pend[t].row \in Ledger!Row
      BY <2>t DEF Pending
    <3>3. /\ Len(ledger') = Len(ledger) + 1
          /\ ledger'[Len(ledger) + 1] = pend[t].row
          /\ \A i \in 1 .. Len(ledger) : ledger'[i] = ledger[i]
      BY <3>1, <3>2, PrefixStable
    <3>4. pend[t].row.by = t /\ pend[t].row.kind = Op[t].kind
          /\ pend[t].row.ref = Op[t].ref
      BY <3>1 DEF LockInv, PendingFits
    <3>5. \A u \in Txs \ {t} : pc[u] \notin {"ensured", "read", "updated"}
      BY <3>1 DEF LockInv, Locked
    <3>6. \A j \in Deductions' : j \in Deductions
               \/ (j = Len(ledger) + 1 /\ Op[t].kind = "call_deduction")
      BY <2>t, <3>3, <3>4 DEF Deductions
    <3>7. Stale => Stale'
      BY <2>t, <3>1, <3>3 DEF Stale, Overlooked, Deductions
    <3>8. \A u \in Txs : SawNone(u) => SawNone(u)'
      BY <2>t, <3>1, <3>3
    <3>9. CheckedFirst'
      <4>1. \A u \in Txs : Op[u].kind = "call_deduction" /\ pc'[u] \in InFlight
                           => SawNone(u)'
        BY <2>t, <3>1, <3>8
      <4>2. ASSUME NEW j \in Deductions'
            PROVE  RowChecked(j)'
        <5>1. CASE j \in Deductions
          <6>1. ledger'[j] = ledger[j] /\ ledger[j].by \in Txs
            BY <2>b, <3>3, <5>1 DEF Deductions
          <6> QED
            BY <2>t, <3>1, <3>8, <5>1, <6>1
        <5>2. CASE j = Len(ledger) + 1 /\ Op[t].kind = "call_deduction"
          BY <2>t, <3>1, <3>3, <3>4, <3>8, <5>2
        <5> QED
          BY <3>6, <5>1, <5>2
      <4> QED
        BY <4>1, <4>2
    <3>10. balance' >= 0 \/ Stale'
      <4>1. CASE Op[t].kind = "call_deduction" /\ snap[t].len < Len(ledger)
        <5>1. Len(ledger) + 1 \in Deductions' /\ Len(ledger) \in 1 .. Len(ledger')
              /\ ledger'[Len(ledger) + 1].by = t
          BY <2>t, <3>3, <3>4, <4>1 DEF Deductions, Snapshot
        <5>2. snap'[ledger'[Len(ledger) + 1].by].len < Len(ledger)
          BY <3>1, <4>1, <5>1
        <5> QED
          BY <2>t, <5>1, <5>2 DEF Stale, Overlooked
      <4> QED
        BY <3>1, <3>7, <4>1
    <3>11. \A u \in Txs : Op[u].kind = "call_deduction" /\ pc'[u] \in InFlight
                          => snap'[u].len # Len(ledger')
      BY <2>t, <3>1, <3>3
    <3>12. \A u \in Txs : pc'[u] # "updated"
      BY <2>t, <3>1, <3>5
    <3> QED
      BY <3>9, <3>10, <3>11, <3>12
  <2>7. ASSUME NEW t \in Txs, pc[t] \in Active, Rollback(t) PROVE BillingInv'
    <3>1. \A j \in Deductions : ledger[j].by # t
      BY <2>7 DEF Active
    <3>2. /\ pc' = [pc EXCEPT ![t] = "aborted"]
          /\ ledger' = ledger /\ balance' = balance /\ snap' = snap /\ pend' = pend
      BY <2>7 DEF Rollback, Goto, dbVars
    <3>3. Deductions' = Deductions /\ (Stale' <=> Stale)
      BY <3>2 DEF Deductions, Stale, Overlooked
    <3>4. CheckedFirst'
      BY <2>t, <2>b, <3>1, <3>2, <3>3
    <3> QED
      BY <2>t, <3>2, <3>3, <3>4
  <2>8. CASE LazyCreate
    BY <2>t, <2>8 DEF LazyCreate, Deductions, Stale, Overlooked
  <2>9. CASE UNCHANGED vars
    BY <2>t, <2>9 DEF vars, dbVars, Deductions, Stale, Overlooked
  <2>10. \A t \in Txs : WantsExclusive(t) => pc[t] \in Active
    BY DEF WantsExclusive, Active
  <2> QED
    BY <2>1, <2>2, <2>3, <2>4, <2>5, <2>6, <2>7, <2>8, <2>9, <2>10
    DEF Next, Statement, DeadlockVictim, Fail, Finished
<1> QED
  BY <1>1, <1>2, TypeCorrect, LockInvariant, PTL DEF Spec

\* DeductCallCredits bills a call twice only from overlapping transactions.
THEOREM BilledTwiceOnlyWhenOverlapping == Spec => []RepeatChargeOnlyWhenOverlapping
<1>1. TypeOK /\ BillingInv => RepeatChargeOnlyWhenOverlapping
  <2> SUFFICES ASSUME TypeOK, BillingInv,
                      NEW i \in Deductions, NEW j \in Deductions,
                      i < j, ledger[i].ref = ledger[j].ref
               PROVE  Overlooked(i, j)
    BY DEF RepeatChargeOnlyWhenOverlapping
  <2>1. SawNone(ledger[j].by) /\ ledger[j].ref = Op[ledger[j].by].ref
    BY DEF BillingInv, CheckedFirst, RowChecked
  <2>2. ChargedRow(i, Op[ledger[j].by].ref) /\ i \in 1 .. Len(ledger)
    BY <2>1 DEF Deductions, ChargedRow
  <2>3. snap[ledger[j].by].len \in Nat
    BY <2>1 DEF SawNone, TypeOK, Ledger!TypeOK
  <2> QED
    BY <2>1, <2>2, <2>3 DEF SawNone, Overlooked
<1> QED
  BY <1>1, TypeCorrect, BillingInvariant, PTL

\* The balance is negative only after a deduction capped by a stale balance.
THEOREM OverdrawnOnlyWhenStale == Spec => []OverdrawnOnlyWhenOverlapping
<1>1. TypeOK /\ BillingInv => OverdrawnOnlyWhenOverlapping
  BY DEF TypeOK, Ledger!TypeOK, BillingInv, CappedWhenFresh, Stale,
         OverdrawnOnlyWhenOverlapping
<1> QED
  BY <1>1, TypeCorrect, BillingInvariant, PTL

-----------------------------------------------------------------------------
(* TopUp. *)

\* Payment rows, credits and the progress of requests and webhook deliveries
\* have their types in every reachable state.
THEOREM TopUpTypeCorrect == TopUpSpec => []TopUpTypeOK
<1>1. TopUpInit => TopUpTypeOK
  BY MaxFaultsAssumption DEF TopUpInit, TopUpTypeOK
<1>2. TopUpTypeOK /\ [TopUpNext]_topUpVars => TopUpTypeOK'
  <2> SUFFICES ASSUME TopUpTypeOK, [TopUpNext]_topUpVars PROVE TopUpTypeOK'
    OBVIOUS
  <2> USE DEF TopUpTypeOK, Proceed, history, Answered
  <2>f. Fault => faults' \in 0 .. MaxFaults
    BY MaxFaultsAssumption DEF Fault
  <2>1. ASSUME NEW o \in Orders, CreateCreditOrder(o) PROVE TopUpTypeOK'
    BY <2>1, <2>f DEF CreateCreditOrder
  <2>2. ASSUME NEW o \in Orders, Pay(o) PROVE TopUpTypeOK'
    BY <2>2 DEF Pay
  <2>3. ASSUME NEW r \in Requests, GetPayment(r) PROVE TopUpTypeOK'
    <3>1. order[r] \in Orders
      OBVIOUS
    <3> QED
      BY <2>3, <2>f, <3>1 DEF GetPayment, AfterRead
  <2>4. ASSUME NEW r \in Requests, Capture(r) PROVE TopUpTypeOK'
    BY <2>4, <2>f DEF Capture
  <2>5. ASSUME NEW r \in Requests, AddCredits(r) PROVE TopUpTypeOK'
    BY <2>5, <2>f DEF AddCredits
  <2>6. ASSUME NEW r \in Requests, CreateInvoice(r) PROVE TopUpTypeOK'
    BY <2>6, <2>f DEF CreateInvoice
  <2>7. ASSUME NEW r \in Requests, Crash(r) PROVE TopUpTypeOK'
    BY <2>7, <2>f DEF Crash
  <2>8. ASSUME NEW h \in Hooks, HookRead(h) PROVE TopUpTypeOK'
    BY <2>8 DEF HookRead
  <2>9. ASSUME NEW h \in Hooks, HookCapture(h) PROVE TopUpTypeOK'
    BY <2>9, <2>f DEF HookCapture
  <2>10. CASE UNCHANGED topUpVars
    BY <2>10 DEF topUpVars
  <2> QED
    BY <2>1, <2>2, <2>3, <2>4, <2>5, <2>6, <2>7, <2>8, <2>9, <2>10
    DEF TopUpNext, RequestStep
<1> QED
  BY <1>1, <1>2, PTL DEF TopUpSpec

-----------------------------------------------------------------------------

Raced == overlapped \cup uncaptured
Committing == {"capture", "credit"}

\* What holds of an order on which nothing raced: it exists when it is paid; a
\* request that is about to credit, and a credit, come with a captured row; at
\* most one request is between its read and its credit; and none is once the
\* order has its credit.
Unraced(o) ==
    /\ o \in paid => row[o] # "none"
    /\ credited[o] > 0 => row[o] = "captured"
    /\ \A r \in Requests : order[r] = o /\ stage[r] = "credit" => row[o] = "captured"
    /\ \A r, s \in Requests :
           order[r] = o /\ order[s] = o /\ stage[r] \in Committing /\ stage[s] \in Committing
           => r = s
    /\ credited[o] > 0 => \A r \in Requests : order[r] = o => stage[r] \notin Committing
    /\ credited[o] <= 1

CreditInv == \A o \in Orders : o \in Raced \/ Unraced(o)

\* VerifyAndAddCredits credits an order twice only when two requests overlapped
\* before the capture, or the capture write failed.
THEOREM CreditedTwiceOnlyWhenRaced == TopUpSpec => []CreditedTwiceOnlyWhenRacing
<1>1. TopUpInit => CreditInv
  <2> SUFFICES ASSUME TopUpInit, NEW o \in Orders PROVE Unraced(o)
    BY DEF CreditInv
  <2>1. credited[o] = 0 /\ paid = {} /\ \A r \in Requests : stage[r] = "unsent"
    BY DEF TopUpInit
  <2> QED
    BY <2>1 DEF Unraced, Committing
<1>2. TopUpTypeOK /\ CreditInv /\ [TopUpNext]_topUpVars => CreditInv'
  <2> SUFFICES ASSUME TopUpTypeOK, CreditInv, [TopUpNext]_topUpVars, NEW o \in Orders, o \notin Raced'
               PROVE  Unraced(o)'
    BY DEF CreditInv
  <2>t. /\ row \in [Orders -> {"none", "missing", "created", "captured"}]
        /\ credited \in [Orders -> Nat]
        /\ order \in [Requests \cup Hooks -> Orders]
        /\ stage \in [Requests -> {"unsent", "capture", "credit", "invoice"} \cup Answered]
    BY DEF TopUpTypeOK
  <2>h. o \in Raced => o \in Raced'
    BY DEF TopUpNext, RequestStep, CreateCreditOrder, Pay, GetPayment, Capture, AddCredits,
           CreateInvoice, Crash, HookRead, HookCapture, history, topUpVars, Raced
  <2>u. Unraced(o)
    BY <2>h DEF CreditInv
  <2> USE DEF Unraced, Committing, Proceed
  <2>1. ASSUME NEW p \in Orders, CreateCreditOrder(p) PROVE Unraced(o)'
    BY <2>t, <2>u, <2>1 DEF CreateCreditOrder
  <2>2. ASSUME NEW p \in Orders, Pay(p) PROVE Unraced(o)'
    BY <2>u, <2>2 DEF Pay
  <2>3. ASSUME NEW r \in Requests, GetPayment(r) PROVE Unraced(o)'
    <3>1. CASE order[r] = o /\ stage'[r] = "capture"
      <4>1. row[o] = "created" /\ Marking(o) = {} /\ stage[r] = "unsent"
        <5>1. /\ stage[r] = "unsent"
              /\ Proceed(r, AfterRead(row[o]))
              /\ overlapped' = IF Marking(o) # {} /\ row[o] = "created"
                               THEN overlapped \cup {o} ELSE overlapped
          BY <2>t, <2>3, <3>1 DEF GetPayment
        <5>2. AfterRead(row[o]) = "capture"
          BY <2>t, <3>1, <5>1
        <5>3. row[o] = "created"
          BY <2>t, <2>u, <2>3, <3>1, <5>2 DEF AfterRead, GetPayment
        <5>4. o \notin overlapped'
          BY DEF Raced
        <5> QED
          BY <5>1, <5>3, <5>4
      <4>2. \A s \in Requests : order[s] = o => stage[s] \notin Committing
        BY <2>u, <4>1 DEF Marking
      <4> QED
        BY <2>t, <2>u, <2>3, <3>1, <4>1, <4>2 DEF GetPayment
    <3>2. CASE order[r] # o \/ stage'[r] # "capture"
      <4>1. stage'[r] # "credit" /\ \A s \in Requests \ {r} : stage'[s] = stage[s]
        BY <2>t, <2>3 DEF GetPayment, AfterRead
      <4> QED
        BY <2>t, <2>u, <2>3, <3>2, <4>1 DEF GetPayment
    <3> QED
      BY <3>1, <3>2
  <2>4. ASSUME NEW r \in Requests, Capture(r) PROVE Unraced(o)'
    BY <2>t, <2>u, <2>4 DEF Capture, Raced
  <2>5. ASSUME NEW r \in Requests, AddCredits(r) PROVE Unraced(o)'
    <3>1. CASE order[r] = o /\ credited' = [credited EXCEPT ![o] = @ + 1]
                            /\ stage' = [stage EXCEPT ![r] = "invoice"]
      <4>1. credited[o] = 0
        BY <2>t, <2>u, <2>5, <3>1 DEF AddCredits
      <4>2. row[o] = "captured"
            /\ \A s \in Requests \ {r} : order[s] = o => stage[s] \notin Committing
        BY <2>u, <2>5, <3>1 DEF AddCredits
      <4> QED
        BY <2>t, <2>u, <2>5, <3>1, <4>1, <4>2 DEF AddCredits
    <3>2. CASE order[r] # o \/ credited' = credited
      BY <2>t, <2>u, <2>5, <3>2 DEF AddCredits
    <3> QED
      BY <2>5, <3>1, <3>2 DEF AddCredits
  <2>6. ASSUME NEW r \in Requests, CreateInvoice(r) PROVE Unraced(o)'
    BY <2>t, <2>u, <2>6 DEF CreateInvoice
  <2>7. ASSUME NEW r \in Requests, Crash(r) PROVE Unraced(o)'
    BY <2>t, <2>u, <2>7 DEF Crash
  <2>8. ASSUME NEW h \in Hooks, HookRead(h) PROVE Unraced(o)'
    BY <2>u, <2>8 DEF HookRead
  <2>9. ASSUME NEW h \in Hooks, HookCapture(h) PROVE Unraced(o)'
    BY <2>t, <2>u, <2>9 DEF HookCapture
  <2>10. CASE UNCHANGED topUpVars
    BY <2>u, <2>10 DEF topUpVars
  <2> QED
    BY <2>1, <2>2, <2>3, <2>4, <2>5, <2>6, <2>7, <2>8, <2>9, <2>10
    DEF TopUpNext, RequestStep
<1>3. TopUpTypeOK /\ CreditInv => CreditedTwiceOnlyWhenRacing
  BY DEF TopUpTypeOK, CreditInv, Unraced, Raced, CreditedTwiceOnlyWhenRacing
<1> QED
  BY <1>1, <1>2, <1>3, TopUpTypeCorrect, PTL DEF TopUpSpec

-----------------------------------------------------------------------------

\* The order was marked by the webhook, abandoned by a request, or is still
\* being credited by one.
Excused(o) ==
    \/ o \in hooked \cup dropped
    \/ \E r \in Requests : order[r] = o /\ stage[r] \in Committing

\* A captured row without a credit is excused, and so is a request that was
\* answered "verified"; an invoice follows its credit.
OwedInv ==
    /\ \A o \in Orders : row[o] = "captured" /\ credited[o] = 0 => Excused(o)
    /\ \A r \in Requests : stage[r] = "verified" /\ credited[order[r]] = 0 => Excused(order[r])
    /\ \A r \in Requests : stage[r] = "invoice" => credited[order[r]] # 0

\* A customer is told "verified" without a credit only for an order of which
\* the webhook, an interrupted request or one under way is the cause.
THEOREM UncreditedOnlyWhenInterrupted == TopUpSpec => []VerifiedUncreditedOnlyWhenInterrupted
<1>1. TopUpInit => OwedInv
  BY DEF TopUpInit, OwedInv
<1>2. TopUpTypeOK /\ OwedInv /\ [TopUpNext]_topUpVars => OwedInv'
  <2> SUFFICES ASSUME TopUpTypeOK, OwedInv, [TopUpNext]_topUpVars PROVE OwedInv'
    OBVIOUS
  <2>t. /\ row \in [Orders -> {"none", "missing", "created", "captured"}]
        /\ credited \in [Orders -> Nat]
        /\ order \in [Requests \cup Hooks -> Orders]
        /\ stage \in [Requests -> {"unsent", "capture", "credit", "invoice"} \cup Answered]
    BY DEF TopUpTypeOK
  <2> USE DEF OwedInv, Excused, Committing, Proceed
  <2>1. ASSUME NEW o \in Orders, CreateCreditOrder(o) PROVE OwedInv'
    BY <2>t, <2>1 DEF CreateCreditOrder, history
  <2>2. ASSUME NEW o \in Orders, Pay(o) PROVE OwedInv'
    BY <2>2 DEF Pay, history
  <2>3. ASSUME NEW r \in Requests, GetPayment(r) PROVE OwedInv'
    <3>1. /\ stage[r] = "unsent" /\ \A q \in Requests \ {r} : stage'[q] = stage[q]
          /\ stage'[r] \in {"verified", "refused", "capture"}
          /\ stage'[r] = "verified" => row[order[r]] = "captured"
      BY <2>t, <2>3 DEF GetPayment, AfterRead
    <3>2. UNCHANGED <<row, credited, order, hooked, dropped>>
      BY <2>3 DEF GetPayment
    <3> QED
      BY <2>t, <3>1, <3>2
  <2>4. ASSUME NEW r \in Requests, Capture(r) PROVE OwedInv'
    BY <2>t, <2>4 DEF Capture
  <2>5. ASSUME NEW r \in Requests, AddCredits(r) PROVE OwedInv'
    BY <2>t, <2>5 DEF AddCredits
  <2>6. ASSUME NEW r \in Requests, CreateInvoice(r) PROVE OwedInv'
    BY <2>t, <2>6 DEF CreateInvoice, history
  <2>7. ASSUME NEW r \in Requests, Crash(r) PROVE OwedInv'
    BY <2>t, <2>7 DEF Crash
  <2>8. ASSUME NEW h \in Hooks, HookRead(h) PROVE OwedInv'
    BY <2>8 DEF HookRead, history
  <2>9. ASSUME NEW h \in Hooks, HookCapture(h) PROVE OwedInv'
    BY <2>t, <2>9 DEF HookCapture
  <2>10. CASE UNCHANGED topUpVars
    BY <2>10 DEF topUpVars, history
  <2> QED
    BY <2>1, <2>2, <2>3, <2>4, <2>5, <2>6, <2>7, <2>8, <2>9, <2>10
    DEF TopUpNext, RequestStep
<1>3. OwedInv => VerifiedUncreditedOnlyWhenInterrupted
  BY DEF OwedInv, Excused, Committing, VerifiedUncreditedOnlyWhenInterrupted
<1> QED
  BY <1>1, <1>2, <1>3, TopUpTypeCorrect, PTL DEF TopUpSpec
=============================================================================
