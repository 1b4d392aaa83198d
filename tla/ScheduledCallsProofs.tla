------------------------ MODULE ScheduledCallsProofs ------------------------
(* Proofs about ScheduledCalls, for any number of schedulers, requests,      *)
(* leads and faults, however reschedules, claims, restores, ticks and        *)
(* crashes interleave: the types; an agent's claim is exclusive; a cancelled *)
(* call never returns to pending; one scheduler dials a row once; a lead has *)
(* two pending rows only after a race or a restore.                          *)
EXTENDS ScheduledCalls, FiniteSetTheorems, TLAPS

Holding(r) == pc[r] \in {"claimed", "restore"}

\* The part of the typing the invariant needs.
Typed ==
    /\ rows \in Seq(Row)
    /\ pc \in [Requests -> {"unsent", "update", "insert", "claimed", "restore", "done"}]
    /\ arg \in [Requests -> Nat]
    /\ job \in [Requests -> Job]

\* A row somebody holds is not pending and was not cancelled; it is held once;
\* a cancelled row is not pending.
HoldInv ==
    /\ \A r \in Requests : Holding(r) =>
           arg[r] \in DOMAIN rows /\ ~Pending(arg[r]) /\ ~rows[arg[r]].revoked
    /\ \A q, r \in Requests : Holding(q) /\ Holding(r) /\ arg[q] = arg[r] => q = r
    /\ \A i \in DOMAIN rows : rows[i].revoked => ~Pending(i)

\* Changing one row keeps the table a sequence of rows of the same length.
LEMMA OneRowChanged ==
    ASSUME rows \in Seq(Row), NEW i \in DOMAIN rows, NEW row \in Row,
           rows' = [rows EXCEPT ![i] = row]
    PROVE  /\ rows' \in Seq(Row)
           /\ DOMAIN rows' = DOMAIN rows
           /\ rows'[i] = row
           /\ \A j \in DOMAIN rows : j # i => rows'[j] = rows[j]
  OBVIOUS

\* A status written to a row changes nothing else of the table.
LEMMA StatusWritten ==
    ASSUME rows \in Seq(Row), NEW i, NEW status, SetStatus(i, status),
           status \in {"pending", "dialing", "completed", "failed", "cancelled"}
    PROVE  /\ rows' \in Seq(Row)
           /\ DOMAIN rows' = DOMAIN rows
           /\ i \in DOMAIN rows => rows'[i].status = status
           /\ \A j \in DOMAIN rows : rows'[j].revoked = rows[j].revoked
           /\ \A j \in DOMAIN rows : j # i => rows'[j] = rows[j]
<1>1. CASE i \in DOMAIN rows
  <2>1. rows[i] \in Row
    BY <1>1
  <2>2. [rows[i] EXCEPT !.status = status] \in Row
    BY <2>1 DEF Row
  <2>3. rows' = [rows EXCEPT ![i] = [rows[i] EXCEPT !.status = status]]
    BY DEF SetStatus
  <2>4. [rows[i] EXCEPT !.status = status].revoked = rows[i].revoked
        /\ [rows[i] EXCEPT !.status = status].status = status
    BY <2>1 DEF Row
  <2> QED
    BY <1>1, <2>2, <2>3, <2>4, OneRowChanged
<1>2. CASE i \notin DOMAIN rows
  <2>1. rows' = rows
    BY <1>2 DEF SetStatus
  <2> QED
    BY <1>2, <2>1
<1> QED
  BY <1>1, <1>2

\* The scheduler's writes never make a row pending.
LEMMA TickKeepsHolds ==
    ASSUME Typed, HoldInv, NEW i, NEW status,
           status \in {"dialing", "completed", "failed", "cancelled"},
           SetStatus(i, status), UNCHANGED <<pc, arg, job>>
    PROVE  Typed' /\ HoldInv'
<1>1. /\ rows' \in Seq(Row)
      /\ DOMAIN rows' = DOMAIN rows
      /\ \A j \in DOMAIN rows : rows'[j].revoked = rows[j].revoked
      /\ \A j \in DOMAIN rows : rows'[j].status = "pending" => rows[j].status = "pending"
  BY StatusWritten DEF Typed
<1> QED
  BY <1>1 DEF Typed, HoldInv, Holding, Pending

\* The typing the invariant needs, and HoldInv, hold in every reachable state.
THEOREM HoldInvariant == Spec => [](Typed /\ HoldInv)
<1>1. Init => Typed /\ HoldInv
  BY DEF Init, Typed, HoldInv, Holding, Pending
<1>2. Typed /\ HoldInv /\ [Next]_vars => Typed' /\ HoldInv'
  <2> SUFFICES ASSUME Typed, HoldInv, [Next]_vars PROVE Typed' /\ HoldInv'
    OBVIOUS
  <2>t. /\ rows \in Seq(Row) /\ Len(rows) \in Nat /\ DOMAIN rows = 1 .. Len(rows)
        /\ pc \in [Requests -> {"unsent", "update", "insert", "claimed", "restore", "done"}]
        /\ arg \in [Requests -> Nat]
        /\ job \in [Requests -> Job]
    BY DEF Typed
  <2>1. ASSUME NEW r \in Requests, LookUp(r) PROVE Typed' /\ HoldInv'
    <3>1. PendingOf(job[r].lead) \subseteq Nat
      BY <2>t DEF PendingOf
    <3>2. arg' \in [Requests -> Nat]
      BY <2>t, <2>1, <3>1 DEF LookUp
    <3>3. /\ pc[r] = "unsent"
          /\ pc' = [pc EXCEPT ![r] = "update"] \/ pc' = [pc EXCEPT ![r] = "insert"]
          /\ \A q \in Requests \ {r} : arg'[q] = arg[q]
          /\ rows' = rows /\ job' = job
      BY <2>t, <2>1 DEF LookUp, Goto
    <3>4. \A q \in Requests : Holding(q)' => Holding(q) /\ q # r
      BY <2>t, <3>3 DEF Holding
    <3>5. HoldInv'
      BY <3>3, <3>4 DEF HoldInv, Pending
    <3> QED
      BY <2>t, <3>2, <3>3, <3>5 DEF Typed
  <2>2. ASSUME NEW r \in Requests, Update(r) PROVE Typed' /\ HoldInv'
    <3>1. CASE arg[r] \in DOMAIN rows
      <4>1. rows[arg[r]] \in Row
        BY <2>t, <3>1
      <4>2. /\ Rescheduled(rows[arg[r]], r) \in Row
            /\ Rescheduled(rows[arg[r]], r).status = rows[arg[r]].status
            /\ Rescheduled(rows[arg[r]], r).revoked = rows[arg[r]].revoked
        BY <2>t, <4>1 DEF Rescheduled, Row
      <4>3. rows' = [rows EXCEPT ![arg[r]] = Rescheduled(rows[arg[r]], r)]
        BY <2>2 DEF Update
      <4>4. /\ rows' \in Seq(Row) /\ DOMAIN rows' = DOMAIN rows
            /\ \A j \in DOMAIN rows : rows'[j].status = rows[j].status
                                      /\ rows'[j].revoked = rows[j].revoked
        BY <2>t, <3>1, <4>2, <4>3, OneRowChanged
      <4> QED
        BY <2>t, <2>2, <4>4 DEF Update, Goto, Typed, HoldInv, Holding, Pending
    <3>2. CASE arg[r] \notin DOMAIN rows
      <4>1. rows' = rows
        BY <2>t, <2>2, <3>2 DEF Update
      <4> QED
        BY <2>t, <2>2, <4>1 DEF Update, Goto, Typed, HoldInv, Holding, Pending
    <3> QED
      BY <3>1, <3>2
  <2>3. ASSUME NEW r \in Requests, Insert(r) PROVE Typed' /\ HoldInv'
    <3> DEFINE new == [job |-> job[r], status |-> "pending", dials |-> 0, turned |-> FALSE,
                       seen |-> arg[r], restored |-> FALSE, revoked |-> FALSE]
    <3>1. new \in Row
      BY <2>t DEF Row
    <3>2. rows' = Append(rows, new)
      BY <2>3 DEF Insert
    <3>3. /\ rows' \in Seq(Row) /\ DOMAIN rows' = 1 .. Len(rows) + 1
          /\ \A j \in DOMAIN rows : rows'[j] = rows[j]
          /\ rows'[Len(rows) + 1].revoked = FALSE
      BY <2>t, <3>1, <3>2
    <3> HIDE DEF new
    <3> QED
      BY <2>t, <2>3, <3>3 DEF Insert, Goto, Typed, HoldInv, Holding, Pending
  <2>4. ASSUME NEW r \in Requests, NEW i \in DOMAIN rows, Cancel(r, i)
        PROVE  Typed' /\ HoldInv'
    <3>1. rows[i] \in Row
      BY <2>t
    <3> DEFINE new == [rows[i] EXCEPT !.status = "cancelled", !.revoked = TRUE]
    <3>2. new \in Row /\ new.status = "cancelled"
      BY <3>1 DEF Row
    <3>3. rows' = [rows EXCEPT ![i] = new]
      BY <2>4, <3>1 DEF Cancel
    <3> HIDE DEF new
    <3>4. /\ rows' \in Seq(Row) /\ DOMAIN rows' = DOMAIN rows
          /\ rows'[i].status = "cancelled"
          /\ \A j \in DOMAIN rows : j # i => rows'[j] = rows[j]
      BY <2>t, <3>2, <3>3, OneRowChanged
    <3>5. \A q \in Requests : Holding(q) => arg[q] # i
      BY <2>4 DEF Cancel, Cancellable, HoldInv
    <3> QED
      BY <2>t, <2>4, <3>4, <3>5 DEF Cancel, Goto, Typed, HoldInv, Holding, Pending
  <2>5. ASSUME NEW r \in Requests, NEW i \in DOMAIN rows, Claim(r, i)
        PROVE  Typed' /\ HoldInv'
    <3>1. /\ rows' \in Seq(Row) /\ DOMAIN rows' = DOMAIN rows
          /\ rows'[i].status = "dialing"
          /\ \A j \in DOMAIN rows : rows'[j].revoked = rows[j].revoked
          /\ \A j \in DOMAIN rows : j # i => rows'[j] = rows[j]
      BY <2>t, <2>5, StatusWritten DEF Claim
    <3>2. ~rows[i].revoked /\ \A q \in Requests : Holding(q) => arg[q] # i
      BY <2>5 DEF Claim, Claimable, HoldInv
    <3>3. /\ pc' = [pc EXCEPT ![r] = "claimed"]
          /\ arg' = [arg EXCEPT ![r] = i]
          /\ job' = job /\ i \in Nat
      BY <2>t, <2>5 DEF Claim, Goto
    <3> QED
      BY <2>t, <3>1, <3>2, <3>3 DEF Typed, HoldInv, Holding, Pending
  <2>6. ASSUME NEW r \in Requests, AgentDial(r) PROVE Typed' /\ HoldInv'
    BY <2>t, <2>6 DEF AgentDial, Goto, Typed, HoldInv, Holding, Pending
  <2>7. ASSUME NEW r \in Requests, Restore(r) PROVE Typed' /\ HoldInv'
    <3>1. arg[r] \in DOMAIN rows /\ ~rows[arg[r]].revoked
          /\ \A q \in Requests : Holding(q) /\ q # r => arg[q] # arg[r]
      BY <2>7 DEF Restore, HoldInv, Holding
    <3>2. /\ rows' \in Seq(Row) /\ DOMAIN rows' = DOMAIN rows
          /\ rows'[arg[r]].revoked = FALSE
          /\ \A j \in DOMAIN rows : j # arg[r] => rows'[j] = rows[j]
      <4> DEFINE new == [rows[arg[r]] EXCEPT !.status = "pending", !.restored = TRUE]
      <4>1. rows[arg[r]] \in Row
        BY <2>t, <3>1
      <4>2. new \in Row /\ new.revoked = FALSE /\ rows[arg[r]].revoked = FALSE
        BY <3>1, <4>1 DEF Row
      <4>3. rows' = rows \/ rows' = [rows EXCEPT ![arg[r]] = new]
        BY <2>7, <3>1, <4>1 DEF Restore
      <4> HIDE DEF new
      <4> QED
        BY <2>t, <3>1, <4>2, <4>3, OneRowChanged
    <3> QED
      BY <2>t, <2>7, <3>1, <3>2 DEF Restore, Goto, Typed, HoldInv, Holding, Pending
  <2>8. ASSUME NEW r \in Requests, CrashRequest(r) PROVE Typed' /\ HoldInv'
    BY <2>t, <2>8 DEF CrashRequest, Goto, Typed, HoldInv, Holding, Pending
  <2>9. ASSUME NEW s \in Schedulers, MarkDialing(s) PROVE Typed' /\ HoldInv'
    <3>1. CASE SetStatus(Current(s), "dialing")
      BY <2>9, <3>1, TickKeepsHolds DEF MarkDialing
    <3>2. CASE UNCHANGED rows
      BY <2>t, <2>9, <3>2 DEF MarkDialing, Typed, HoldInv, Holding, Pending
    <3> QED
      BY <2>9, <3>1, <3>2 DEF MarkDialing
  <2>10. ASSUME NEW s \in Schedulers, Dial(s) PROVE Typed' /\ HoldInv'
    <3>1. UNCHANGED <<pc, arg, job>>
      BY <2>10 DEF Dial
    <3>2. CASE Current(s) \in DOMAIN rows
               /\ rows' = [rows EXCEPT ![Current(s)].dials = @ + 1]
      <4> DEFINE new == [rows[Current(s)] EXCEPT !.dials = @ + 1]
      <4>1. rows[Current(s)] \in Row
        BY <2>t, <3>2
      <4>2. /\ new \in Row /\ new.status = rows[Current(s)].status
            /\ new.revoked = rows[Current(s)].revoked
        BY <4>1 DEF Row
      <4>3. rows' = [rows EXCEPT ![Current(s)] = new]
        BY <3>2, <4>1
      <4> HIDE DEF new
      <4>4. /\ rows' \in Seq(Row) /\ DOMAIN rows' = DOMAIN rows
            /\ \A j \in DOMAIN rows : rows'[j].status = rows[j].status
                                      /\ rows'[j].revoked = rows[j].revoked
        BY <2>t, <3>2, <4>2, <4>3, OneRowChanged
      <4> QED
        BY <2>t, <3>1, <4>4 DEF Typed, HoldInv, Holding, Pending
    <3>3. CASE rows' = rows
      BY <2>t, <3>1, <3>3 DEF Typed, HoldInv, Holding, Pending
    <3>4. ASSUME Current(s) \notin DOMAIN rows,
                 rows' = [rows EXCEPT ![Current(s)].dials = @ + 1]
          PROVE  rows' = rows
      BY <2>t, <3>4
    <3> QED
      BY <2>10, <3>2, <3>3, <3>4 DEF Dial
  <2>11. ASSUME NEW s \in Schedulers, Conclude(s) PROVE Typed' /\ HoldInv'
    <3>1. CASE SetStatus(Current(s), Outcome(s))
      BY <2>11, <3>1, TickKeepsHolds DEF Conclude, Outcome
    <3>2. CASE UNCHANGED rows
      BY <2>t, <2>11, <3>2 DEF Conclude, Typed, HoldInv, Holding, Pending
    <3> QED
      BY <2>11, <3>1, <3>2 DEF Conclude
  <2>12. CASE UNCHANGED <<rows, pc, arg, job>>
    BY <2>t, <2>12 DEF Typed, HoldInv, Holding, Pending
  <2> QED
    BY <2>1, <2>2, <2>3, <2>4, <2>5, <2>6, <2>7, <2>8, <2>9, <2>10, <2>11, <2>12
    DEF Next, TickStep, RequestStep, ListDue, CrashTick, BecomeDue, vars
<1> QED
  BY <1>1, <1>2, PTL DEF Spec

\* ClaimScheduledCallForManualDial and ResetScheduledCallToPending give an
\* agent's browser call the callback for itself.
THEOREM CallbackExclusive == Spec => []CallbackHeldByOne
<1>1. HoldInv => CallbackHeldByOne
  BY DEF HoldInv, Holding, CallbackHeldByOne
<1> QED
  BY <1>1, HoldInvariant, PTL

\* Once its cancellation was acknowledged a call is never pending again.
THEOREM CancellationHolds == Spec => []CancelledNeverPending
<1>1. HoldInv => CancelledNeverPending
  BY DEF HoldInv, CancelledNeverPending
<1> QED
  BY <1>1, HoldInvariant, PTL

-----------------------------------------------------------------------------
(* The rest of the typing, and what the scheduler's list is.                 *)

\* A tick under way has a list, without repetitions.
Ticking ==
    /\ due \subseteq DOMAIN rows
    /\ todo \in [Schedulers -> Seq(DOMAIN rows)]
    /\ stage \in [Schedulers -> {"idle", "next", "marked", "failed", "completed"}]
    /\ \A s \in Schedulers : stage[s] # "idle" => todo[s] # <<>>
    /\ \A s \in Schedulers : \A a, b \in DOMAIN todo[s] : todo[s][a] = todo[s][b] => a = b

Counting == arg \in [Requests -> 0 .. Len(rows)] /\ faults \in 0 .. MaxFaults

\* What the steps of requests leave of the table: the rows stay, with their
\* dials, and none comes back from a final status.
Live(i) == rows[i].status \in {"pending", "dialing"}
RowsKept ==
    /\ DOMAIN rows \subseteq DOMAIN rows'
    /\ \A i \in DOMAIN rows : rows'[i].dials = rows[i].dials /\ (Live(i)' => Live(i))
    /\ \A i \in DOMAIN rows' \ DOMAIN rows : rows'[i].dials = 0

LEMMA RequestKeepsRows ==
    ASSUME Typed, HoldInv, NEW r \in Requests, LookUp(r) \/ RequestStep(r) \/ CrashRequest(r)
    PROVE  RowsKept /\ UNCHANGED <<todo, stage>>
<1>t. rows \in Seq(Row) /\ Len(rows) \in Nat /\ DOMAIN rows = 1 .. Len(rows)
  BY DEF Typed
<1>1. CASE LookUp(r) \/ AgentDial(r) \/ CrashRequest(r)
  BY <1>1 DEF LookUp, AgentDial, CrashRequest, RowsKept, Live
<1>2. CASE Update(r)
  <2>1. CASE arg[r] \in DOMAIN rows
    <3>1. rows[arg[r]] \in Row
      BY <1>t, <2>1
    <3>2. /\ Rescheduled(rows[arg[r]], r) \in Row
          /\ Rescheduled(rows[arg[r]], r).status = rows[arg[r]].status
          /\ Rescheduled(rows[arg[r]], r).dials = rows[arg[r]].dials
      BY <3>1 DEF Typed, Rescheduled, Row
    <3>3. rows' = [rows EXCEPT ![arg[r]] = Rescheduled(rows[arg[r]], r)]
      BY <1>2 DEF Update
    <3>4. /\ DOMAIN rows' = DOMAIN rows
          /\ \A j \in DOMAIN rows : rows'[j].status = rows[j].status /\ rows'[j].dials = rows[j].dials
      BY <1>t, <2>1, <3>2, <3>3, OneRowChanged
    <3> QED
      BY <1>2, <3>4 DEF Update, RowsKept, Live
  <2>2. CASE arg[r] \notin DOMAIN rows
    <3>1. rows' = rows
      BY <1>t, <1>2, <2>2 DEF Update
    <3> QED
      BY <1>2, <3>1 DEF Update, RowsKept, Live
  <2> QED
    BY <2>1, <2>2
<1>3. CASE Insert(r)
  <2> DEFINE new == [job |-> job[r], status |-> "pending", dials |-> 0, turned |-> FALSE,
                     seen |-> arg[r], restored |-> FALSE, revoked |-> FALSE]
  <2>1. new \in Row /\ new.dials = 0
    BY DEF Typed, Row
  <2>2. rows' = Append(rows, new)
    BY <1>3 DEF Insert
  <2> HIDE DEF new
  <2>3. /\ DOMAIN rows' = 1 .. Len(rows) + 1
        /\ \A j \in DOMAIN rows : rows'[j] = rows[j]
        /\ rows'[Len(rows) + 1].dials = 0
    BY <1>t, <2>1, <2>2
  <2> QED
    BY <1>t, <1>3, <2>3 DEF Insert, RowsKept, Live
<1>4. CASE Restore(r)
  <2>1. arg[r] \in DOMAIN rows
    BY <1>4 DEF Restore, HoldInv, Holding
  <2>2. rows[arg[r]] \in Row
    BY <1>t, <2>1
  <2> DEFINE new == [rows[arg[r]] EXCEPT !.status = "pending", !.restored = TRUE]
  <2>3. new \in Row /\ new.dials = rows[arg[r]].dials
    BY <2>2 DEF Row
  <2>4. \/ rows' = rows
        \/ rows' = [rows EXCEPT ![arg[r]] = new] /\ rows[arg[r]].status = "dialing"
    BY <1>4, <2>1, <2>2 DEF Restore, Restorable
  <2> HIDE DEF new
  <2>5. CASE rows' = rows
    BY <1>4, <2>5 DEF Restore, RowsKept, Live
  <2>6. CASE rows' = [rows EXCEPT ![arg[r]] = new] /\ rows[arg[r]].status = "dialing"
    <3>1. /\ DOMAIN rows' = DOMAIN rows /\ rows'[arg[r]] = new
          /\ \A j \in DOMAIN rows : j # arg[r] => rows'[j] = rows[j]
      BY <1>t, <2>1, <2>3, <2>6, OneRowChanged
    <3> QED
      BY <1>4, <2>3, <2>6, <3>1 DEF Restore, RowsKept, Live
  <2> QED
    BY <2>4, <2>5, <2>6
<1> QED
  BY <1>1, <1>2, <1>3, <1>4 DEF RequestStep

LEMMA RowStepKeepsRows ==
    ASSUME Typed, NEW r \in Requests, NEW i \in DOMAIN rows, Cancel(r, i) \/ Claim(r, i)
    PROVE  RowsKept /\ UNCHANGED <<todo, stage>>
<1>t. rows \in Seq(Row) /\ rows[i] \in Row
  BY DEF Typed
<1>1. PICK new \in Row : /\ rows' = [rows EXCEPT ![i] = new]
                         /\ new.dials = rows[i].dials
  <2>1. CASE Cancel(r, i)
    <3>1. /\ [rows[i] EXCEPT !.status = "cancelled", !.revoked = TRUE] \in Row
          /\ [rows[i] EXCEPT !.status = "cancelled", !.revoked = TRUE].dials = rows[i].dials
      BY <1>t DEF Row
    <3>2. rows' = [rows EXCEPT ![i] = [rows[i] EXCEPT !.status = "cancelled", !.revoked = TRUE]]
      BY <2>1, <1>t DEF Cancel
    <3> QED
      BY <3>1, <3>2
  <2>2. CASE Claim(r, i)
    <3>1. /\ [rows[i] EXCEPT !.status = "dialing"] \in Row
          /\ [rows[i] EXCEPT !.status = "dialing"].dials = rows[i].dials
      BY <1>t DEF Row
    <3>2. rows' = [rows EXCEPT ![i] = [rows[i] EXCEPT !.status = "dialing"]]
      BY <2>2 DEF Claim, SetStatus
    <3> QED
      BY <3>1, <3>2
  <2> QED
    BY <2>1, <2>2
<1>2. /\ DOMAIN rows' = DOMAIN rows /\ rows'[i] = new
      /\ \A j \in DOMAIN rows : j # i => rows'[j] = rows[j]
  BY <1>t, <1>1, OneRowChanged
<1>3. Live(i) /\ UNCHANGED <<todo, stage>>
  BY DEF Cancel, Claim, Cancellable, Claimable, Pending, Live
<1> QED
  BY <1>1, <1>2, <1>3 DEF RowsKept, Live

\* ListDue's list: every due row once.
LEMMA OrderIsList ==
    ASSUME rows \in Seq(Row), NEW S \in SUBSET DOMAIN rows, S # {}, NEW f \in Orders(S)
    PROVE  /\ f \in Seq(DOMAIN rows) /\ f # <<>>
           /\ \A a \in DOMAIN f : f[a] \in S
           /\ \A a, b \in DOMAIN f : f[a] = f[b] => a = b
<1>1. IsFiniteSet(S)
  <2>1. IsFiniteSet(1 .. Len(rows)) /\ DOMAIN rows = 1 .. Len(rows)
    BY FS_Interval
  <2> QED
    BY <2>1, FS_Subset
<1>2. Cardinality(S) \in Nat /\ Cardinality(S) # 0
  BY <1>1, FS_CardinalityType, FS_EmptySet
<1>3. f \in [1 .. Cardinality(S) -> S]
  BY DEF Orders
<1>4. f \in Seq(S) /\ Len(f) = Cardinality(S)
  BY <1>2, <1>3
<1>5. f \in Seq(DOMAIN rows)
  BY <1>2, <1>3
<1> QED
  BY <1>2, <1>3, <1>4, <1>5 DEF Orders

\* Tail of the list.
LEMMA RestOfList ==
    ASSUME NEW X, NEW q \in Seq(X), q # <<>>
    PROVE  /\ Head(q) = q[1] /\ 1 \in DOMAIN q /\ q[1] \in X
           /\ Tail(q) \in Seq(X)
           /\ \A j \in DOMAIN Tail(q) : j + 1 \in DOMAIN q /\ j + 1 > 1 /\ Tail(q)[j] = q[j + 1]
OBVIOUS

LEMMA TickTyped ==
    ASSUME Typed, Ticking, UNCHANGED due, DOMAIN rows' = DOMAIN rows, NEW s \in Schedulers,
           NEW q \in Seq(DOMAIN rows), \A a, b \in DOMAIN q : q[a] = q[b] => a = b,
           todo' = [todo EXCEPT ![s] = q], stage' \in [Schedulers ->
               {"idle", "next", "marked", "failed", "completed"}],
           \A t \in Schedulers \ {s} : stage'[t] = stage[t],
           stage'[s] # "idle" => q # <<>>
    PROVE  Ticking'
BY DEF Ticking

LEMMA TickingKept ==
    ASSUME Typed, Typed', HoldInv, Ticking, [Next]_vars
    PROVE  Ticking'
<1>t. /\ rows \in Seq(Row) /\ DOMAIN rows = 1 .. Len(rows) /\ Len(rows) \in Nat
      /\ todo \in [Schedulers -> Seq(DOMAIN rows)]
      /\ stage \in [Schedulers -> {"idle", "next", "marked", "failed", "completed"}]
  BY DEF Typed, Ticking
<1>1. ASSUME RowsKept, UNCHANGED <<todo, stage>>, due' \subseteq DOMAIN rows' PROVE Ticking'
  <2>1. \A s \in Schedulers : todo[s] \in Seq(DOMAIN rows')
    <3> TAKE s \in Schedulers
    <3>1. todo[s] \in [1 .. Len(todo[s]) -> DOMAIN rows] /\ Len(todo[s]) \in Nat
      BY <1>t
    <3>2. todo[s] \in [1 .. Len(todo[s]) -> DOMAIN rows']
      BY <1>1, <3>1 DEF RowsKept
    <3> QED
      BY <3>1, <3>2
  <2> QED
    BY <1>t, <1>1, <2>1 DEF Ticking
<1>2. ASSUME NEW r \in Requests, LookUp(r) \/ RequestStep(r) \/ CrashRequest(r)
      PROVE  Ticking'
  <2>1. due' \subseteq due
    BY <1>2 DEF LookUp, RequestStep, Update, Insert, AgentDial, Restore, CrashRequest
  <2>2. RowsKept /\ UNCHANGED <<todo, stage>>
    BY <1>2, RequestKeepsRows
  <2> QED
    BY <1>1, <2>1, <2>2 DEF RowsKept, Ticking
<1>3. ASSUME NEW r \in Requests, NEW i \in DOMAIN rows, Cancel(r, i) \/ Claim(r, i)
      PROVE  Ticking'
  <2>1. due' = due
    BY <1>3 DEF Cancel, Claim
  <2>2. RowsKept /\ UNCHANGED <<todo, stage>>
    BY <1>3, RowStepKeepsRows
  <2> QED
    BY <1>1, <2>1, <2>2 DEF RowsKept, Ticking
<1>4. ASSUME NEW i \in DOMAIN rows, BecomeDue(i) PROVE Ticking'
  BY <1>4 DEF BecomeDue, Ticking
<1>5. ASSUME NEW s \in Schedulers, ListDue(s) PROVE Ticking'
  <2> DEFINE listed == {i \in due : Listable(i)}
  <2>1. listed \subseteq DOMAIN rows /\ listed # {}
    BY <1>5 DEF ListDue, Ticking
  <2>2. PICK f \in Orders(listed) : todo' = [todo EXCEPT ![s] = f]
    BY <1>5 DEF ListDue
  <2>3. /\ f \in Seq(DOMAIN rows) /\ f # <<>>
        /\ \A a, b \in DOMAIN f : f[a] = f[b] => a = b
    BY <1>t, <2>1, OrderIsList
  <2>4. UNCHANGED <<due, rows>> /\ stage' = [stage EXCEPT ![s] = "next"]
    BY <1>5 DEF ListDue
  <2> QED
    BY <1>t, <2>2, <2>3, <2>4, TickTyped
<1>6. ASSUME NEW s \in Schedulers, NextRow(s), stage[s] # "idle", UNCHANGED due,
             DOMAIN rows' = DOMAIN rows
      PROVE  Ticking'
  <2>1. todo[s] \in Seq(DOMAIN rows) /\ todo[s] # <<>>
        /\ \A a, b \in DOMAIN todo[s] : todo[s][a] = todo[s][b] => a = b
    BY <1>t, <1>6 DEF Ticking
  <2>2. Tail(todo[s]) \in Seq(DOMAIN rows)
        /\ \A a, b \in DOMAIN Tail(todo[s]) : Tail(todo[s])[a] = Tail(todo[s])[b] => a = b
    <3>1. /\ Tail(todo[s]) \in Seq(DOMAIN rows)
          /\ \A j \in DOMAIN Tail(todo[s]) :
               j + 1 \in DOMAIN todo[s] /\ Tail(todo[s])[j] = todo[s][j + 1]
      BY <2>1, RestOfList
    <3>2. \A j \in DOMAIN Tail(todo[s]) : j \in Nat
      BY <3>1
    <3> QED
      BY <2>1, <3>1, <3>2
  <2>3. /\ todo' = [todo EXCEPT ![s] = Tail(todo[s])]
        /\ stage' = [stage EXCEPT ![s] = IF Tail(todo[s]) = <<>> THEN "idle" ELSE "next"]
    BY <1>6 DEF NextRow
  <2>4. /\ stage' \in [Schedulers -> {"idle", "next", "marked", "failed", "completed"}]
        /\ \A t \in Schedulers \ {s} : stage'[t] = stage[t]
        /\ stage'[s] # "idle" => Tail(todo[s]) # <<>>
    BY <1>t, <2>3
  <2> QED
    BY <1>6, <2>2, <2>3, <2>4, TickTyped
<1>7. ASSUME NEW s \in Schedulers, UNCHANGED <<todo, due>>, DOMAIN rows' = DOMAIN rows,
             stage[s] # "idle",
             \E l \in {"marked", "failed", "completed"} : stage' = [stage EXCEPT ![s] = l]
      PROVE  Ticking'
  BY <1>t, <1>7 DEF Ticking
<1>8. ASSUME NEW s \in Schedulers, MarkDialing(s) PROVE Ticking'
  <2>1. stage[s] # "idle" /\ UNCHANGED due
    BY <1>8 DEF MarkDialing
  <2>2. CASE SetStatus(Current(s), "dialing") /\ stage' = [stage EXCEPT ![s] = "marked"]
                /\ UNCHANGED todo
    BY <1>t, <1>7, <2>1, <2>2, StatusWritten
  <2>3. CASE NextRow(s) /\ UNCHANGED rows
    BY <1>6, <2>1, <2>3
  <2> QED
    BY <1>8, <2>2, <2>3 DEF MarkDialing
<1>9. ASSUME NEW s \in Schedulers, Dial(s) PROVE Ticking'
  <2>1. stage[s] # "idle" /\ UNCHANGED <<todo, due>> /\ DOMAIN rows' = DOMAIN rows
    BY <1>t, <1>9 DEF Dial
  <2>2. \E l \in {"marked", "failed", "completed"} : stage' = [stage EXCEPT ![s] = l]
    BY <1>9 DEF Dial
  <2> QED
    BY <1>7, <2>1, <2>2
<1>10. ASSUME NEW s \in Schedulers, Conclude(s) PROVE Ticking'
  <2>1. stage[s] \in {"completed", "failed"} /\ NextRow(s) /\ UNCHANGED due
    BY <1>10 DEF Conclude
  <2>2. DOMAIN rows' = DOMAIN rows
    BY <1>t, <1>10, <2>1, StatusWritten DEF Conclude, Outcome
  <2> QED
    BY <1>6, <2>1, <2>2
<1>11. ASSUME NEW s \in Schedulers, CrashTick(s) PROVE Ticking'
  BY <1>t, <1>11 DEF CrashTick, Ticking
<1>12. CASE UNCHANGED vars
  BY <1>12 DEF vars, Ticking
<1> QED
  BY <1>2, <1>3, <1>4, <1>5, <1>8, <1>9, <1>10, <1>11, <1>12 DEF Next, TickStep

\* A step fails at most once.
LEMMA FaultSteps == [Next]_vars => UNCHANGED faults \/ Fault
BY Zenon DEF Next, TickStep, RequestStep, LookUp, Update, Insert, Cancel, Claim, AgentDial,
         Restore, CrashRequest, BecomeDue, ListDue, MarkDialing, Dial, Conclude, CrashTick, vars

LEMMA CountingKept ==
    ASSUME Typed, Typed', HoldInv, Ticking, Counting, [Next]_vars
    PROVE  Counting'
<1>t. rows \in Seq(Row) /\ DOMAIN rows = 1 .. Len(rows) /\ Len(rows) \in Nat
  BY DEF Typed
<1>1. ASSUME Len(rows') >= Len(rows), Len(rows') \in Nat, UNCHANGED arg PROVE
             arg' \in [Requests -> 0 .. Len(rows')]
  BY <1>1, <1>t DEF Counting
<1>2. faults' \in 0 .. MaxFaults
  BY FaultSteps, MaxFaultsAssumption DEF Counting, Fault
<1>3. DOMAIN rows \subseteq DOMAIN rows'
  <2>1. ASSUME NEW s \in Schedulers, TickStep(s) \/ CrashTick(s) PROVE DOMAIN rows' = DOMAIN rows
    <3>1. CASE ListDue(s) \/ CrashTick(s)
      BY <3>1 DEF ListDue, CrashTick
    <3>2. CASE MarkDialing(s)
      BY <1>t, <3>2, StatusWritten DEF MarkDialing
    <3>3. CASE Dial(s)
      BY <1>t, <3>3 DEF Dial
    <3>4. CASE Conclude(s)
      BY <1>t, <3>4, StatusWritten DEF Conclude, Outcome
    <3> QED
      BY <2>1, <3>1, <3>2, <3>3, <3>4 DEF TickStep
  <2> QED
    BY <2>1, RequestKeepsRows, RowStepKeepsRows DEF RowsKept, Next, BecomeDue, vars
<1>4. Len(rows') >= Len(rows) /\ Len(rows') \in Nat
  <2>1. rows' \in Seq(Row)
    BY DEF Typed
  <2>2. DOMAIN rows' = 1 .. Len(rows') /\ Len(rows') \in Nat
    BY <2>1
  <2> QED
    BY <1>t, <1>3, <2>2
<1>5. ASSUME NEW r \in Requests, LookUp(r) PROVE arg' \in [Requests -> 0 .. Len(rows')]
  <2>1. PendingOf(job[r].lead) \subseteq 0 .. Len(rows) /\ Len(rows) \in 0 .. Len(rows)
    BY <1>t DEF PendingOf
  <2>2. UNCHANGED rows
    BY <1>5 DEF LookUp
  <2> QED
    BY <1>5, <2>1, <2>2 DEF LookUp, Counting
<1>6. ASSUME NEW r \in Requests, NEW i \in DOMAIN rows, Claim(r, i)
      PROVE  arg' \in [Requests -> 0 .. Len(rows')]
  <2>1. arg' = [arg EXCEPT ![r] = i] /\ i \in 0 .. Len(rows')
    BY <1>t, <1>4, <1>6 DEF Claim
  <2>2. arg \in [Requests -> 0 .. Len(rows')]
    BY <1>t, <1>4 DEF Counting
  <2> QED
    BY <2>1, <2>2
<1>7. UNCHANGED arg => arg' \in [Requests -> 0 .. Len(rows')]
  BY <1>1, <1>4
<1>8. arg' \in [Requests -> 0 .. Len(rows')]
  BY <1>5, <1>6, <1>7, Zenon
     DEF Next, TickStep, RequestStep, Update, Insert, Cancel, AgentDial,
         Restore, CrashRequest, BecomeDue, ListDue, MarkDialing, Dial, Conclude, CrashTick, vars
<1> QED
  BY <1>2, <1>8 DEF Counting

LEMMA AllTyped == Spec => [](Ticking /\ Counting)
<1>1. Init => Ticking /\ Counting
  BY MaxFaultsAssumption DEF Init, Ticking, Counting
<1>2. Typed /\ Typed' /\ HoldInv /\ Ticking /\ Counting /\ [Next]_vars => Ticking' /\ Counting'
  BY TickingKept, CountingKept
<1> QED
  BY <1>1, <1>2, HoldInvariant, PTL DEF Spec

\* The table, the tick and the requests keep their types.
THEOREM TypeCorrect == Spec => []TypeOK
<1>1. Typed /\ Ticking /\ Counting => TypeOK
  BY DEF Typed, Ticking, Counting, TypeOK
<1> QED
  BY <1>1, HoldInvariant, AllTyped, PTL

-----------------------------------------------------------------------------
(* How often the scheduler dials a row.                                      *)

\* The row whose dial has not been concluded.
InFlight(i) == \E s \in Schedulers : stage[s] = "completed" /\ i = todo[s][1]

\* A row that may be listed, or is listed, has not been dialled except for
\* faults; the one in flight is about to get a final status.
DialInv ==
    /\ \A i \in DOMAIN rows : rows[i].dials <= faults + 1
    /\ \A i \in DOMAIN rows : Live(i) => rows[i].dials <= faults \/ InFlight(i)
    /\ \A s \in Schedulers : \A j \in DOMAIN todo[s] :
         j > 1 \/ stage[s] # "completed" => rows[todo[s][j]].dials <= faults

LEMMA DialsTyped == Typed => \A i \in DOMAIN rows : rows[i].dials \in Nat
<1> SUFFICES ASSUME Typed, NEW i \in DOMAIN rows PROVE rows[i].dials \in Nat
  OBVIOUS
<1>1. rows[i] \in Row
  BY DEF Typed
<1> QED
  BY <1>1 DEF Row

LEMMA QuietKeepsDials ==
    ASSUME Typed, Ticking, faults \in Nat, faults' \in Nat, faults' >= faults, DialInv, RowsKept,
           UNCHANGED <<todo, stage>>
    PROVE  DialInv'
<1>1. \A i \in DOMAIN rows : rows[i].dials \in Nat
  BY DialsTyped
<1>2. \A s \in Schedulers : \A j \in DOMAIN todo[s] : todo[s][j] \in DOMAIN rows
  BY DEF Ticking
<1>3. \A i \in DOMAIN rows : InFlight(i) => InFlight(i)'
  BY DEF InFlight
<1>4. \A i \in DOMAIN rows' : rows'[i].dials <= faults' + 1
  BY <1>1 DEF DialInv, RowsKept
<1>5. ASSUME NEW i \in DOMAIN rows', Live(i)' PROVE rows'[i].dials <= faults' \/ InFlight(i)'
  <2>1. CASE i \in DOMAIN rows
    <3>1. Live(i) /\ rows'[i].dials = rows[i].dials
      BY <1>5, <2>1 DEF RowsKept
    <3> QED
      BY <1>1, <1>3, <2>1, <3>1 DEF DialInv
  <2>2. CASE i \notin DOMAIN rows
    BY <2>2 DEF RowsKept
  <2> QED
    BY <2>1, <2>2
<1>6. \A s \in Schedulers : \A j \in DOMAIN todo'[s] :
         j > 1 \/ stage'[s] # "completed" => rows'[todo'[s][j]].dials <= faults'
  BY <1>1, <1>2 DEF DialInv, RowsKept
<1> QED
  BY <1>4, <1>5, <1>6 DEF DialInv

\* A status written to one row keeps the dials of all.
LEMMA StatusKeepsDials ==
    ASSUME rows \in Seq(Row), NEW i \in DOMAIN rows, NEW status, SetStatus(i, status),
           status \in {"dialing", "completed", "failed"}
    PROVE  /\ DOMAIN rows' = DOMAIN rows
           /\ rows'[i].status = status
           /\ \A j \in DOMAIN rows : rows'[j].dials = rows[j].dials
           /\ \A j \in DOMAIN rows : j # i => rows'[j] = rows[j]
<1>1. rows[i] \in Row
  OBVIOUS
<1>2. /\ [rows[i] EXCEPT !.status = status] \in Row
      /\ [rows[i] EXCEPT !.status = status].status = status
      /\ [rows[i] EXCEPT !.status = status].dials = rows[i].dials
  BY <1>1 DEF Row
<1>3. rows' = [rows EXCEPT ![i] = [rows[i] EXCEPT !.status = status]]
  BY DEF SetStatus
<1> QED
  BY <1>2, <1>3, OneRowChanged

OneScheduler == \A s, t \in Schedulers : s = t

LEMMA DialsKept ==
    ASSUME OneScheduler, Typed, Typed', HoldInv, Ticking, Ticking', Counting, Counting', DialInv,
           [Next]_vars
    PROVE  DialInv'
<1>t. /\ rows \in Seq(Row) /\ faults \in Nat /\ faults' \in Nat
      /\ stage \in [Schedulers -> {"idle", "next", "marked", "failed", "completed"}]
      /\ \A i \in DOMAIN rows : rows[i].dials \in Nat
      /\ \A s \in Schedulers : todo[s] \in Seq(DOMAIN rows)
      /\ \A s \in Schedulers : \A j \in DOMAIN todo[s] : todo[s][j] \in DOMAIN rows /\ j \in Nat
  <2>1. faults \in Nat /\ faults' \in Nat
    BY MaxFaultsAssumption DEF Counting
  <2>2. /\ rows \in Seq(Row)
        /\ stage \in [Schedulers -> {"idle", "next", "marked", "failed", "completed"}]
        /\ \A s \in Schedulers : todo[s] \in Seq(DOMAIN rows)
    BY DEF Typed, Ticking
  <2>3. ASSUME NEW s \in Schedulers, NEW j \in DOMAIN todo[s]
        PROVE  todo[s][j] \in DOMAIN rows /\ j \in Nat
    BY <2>2
  <2> QED
    BY <2>1, <2>2, <2>3, DialsTyped
<1>f. faults' = faults \/ faults' = faults + 1
  BY FaultSteps DEF Fault
<1>1. ASSUME RowsKept, UNCHANGED <<todo, stage>> PROVE DialInv'
  BY <1>t, <1>f, <1>1, QuietKeepsDials
<1>2. ASSUME UNCHANGED <<rows, todo, stage>> PROVE DialInv'
  BY <1>1, <1>2 DEF RowsKept, Live
<1>3. ASSUME NEW s \in Schedulers, ListDue(s) PROVE DialInv'
  <2> DEFINE listed == {i \in due : Listable(i)}
  <2>1. /\ stage[s] = "idle" /\ stage' = [stage EXCEPT ![s] = "next"]
        /\ UNCHANGED <<rows, faults>> /\ listed \subseteq DOMAIN rows /\ listed # {}
    BY <1>3 DEF ListDue, Ticking
  <2>2. PICK f \in Orders(listed) : todo' = [todo EXCEPT ![s] = f]
    BY <1>3 DEF ListDue
  <2>3. todo'[s] = f /\ \A j \in DOMAIN f : f[j] \in listed
    <3>1. \A j \in DOMAIN f : f[j] \in listed
      BY <1>t, <2>1, OrderIsList
    <3> QED
      BY <2>2, <3>1 DEF Ticking
  <2>4. \A i \in DOMAIN rows : Live(i) => rows[i].dials <= faults
    BY <2>1 DEF DialInv, InFlight, OneScheduler
  <2>5. \A i \in listed : rows[i].dials <= faults
    BY <2>1, <2>4 DEF Listable, Pending, Live
  <2>6. \A i \in DOMAIN rows : Live(i)' => Live(i)
    BY <2>1 DEF Live
  <2> QED
    BY <2>1, <2>3, <2>4, <2>5, <2>6 DEF DialInv, OneScheduler
<1>4. ASSUME NEW s \in Schedulers, NextRow(s), stage[s] # "idle", DOMAIN rows' = DOMAIN rows,
             \A i \in DOMAIN rows : rows'[i].dials = rows[i].dials,
             \A i \in DOMAIN rows : Live(i)' => rows[i].dials <= faults'
      PROVE  DialInv'
  <2>1. todo[s] # <<>> /\ todo[s] \in Seq(DOMAIN rows)
    BY <1>4, <1>t DEF Ticking
  <2>2. todo'[s] = Tail(todo[s])
    BY <1>4 DEF NextRow, Ticking
  <2>3. \A j \in DOMAIN todo'[s] : rows[todo'[s][j]].dials <= faults /\ todo'[s][j] \in DOMAIN rows
    <3>1. \A j \in DOMAIN Tail(todo[s]) :
            j + 1 \in DOMAIN todo[s] /\ j + 1 > 1 /\ Tail(todo[s])[j] = todo[s][j + 1]
      BY <2>1, RestOfList
    <3> QED
      BY <1>t, <2>2, <3>1 DEF DialInv
  <2>4. \A i \in DOMAIN rows : rows[i].dials <= faults' + 1
    BY <1>t, <1>f DEF DialInv
  <2>5. \A j \in DOMAIN todo'[s] : rows'[todo'[s][j]].dials <= faults'
    BY <1>t, <1>f, <1>4, <2>3
  <2> QED
    BY <1>t, <1>4, <2>4, <2>5 DEF DialInv, OneScheduler
<1>5. ASSUME NEW s \in Schedulers, MarkDialing(s) PROVE DialInv'
  <2>1. /\ stage[s] = "next" /\ todo[s] # <<>>
        /\ Current(s) = todo[s][1] /\ 1 \in DOMAIN todo[s] /\ todo[s][1] \in DOMAIN rows
    <3>1. stage[s] = "next" /\ todo[s] # <<>>
      BY <1>5 DEF MarkDialing, Ticking
    <3> QED
      BY <1>t, <3>1, RestOfList DEF Current
  <2>2. \A i \in DOMAIN rows : Live(i) => rows[i].dials <= faults
    BY <2>1 DEF DialInv, InFlight, OneScheduler
  <2>3. rows[Current(s)].dials <= faults
    BY <2>1 DEF DialInv
  <2>4. CASE SetStatus(Current(s), "dialing") /\ stage' = [stage EXCEPT ![s] = "marked"]
             /\ UNCHANGED <<todo, faults>>
    <3>1. /\ DOMAIN rows' = DOMAIN rows
          /\ \A j \in DOMAIN rows : rows'[j].dials = rows[j].dials
          /\ \A j \in DOMAIN rows : j # Current(s) => rows'[j] = rows[j]
      BY <1>t, <2>1, <2>4, StatusKeepsDials
    <3>2. \A i \in DOMAIN rows : Live(i)' => rows[i].dials <= faults
      BY <2>2, <2>3, <3>1 DEF Live
    <3>3. \A j \in DOMAIN todo[s] : rows[todo[s][j]].dials <= faults
      BY <2>1 DEF DialInv
    <3> QED
      BY <1>t, <2>4, <3>1, <3>2, <3>3 DEF DialInv, OneScheduler
  <2>5. CASE Fault /\ NextRow(s) /\ UNCHANGED rows
    <3>1. \A i \in DOMAIN rows : Live(i)' => rows[i].dials <= faults'
      BY <1>t, <2>2, <2>5 DEF Live, Fault
    <3> QED
      BY <1>4, <2>1, <2>5, <3>1
  <2> QED
    BY <1>5, <2>4, <2>5 DEF MarkDialing
<1>6. ASSUME NEW s \in Schedulers, Dial(s) PROVE DialInv'
  <2>1. /\ stage[s] = "marked" /\ todo[s] # <<>> /\ UNCHANGED <<todo, faults>>
        /\ Current(s) = todo[s][1] /\ 1 \in DOMAIN todo[s] /\ todo[s][1] \in DOMAIN rows
    <3>1. stage[s] = "marked" /\ todo[s] # <<>> /\ UNCHANGED <<todo, faults>>
      BY <1>6 DEF Dial, Ticking
    <3> QED
      BY <1>t, <3>1, RestOfList DEF Current
  <2>2. /\ \A i \in DOMAIN rows : Live(i) => rows[i].dials <= faults
        /\ \A j \in DOMAIN todo[s] : rows[todo[s][j]].dials <= faults
    BY <2>1 DEF DialInv, InFlight, OneScheduler
  <2>3. CASE rows' = [rows EXCEPT ![Current(s)].dials = @ + 1]
             /\ stage' = [stage EXCEPT ![s] = "completed"]
    <3> DEFINE new == [rows[Current(s)] EXCEPT !.dials = @ + 1]
    <3>1. rows[Current(s)] \in Row
      BY <1>t, <2>1
    <3>2. new \in Row /\ new.dials = rows[Current(s)].dials + 1
      BY <3>1 DEF Row
    <3>3. rows' = [rows EXCEPT ![Current(s)] = new]
      BY <2>1, <2>3, <3>1
    <3> HIDE DEF new
    <3>4. /\ DOMAIN rows' = DOMAIN rows /\ rows'[Current(s)] = new
          /\ \A j \in DOMAIN rows : j # Current(s) => rows'[j] = rows[j]
      BY <1>t, <2>1, <3>2, <3>3, OneRowChanged
    <3>5. \A i \in DOMAIN rows : rows'[i].dials <= faults + 1
      <4>1. rows'[Current(s)].dials <= faults + 1
        BY <1>t, <2>1, <2>2, <3>2, <3>4
      <4> QED
        BY <3>4, <4>1 DEF DialInv
    <3>6. \A i : i = Current(s) => InFlight(i)'
      BY <1>t, <2>1, <2>3 DEF InFlight
    <3>7. \A i \in DOMAIN rows : Live(i)' => rows'[i].dials <= faults \/ InFlight(i)'
      <4> TAKE i \in DOMAIN rows
      <4>1. CASE i # Current(s)
        BY <2>2, <3>4, <4>1 DEF Live
      <4> QED
        BY <3>6, <4>1
    <3>8. \A j \in DOMAIN todo[s] : j > 1 => todo[s][j] # Current(s)
      BY <1>t, <2>1 DEF Ticking
    <3>9. \A j \in DOMAIN todo[s] : j > 1 => rows'[todo[s][j]].dials <= faults
      BY <1>t, <2>2, <3>4, <3>8
    <3>10. stage'[s] = "completed"
      BY <1>t, <2>3
    <3> QED
      BY <2>1, <3>4, <3>5, <3>7, <3>9, <3>10 DEF DialInv, OneScheduler
  <2>4. CASE stage' = [stage EXCEPT ![s] = "failed"] /\ UNCHANGED rows
    <3>1. \A i \in DOMAIN rows : Live(i)' => Live(i)
      BY <2>4 DEF Live
    <3> QED
      BY <1>t, <2>1, <2>2, <2>4, <3>1 DEF DialInv, OneScheduler
  <2> QED
    BY <1>6, <2>3, <2>4 DEF Dial
<1>7. ASSUME NEW s \in Schedulers, Conclude(s) PROVE DialInv'
  <2>1. /\ stage[s] \in {"completed", "failed"} /\ todo[s] # <<>> /\ NextRow(s)
        /\ Current(s) = todo[s][1] /\ 1 \in DOMAIN todo[s] /\ todo[s][1] \in DOMAIN rows
    <3>1. stage[s] \in {"completed", "failed"} /\ todo[s] # <<>> /\ NextRow(s)
      BY <1>7 DEF Conclude, Ticking
    <3> QED
      BY <1>t, <3>1, RestOfList DEF Current
  <2>2. \A i \in DOMAIN rows : Live(i) /\ i # Current(s) => rows[i].dials <= faults
    BY <2>1 DEF DialInv, InFlight, OneScheduler
  <2>3. CASE SetStatus(Current(s), Outcome(s)) /\ UNCHANGED faults
    <3>1. /\ DOMAIN rows' = DOMAIN rows
          /\ rows'[Current(s)].status \in {"completed", "failed"}
          /\ \A j \in DOMAIN rows : rows'[j].dials = rows[j].dials
          /\ \A j \in DOMAIN rows : j # Current(s) => rows'[j] = rows[j]
      BY <1>t, <2>1, <2>3, StatusKeepsDials DEF Outcome
    <3>2. \A i \in DOMAIN rows : Live(i)' => rows[i].dials <= faults'
      BY <2>2, <2>3, <3>1 DEF Live
    <3> QED
      BY <1>4, <2>1, <3>1, <3>2
  <2>4. CASE Fault /\ UNCHANGED rows
    <3>1. \A i \in DOMAIN rows : Live(i)' => rows[i].dials <= faults'
      BY <1>t, <2>4 DEF DialInv, Fault
    <3> QED
      BY <1>4, <2>1, <2>4, <3>1
  <2> QED
    BY <1>7, <2>3, <2>4 DEF Conclude
<1>8. ASSUME NEW s \in Schedulers, CrashTick(s) PROVE DialInv'
  <2>1. /\ UNCHANGED rows /\ faults' = faults + 1 /\ todo' = [todo EXCEPT ![s] = <<>>]
        /\ stage' = [stage EXCEPT ![s] = "idle"]
    BY <1>8 DEF CrashTick, Fault
  <2>2. todo'[s] = <<>>
    BY <2>1 DEF Ticking
  <2> QED
    BY <1>t, <2>1, <2>2 DEF DialInv, OneScheduler
<1>9. ASSUME NEW r \in Requests, LookUp(r) \/ RequestStep(r) \/ CrashRequest(r) PROVE DialInv'
  BY <1>1, <1>9, RequestKeepsRows
<1>10. ASSUME NEW r \in Requests, NEW i \in DOMAIN rows, Cancel(r, i) \/ Claim(r, i)
       PROVE  DialInv'
  BY <1>1, <1>10, RowStepKeepsRows
<1>11. ASSUME NEW i \in DOMAIN rows, BecomeDue(i) PROVE DialInv'
  BY <1>2, <1>11 DEF BecomeDue
<1>12. CASE UNCHANGED vars
  BY <1>2, <1>12 DEF vars
<1> QED
  BY <1>3, <1>5, <1>6, <1>7, <1>8, <1>9, <1>10, <1>11, <1>12 DEF Next, TickStep

\* One scheduler dials a row once for each fault, and once more, whatever the
\* requests do: for any number of requests, leads and faults.
THEOREM OneSchedulerDialsOnce ==
    ASSUME OneScheduler
    PROVE  Spec => []SchedulerDialsOnce
<1>1. Init => DialInv
  BY DEF Init, DialInv, Live
<1>2. Typed /\ Typed' /\ HoldInv /\ Ticking /\ Ticking' /\ Counting /\ Counting' /\ DialInv
      /\ [Next]_vars => DialInv'
  BY DialsKept
<1>3. Counting /\ Typed /\ DialInv => SchedulerDialsOnce
  <2> SUFFICES ASSUME Counting, Typed, DialInv, NEW i \in DOMAIN rows
               PROVE  rows[i].dials <= 1 + faults
    BY DEF SchedulerDialsOnce
  <2>1. faults \in Nat /\ rows[i].dials \in Nat
    BY DialsTyped, MaxFaultsAssumption DEF Counting
  <2> QED
    BY <2>1 DEF DialInv
<1> QED
  BY <1>1, <1>2, <1>3, HoldInvariant, AllTyped, PTL DEF Spec

-----------------------------------------------------------------------------
(* Two pending rows of one lead.                                             *)

\* A pending row that no restore brought back.
Open(i) == rows[i].status = "pending" /\ ~rows[i].restored

\* No open row of the lead among the first n.
NoneOpen(n, l) == \A i \in DOMAIN rows : i <= n /\ rows[i].job.lead = l => ~Open(i)

\* The creator of a row saw no open row of the lead, nor did a request that is
\* about to insert; a request that is about to update has a row of its lead.
PairInv ==
    /\ \A j \in DOMAIN rows : \A i \in DOMAIN rows :
         i < j /\ i <= rows[j].seen /\ rows[i].job.lead = rows[j].job.lead => ~Open(i)
    /\ \A r \in Requests : pc[r] = "insert" => NoneOpen(arg[r], job[r].lead)
    /\ \A r \in Requests : pc[r] = "update" =>
         arg[r] \in DOMAIN rows /\ rows[arg[r]].job.lead = job[r].lead

\* The rows keep their leads, and none is opened again.
RowsAged ==
    /\ DOMAIN rows' = DOMAIN rows
    /\ \A i \in DOMAIN rows : /\ rows'[i].job.lead = rows[i].job.lead
                              /\ rows'[i].seen = rows[i].seen
                              /\ Open(i)' => Open(i)

LEMMA AgingKeepsPairs ==
    ASSUME PairInv, RowsAged, UNCHANGED job,
           \A r \in Requests : pc'[r] \in {"insert", "update"} => pc'[r] = pc[r] /\ arg'[r] = arg[r]
    PROVE  PairInv'
<1>1. \A j \in DOMAIN rows' : \A i \in DOMAIN rows' :
         i < j /\ i <= rows'[j].seen /\ rows'[i].job.lead = rows'[j].job.lead => ~Open(i)'
  BY DEF PairInv, RowsAged
<1>2. ASSUME NEW r \in Requests, pc'[r] = "insert" PROVE NoneOpen(arg[r], job[r].lead)'
  <2>1. NoneOpen(arg[r], job[r].lead) /\ arg'[r] = arg[r]
    BY <1>2 DEF PairInv
  <2> QED
    BY <2>1 DEF NoneOpen, RowsAged
<1>3. \A r \in Requests : pc'[r] = "update" =>
         arg'[r] \in DOMAIN rows' /\ rows'[arg'[r]].job.lead = job'[r].lead
  BY DEF PairInv, RowsAged
<1> QED
  BY <1>1, <1>2, <1>3 DEF PairInv

LEMMA OneRowAges ==
    ASSUME rows \in Seq(Row), NEW i \in DOMAIN rows, NEW new \in Row,
           rows' = [rows EXCEPT ![i] = new],
           new.job.lead = rows[i].job.lead, new.seen = rows[i].seen,
           new.status = "pending" /\ ~new.restored => Open(i)
    PROVE  RowsAged
<1>1. /\ DOMAIN rows' = DOMAIN rows /\ rows'[i] = new
      /\ \A j \in DOMAIN rows : j # i => rows'[j] = rows[j]
  BY OneRowChanged
<1> QED
  BY <1>1 DEF RowsAged, Open

\* The scheduler's writes, and a row written by a status only.
LEMMA StatusAges ==
    ASSUME rows \in Seq(Row), NEW i, NEW status, SetStatus(i, status),
           status \in {"dialing", "completed", "failed"}
    PROVE  RowsAged
<1>1. CASE i \in DOMAIN rows
  <2>1. rows[i] \in Row
    BY <1>1
  <2> DEFINE new == [rows[i] EXCEPT !.status = status]
  <2>2. /\ new \in Row /\ new.job = rows[i].job /\ new.seen = rows[i].seen
        /\ new.status # "pending"
    BY <2>1 DEF Row
  <2>3. rows' = [rows EXCEPT ![i] = new]
    BY DEF SetStatus
  <2> HIDE DEF new
  <2> QED
    BY <1>1, <2>2, <2>3, OneRowAges
<1>2. CASE i \notin DOMAIN rows
  <2>1. rows' = rows
    BY <1>2 DEF SetStatus
  <2> QED
    BY <2>1 DEF RowsAged, Open
<1> QED
  BY <1>1, <1>2

LEMMA DialedRow == ASSUME NEW row \in Row PROVE [row EXCEPT !.dials = @ + 1] \in Row
BY DEF Row

LEMMA TickAges ==
    ASSUME rows \in Seq(Row), NEW s \in Schedulers, TickStep(s) \/ CrashTick(s)
    PROVE  RowsAged /\ UNCHANGED <<pc, arg, job>>
<1>1. UNCHANGED <<pc, arg, job>>
  BY DEF TickStep, ListDue, MarkDialing, Dial, Conclude, CrashTick
<1>2. rows' = rows => RowsAged
  BY DEF RowsAged, Open
<1>3. CASE MarkDialing(s)
  BY <1>2, <1>3, StatusAges DEF MarkDialing
<1>4. CASE Conclude(s)
  BY <1>2, <1>4, StatusAges DEF Conclude, Outcome
<1>5. CASE Dial(s)
  <2> DEFINE new == [rows[Current(s)] EXCEPT !.dials = @ + 1]
  <2>1. CASE Current(s) \in DOMAIN rows /\ rows' # rows
    <3>1. rows[Current(s)] \in Row
      BY <2>1
    <3>2. new \in Row
      BY <3>1, DialedRow
    <3>3. /\ new.job = rows[Current(s)].job /\ new.restored = rows[Current(s)].restored
          /\ new.seen = rows[Current(s)].seen /\ new.status = rows[Current(s)].status
      BY <3>1, Zenon DEF Row
    <3>4. rows' = [rows EXCEPT ![Current(s)] = new]
      BY <1>5, <2>1, <3>1 DEF Dial
    <3> HIDE DEF new
    <3> QED
      BY <1>1, <2>1, <3>2, <3>3, <3>4, OneRowAges DEF Open
  <2>2. CASE Current(s) \notin DOMAIN rows
    BY <1>1, <1>2, <1>5, <2>2 DEF Dial
  <2> QED
    BY <1>1, <1>2, <2>1, <2>2
<1>6. CASE ListDue(s) \/ CrashTick(s)
  BY <1>1, <1>2, <1>6 DEF ListDue, CrashTick
<1> QED
  BY <1>1, <1>3, <1>4, <1>5, <1>6 DEF TickStep

LEMMA PairsKept ==
    ASSUME Typed, HoldInv, Counting, PairInv, [Next]_vars
    PROVE  PairInv'
<1>t. /\ rows \in Seq(Row) /\ DOMAIN rows = 1 .. Len(rows) /\ Len(rows) \in Nat
      /\ pc \in [Requests -> {"unsent", "update", "insert", "claimed", "restore", "done"}]
      /\ arg \in [Requests -> Nat] /\ job \in [Requests -> Job]
      /\ \A r \in Requests : arg[r] <= Len(rows)
  BY DEF Typed, Counting
<1>0. rows' = rows => RowsAged
  BY DEF RowsAged, Open
<1>1. ASSUME NEW s \in Schedulers, TickStep(s) \/ CrashTick(s) PROVE PairInv'
  BY <1>t, <1>1, TickAges, AgingKeepsPairs
<1>2. CASE UNCHANGED <<rows, pc, arg, job>>
  BY <1>0, <1>2, AgingKeepsPairs
<1>3. ASSUME NEW r \in Requests, RowsAged, UNCHANGED job, \A q \in Requests \ {r} : arg'[q] = arg[q],
             \E l \in {"claimed", "restore", "done"} : pc' = [pc EXCEPT ![r] = l]
      PROVE  PairInv'
  <2>1. \A q \in Requests : pc'[q] \in {"insert", "update"} => pc'[q] = pc[q] /\ arg'[q] = arg[q]
    BY <1>t, <1>3
  <2> QED
    BY <1>3, <2>1, AgingKeepsPairs
<1>4. ASSUME NEW r \in Requests, AgentDial(r) \/ CrashRequest(r) PROVE PairInv'
  <2>1. rows' = rows /\ UNCHANGED <<arg, job>>
        /\ \E l \in {"claimed", "restore", "done"} : pc' = [pc EXCEPT ![r] = l]
    BY <1>4 DEF AgentDial, CrashRequest, Goto
  <2> QED
    BY <1>0, <1>3, <2>1
<1>5. ASSUME NEW r \in Requests, Update(r) PROVE PairInv'
  <2>1. arg[r] \in DOMAIN rows /\ rows[arg[r]].job.lead = job[r].lead /\ rows[arg[r]] \in Row
    BY <1>t, <1>5 DEF Update, PairInv
  <2> DEFINE new == Rescheduled(rows[arg[r]], r)
  <2>2. /\ new \in Row /\ new.job = job[r] /\ new.seen = rows[arg[r]].seen
        /\ new.status = rows[arg[r]].status /\ new.restored = rows[arg[r]].restored
    BY <1>t, <2>1 DEF Rescheduled, Row
  <2>3. /\ rows' = [rows EXCEPT ![arg[r]] = new] /\ UNCHANGED <<arg, job>>
        /\ pc' = [pc EXCEPT ![r] = "done"]
    BY <1>5 DEF Update, Goto
  <2> HIDE DEF new
  <2>4. RowsAged
    BY <1>t, <2>1, <2>2, <2>3, OneRowAges DEF Open
  <2> QED
    BY <1>3, <2>3, <2>4
<1>6. ASSUME NEW r \in Requests, NEW i \in DOMAIN rows, Cancel(r, i) PROVE PairInv'
  <2> DEFINE new == [rows[i] EXCEPT !.status = "cancelled", !.revoked = TRUE]
  <2>1. rows[i] \in Row
    BY <1>t
  <2>2. new \in Row /\ new.job = rows[i].job /\ new.seen = rows[i].seen /\ new.status # "pending"
    BY <2>1 DEF Row
  <2>3. /\ rows' = [rows EXCEPT ![i] = new] /\ UNCHANGED <<arg, job>>
        /\ pc' = [pc EXCEPT ![r] = "done"]
    BY <1>6, <2>1 DEF Cancel, Goto
  <2> HIDE DEF new
  <2>4. RowsAged
    BY <1>t, <2>2, <2>3, OneRowAges
  <2> QED
    BY <1>3, <2>3, <2>4
<1>7. ASSUME NEW r \in Requests, NEW i \in DOMAIN rows, Claim(r, i) PROVE PairInv'
  <2>1. RowsAged
    BY <1>t, <1>7, StatusAges DEF Claim
  <2> QED
    BY <1>t, <1>3, <1>7, <2>1 DEF Claim, Goto
<1>8. ASSUME NEW r \in Requests, Restore(r) PROVE PairInv'
  <2>1. arg[r] \in DOMAIN rows /\ rows[arg[r]] \in Row
    BY <1>t, <1>8 DEF Restore, HoldInv, Holding
  <2> DEFINE new == [rows[arg[r]] EXCEPT !.status = "pending", !.restored = TRUE]
  <2>2. /\ new \in Row /\ new.job = rows[arg[r]].job /\ new.seen = rows[arg[r]].seen
        /\ new.restored = TRUE
    BY <2>1 DEF Row
  <2>3. /\ rows' = rows \/ rows' = [rows EXCEPT ![arg[r]] = new]
        /\ UNCHANGED <<arg, job>> /\ pc' = [pc EXCEPT ![r] = "done"]
    BY <1>8, <2>1 DEF Restore, Goto
  <2> HIDE DEF new
  <2>4. RowsAged
    BY <1>t, <1>0, <2>1, <2>2, <2>3, OneRowAges
  <2> QED
    BY <1>3, <2>3, <2>4
<1>9. ASSUME NEW r \in Requests, LookUp(r) PROVE PairInv'
  <2>1. /\ UNCHANGED <<rows, job>> /\ \A q \in Requests \ {r} : pc'[q] = pc[q] /\ arg'[q] = arg[q]
        /\ \/ pc'[r] = "update" /\ arg'[r] \in PendingOf(job[r].lead)
           \/ pc'[r] = "insert" /\ PendingOf(job[r].lead) = {}
    BY <1>t, <1>9 DEF LookUp, Goto
  <2>2. pc'[r] = "insert" => \A i \in DOMAIN rows : rows[i].job.lead = job[r].lead => ~Open(i)
    BY <2>1 DEF PendingOf, Pending, Open
  <2>3. \A q \in Requests : pc'[q] = "insert" => NoneOpen(arg'[q], job[q].lead)
    BY <2>1, <2>2 DEF PairInv, NoneOpen
  <2>4. \A q \in Requests : pc'[q] = "update" =>
          arg'[q] \in DOMAIN rows /\ rows[arg'[q]].job.lead = job[q].lead
    BY <2>1 DEF PairInv, PendingOf
  <2> QED
    BY <2>1, <2>3, <2>4 DEF PairInv, NoneOpen, Open
<1>10. ASSUME NEW r \in Requests, Insert(r) PROVE PairInv'
  <2> DEFINE new == [job |-> job[r], status |-> "pending", dials |-> 0, turned |-> FALSE,
                     seen |-> arg[r], restored |-> FALSE, revoked |-> FALSE]
              last == Len(rows) + 1
  <2>1. new \in Row /\ new.seen = arg[r] /\ new.job = job[r]
    BY <1>t DEF Row
  <2>2. /\ rows' = Append(rows, new) /\ UNCHANGED <<arg, job>> /\ pc[r] = "insert"
        /\ pc' = [pc EXCEPT ![r] = "done"]
    BY <1>10 DEF Insert, Goto
  <2> HIDE DEF new
  <2>3. /\ DOMAIN rows' = 1 .. last /\ rows'[last] = new
        /\ \A j \in DOMAIN rows : rows'[j] = rows[j]
    BY <1>t, <2>1, <2>2
  <2>4. \A j \in DOMAIN rows : Open(j)' <=> Open(j)
    BY <2>3 DEF Open
  <2>5. \A q \in Requests : pc'[q] \in {"insert", "update"} => pc'[q] = pc[q]
    BY <1>t, <2>2
  <2>6. ASSUME NEW j \in DOMAIN rows', NEW i \in DOMAIN rows', i < j, i <= rows'[j].seen,
               rows'[i].job.lead = rows'[j].job.lead
        PROVE  ~Open(i)'
    <3>1. i \in DOMAIN rows
      BY <1>t, <2>3, <2>6
    <3>2. CASE j \in DOMAIN rows
      BY <2>3, <2>4, <2>6, <3>1, <3>2 DEF PairInv
    <3>3. CASE j = last
      <4>1. i <= arg[r] /\ rows[i].job.lead = job[r].lead
        BY <2>1, <2>3, <2>6, <3>1, <3>3
      <4>2. NoneOpen(arg[r], job[r].lead)
        BY <2>2 DEF PairInv
      <4> QED
        BY <2>4, <3>1, <4>1, <4>2 DEF NoneOpen
    <3> QED
      BY <1>t, <2>3, <3>2, <3>3
  <2>7. ASSUME NEW q \in Requests, pc'[q] = "insert" PROVE NoneOpen(arg[q], job[q].lead)'
    <3>1. NoneOpen(arg[q], job[q].lead) /\ arg[q] < last /\ arg'[q] = arg[q]
      BY <1>t, <2>2, <2>5, <2>7 DEF PairInv
    <3>2. \A i \in DOMAIN rows' : i <= arg[q] => i \in DOMAIN rows
      BY <1>t, <2>3, <3>1
    <3> QED
      BY <2>2, <2>3, <2>4, <3>1, <3>2 DEF NoneOpen
  <2>8. \A q \in Requests : pc'[q] = "update" =>
          arg'[q] \in DOMAIN rows' /\ rows'[arg'[q]].job.lead = job'[q].lead
    BY <1>t, <2>2, <2>3, <2>5 DEF PairInv
  <2> QED
    BY <2>6, <2>7, <2>8 DEF PairInv
<1> QED
  BY <1>1, <1>2, <1>4, <1>5, <1>6, <1>7, <1>8, <1>9, <1>10
     DEF Next, RequestStep, BecomeDue, vars

\* A lead has two pending rows only after a race of two requests or a restore.
THEOREM TwoPendingOnlyFromRaces == Spec => []TwoPendingOnlyWhenRacing
<1>1. Init => PairInv
  BY DEF Init, PairInv
<1>2. Typed /\ HoldInv /\ Counting /\ PairInv /\ [Next]_vars => PairInv'
  BY PairsKept
<1>3. Typed /\ PairInv => TwoPendingOnlyWhenRacing
  <2> SUFFICES ASSUME Typed, PairInv, NEW i \in DOMAIN rows, NEW j \in DOMAIN rows, i < j,
                      rows[i].job.lead = rows[j].job.lead, Pending(i)
               PROVE  rows[j].seen < i \/ rows[i].restored
    BY DEF TwoPendingOnlyWhenRacing
  <2>1. rows[j] \in Row /\ i \in Nat
    BY DEF Typed
  <2>2. rows[j].seen \in Nat
    BY <2>1 DEF Row
  <2>3. i <= rows[j].seen => ~Open(i)
    BY DEF PairInv
  <2>4. i <= rows[j].seen \/ rows[j].seen < i
    BY <2>1, <2>2
  <2> QED
    BY <2>3, <2>4, Zenon DEF Open, Pending
<1> QED
  BY <1>1, <1>2, <1>3, HoldInvariant, AllTyped, PTL DEF Spec
=============================================================================
