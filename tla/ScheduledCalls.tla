--------------------------- MODULE ScheduledCalls ---------------------------
(***************************************************************************)
(* The scheduled_calls table and everybody who changes a row of it, one    *)
(* SQL statement per step:                                                 *)
(*                                                                         *)
(*   the scheduler   workers/scheduler.go: list the due AI calls, then for *)
(*                   each one mark it dialing, dial, mark it completed or  *)
(*                   failed                                                *)
(*   schedule        api/scheduled_calls.go: look for a pending row of the *)
(*                   lead, then update it or insert a new one              *)
(*   cancel          one conditional UPDATE                                *)
(*   browser call    api/browser_call.go: claim a manual callback, dial,   *)
(*                   put it back when the dial fails                       *)
(*                                                                         *)
(* scheduled_at is abstract: a row is due some time after it was written,  *)
(* whatever its status is by then.                                         *)
(***************************************************************************)
EXTENDS Integers, Sequences, FiniteSets

CONSTANTS Schedulers, \* running Scheduler loops
          Requests,   \* API requests
          Leads,
          MaxFaults   \* bound: failed statements and crashes

ASSUME MaxFaultsAssumption == MaxFaults \in Nat

VARIABLES rows,    \* scheduled_calls, in id order
          due,     \* ids whose scheduled_at has passed
          todo,    \* rows the scheduler's tick has listed and not finished
          stage,   \* where the scheduler is with the first of them
          pc,      \* where each API request is
          arg,     \* the row a request is about; the rows it looked at
          job,     \* the lead and mode a schedule request asks for
          faults   \* faults so far

vars == <<rows, due, todo, stage, pc, arg, job, faults>>

Modes == {"ai", "manual"}
Job == [lead : Leads, mode : Modes]

\* History: `dials`, scheduler dials of the row; `seen`, the rows its creator
\* looked at; `restored`, a failed browser call put it back to pending;
\* `revoked`, a cancel request was answered "cancelled"; `turned`, an update
\* made an AI call of a callback that was being dialled.
Row == [job : Job, dials : Nat, seen : Nat,
        restored : BOOLEAN, revoked : BOOLEAN, turned : BOOLEAN,
        status : {"pending", "dialing", "completed", "failed", "cancelled"}]

TypeOK ==
    /\ rows \in Seq(Row)
    /\ due \subseteq DOMAIN rows
    /\ todo \in [Schedulers -> Seq(DOMAIN rows)]
    /\ stage \in [Schedulers -> {"idle", "next", "marked", "failed", "completed"}]
    /\ pc \in [Requests -> {"unsent", "update", "insert", "claimed", "restore", "done"}]
    /\ arg \in [Requests -> 0 .. Len(rows)]
    /\ job \in [Requests -> Job]
    /\ faults \in 0 .. MaxFaults

Init ==
    /\ rows = <<>> /\ due = {}
    /\ todo = [s \in Schedulers |-> <<>>]
    /\ stage = [s \in Schedulers |-> "idle"]
    /\ pc = [r \in Requests |-> "unsent"]
    /\ arg = [r \in Requests |-> 0]
    /\ job \in [Requests -> Job]
    /\ faults = 0

Fault == faults < MaxFaults /\ faults' = faults + 1
Goto(r, l) == pc' = [pc EXCEPT ![r] = l]
SetStatus(i, status) == rows' = [rows EXCEPT ![i].status = status]
Pending(i) == rows[i].status = "pending"

\* scheduled_at passes (the scheduler looks a few seconds ahead).
BecomeDue(i) ==
    /\ i \notin due
    /\ due' = due \cup {i}
    /\ UNCHANGED <<rows, todo, stage, pc, arg, job, faults>>

-----------------------------------------------------------------------------
(* createScheduledCall. *)

\* Mutant: manual callbacks are overlooked.
PendingAiOf(l) == {i \in DOMAIN rows : rows[i].job = [lead |-> l, mode |-> "ai"] /\ Pending(i)}
PendingOf(l) == {i \in DOMAIN rows : rows[i].job.lead = l /\ Pending(i)}

\* GetPendingScheduledCallByLead; which of several is newest is left open.
LookUp(r) ==
    /\ pc[r] = "unsent"
    /\ \/ \E i \in PendingOf(job[r].lead) :
              Goto(r, "update") /\ arg' = [arg EXCEPT ![r] = i]
       \/ /\ PendingOf(job[r].lead) = {}
          /\ Goto(r, "insert") /\ arg' = [arg EXCEPT ![r] = Len(rows)]
    /\ UNCHANGED <<rows, due, todo, stage, job, faults>>

\* UpdateScheduledCall, whatever has become of the row.
\* Mutant: the update also re-opens the row, as a reschedule might be expected to.
Reopened(row, r) == [row EXCEPT !.job = job[r], !.status = "pending"]
TurnedToAi(row, r) == row.status = "dialing" /\ row.job.mode = "manual" /\ job[r].mode = "ai"
Rescheduled(row, r) == [row EXCEPT !.job = job[r], !.turned = @ \/ TurnedToAi(row, r)]
Update(r) ==
    /\ pc[r] = "update"
    /\ rows' = [rows EXCEPT ![arg[r]] = Rescheduled(@, r)]
    /\ due' = due \ {arg[r]}
    /\ Goto(r, "done")
    /\ UNCHANGED <<todo, stage, arg, job, faults>>

\* CreateScheduledCall.
Insert(r) ==
    /\ pc[r] = "insert"
    /\ rows' = Append(rows, [job |-> job[r], status |-> "pending", dials |-> 0, seen |-> arg[r],
                             restored |-> FALSE, revoked |-> FALSE, turned |-> FALSE])
    /\ Goto(r, "done")
    /\ UNCHANGED <<due, todo, stage, arg, job, faults>>

-----------------------------------------------------------------------------
(* cancelScheduledCall. *)

\* The rows CancelScheduledCall's WHERE clause matches.
Cancellable(i) == Pending(i)
Cancel(r, i) ==
    /\ pc[r] = "unsent"
    /\ Cancellable(i)
    /\ rows' = [rows EXCEPT ![i].status = "cancelled", ![i].revoked = TRUE]
    /\ Goto(r, "done")
    /\ UNCHANGED <<due, todo, stage, arg, job, faults>>

-----------------------------------------------------------------------------
(* browserCall for a scheduled callback. *)

\* The rows ClaimScheduledCallForManualDial's WHERE clause matches.
\* Mutant: a callback that is being dialled can be claimed again.
ClaimableAgain(i) == rows[i].job.mode = "manual" /\ rows[i].status \in {"pending", "dialing"}
Claimable(i) == rows[i].job.mode = "manual" /\ Pending(i)
Claim(r, i) ==
    /\ pc[r] = "unsent"
    /\ Claimable(i)
    /\ SetStatus(i, "dialing")
    /\ Goto(r, "claimed")
    /\ arg' = [arg EXCEPT ![r] = i]
    /\ UNCHANGED <<due, todo, stage, job, faults>>

\* Initiate: a placed call leaves the row dialing, also when the ticket for
\* the browser cannot be made and the call is hung up; an error restores it.
AgentDial(r) ==
    /\ pc[r] = "claimed"
    /\ Goto(r, "done") \/ Goto(r, "restore")
    /\ UNCHANGED <<rows, due, todo, stage, arg, job, faults>>

\* ResetScheduledCallToPending; its error is only logged.
Restorable(i) == rows[i].job.mode = "manual" /\ rows[i].status = "dialing"
Restore(r) ==
    /\ pc[r] = "restore"
    /\ \/ /\ rows' = IF Restorable(arg[r])
                     THEN [rows EXCEPT ![arg[r]].status = "pending", ![arg[r]].restored = TRUE]
                     ELSE rows
          /\ UNCHANGED faults
       \/ Fault /\ UNCHANGED rows
    /\ Goto(r, "done")
    /\ UNCHANGED <<due, todo, stage, arg, job>>

\* The process dies while it serves the request.
CrashRequest(r) ==
    /\ pc[r] \in {"update", "insert", "claimed", "restore"}
    /\ Fault
    /\ Goto(r, "done")
    /\ UNCHANGED <<rows, due, todo, stage, arg, job>>

-----------------------------------------------------------------------------
(* The scheduler. *)

\* The rows GetPendingScheduledCalls selects, in the order of scheduled_at.
Listable(i) == Pending(i) /\ rows[i].job.mode = "ai"
Orders(S) == {f \in [1 .. Cardinality(S) -> S] : \A a, b \in DOMAIN f : a # b => f[a] # f[b]}
ListDue(s) ==
    LET listed == {i \in due : Listable(i)} IN
    /\ stage[s] = "idle"
    /\ listed # {}
    /\ \E f \in Orders(listed) : todo' = [todo EXCEPT ![s] = f]
    /\ stage' = [stage EXCEPT ![s] = "next"]
    /\ UNCHANGED <<rows, due, pc, arg, job, faults>>

Current(s) == Head(todo[s])
NextRow(s) ==
    /\ todo' = [todo EXCEPT ![s] = Tail(@)]
    /\ stage' = [stage EXCEPT ![s] = IF Tail(todo[s]) = <<>> THEN "idle" ELSE "next"]

\* The row is marked dialing whatever has become of it since it was listed;
\* when that fails it is skipped.
MarkDialing(s) ==
    /\ stage[s] = "next"
    /\ \/ /\ SetStatus(Current(s), "dialing")
          /\ stage' = [stage EXCEPT ![s] = "marked"]
          /\ UNCHANGED <<todo, faults>>
       \/ Fault /\ NextRow(s) /\ UNCHANGED rows
    /\ UNCHANGED <<due, pc, arg, job>>

\* Initiate places the call, or the lead is missing or the dial fails.
Dial(s) ==
    /\ stage[s] = "marked"
    /\ \/ /\ rows' = [rows EXCEPT ![Current(s)].dials = @ + 1]
          /\ stage' = [stage EXCEPT ![s] = "completed"]
       \/ stage' = [stage EXCEPT ![s] = "failed"] /\ UNCHANGED rows
    /\ UNCHANGED <<due, todo, pc, arg, job, faults>>

\* The outcome is written over whatever the row holds; an error is ignored.
\* Mutant: the outcome of a failed dial is not written.
ForgetFailure(s) == IF stage[s] = "failed" THEN rows[Current(s)].status ELSE stage[s]
Outcome(s) == stage[s]
Conclude(s) ==
    /\ stage[s] \in {"completed", "failed"}
    /\ \/ SetStatus(Current(s), Outcome(s)) /\ UNCHANGED faults
       \/ Fault /\ UNCHANGED rows
    /\ NextRow(s)
    /\ UNCHANGED <<due, pc, arg, job>>

\* The process dies in the middle of a tick.
CrashTick(s) ==
    /\ stage[s] # "idle"
    /\ Fault
    /\ todo' = [todo EXCEPT ![s] = <<>>]
    /\ stage' = [stage EXCEPT ![s] = "idle"]
    /\ UNCHANGED <<rows, due, pc, arg, job>>

-----------------------------------------------------------------------------

TickStep(s) == ListDue(s) \/ MarkDialing(s) \/ Dial(s) \/ Conclude(s)
RequestStep(r) == Update(r) \/ Insert(r) \/ AgentDial(r) \/ Restore(r)

Next ==
    \/ \E s \in Schedulers : TickStep(s) \/ CrashTick(s)
    \/ \E r \in Requests : LookUp(r) \/ RequestStep(r) \/ CrashRequest(r)
    \/ \E r \in Requests, i \in DOMAIN rows : Cancel(r, i) \/ Claim(r, i)
    \/ \E i \in DOMAIN rows : BecomeDue(i)

Spec == Init /\ [][Next]_vars

\* The ticker fires every second and a started dial or request returns.
FairSpec ==
    /\ Spec
    /\ \A s \in Schedulers : WF_vars(TickStep(s))
    /\ \A r \in Requests : WF_vars(RequestStep(r))

-----------------------------------------------------------------------------
(* Properties. *)

\* One scheduler process dials a row once; every further dial takes a status
\* write that failed or a crash (Scheduler.tick: mark dialing, dial, conclude).
SchedulerDialsOnce == \A i \in DOMAIN rows : rows[i].dials <= 1 + faults

\* While an agent's browser call holds a callback no other request holds it
\* (ClaimScheduledCallForManualDial and ResetScheduledCallToPending).
CallbackHeldByOne ==
    \A q, r \in Requests :
        pc[q] \in {"claimed", "restore"} /\ pc[r] \in {"claimed", "restore"}
        /\ arg[q] = arg[r] => q = r

\* A call whose cancellation was acknowledged never returns to pending, not by
\* a reschedule, nor by an agent's restore, nor by a tick that still lists it.
CancelledNeverPending == \A i \in DOMAIN rows : rows[i].revoked => ~Pending(i)

\* A lead has two pending rows only when the second request looked before the
\* first row was inserted, or the first was restored (createScheduledCall).
TwoPendingOnlyWhenRacing ==
    \A i, j \in DOMAIN rows :
        i < j /\ rows[i].job.lead = rows[j].job.lead /\ Pending(i) /\ Pending(j) =>
            rows[j].seen < i \/ rows[i].restored

\* A due AI call does not stay pending or dialing: it is dialled, given up,
\* cancelled, rescheduled or turned manual, unless a write failed or the process
\* died, or it was a callback somebody was dialling when an update made an AI
\* call of it. That one stays dialing: the tick lists pending rows only
\* (GetPendingScheduledCalls) and the agent's restore wants a manual one.
DueCallConcludes ==
    \A i \in 1 .. Cardinality(Requests) :
        (i \in due /\ rows[i].job.mode = "ai" /\ rows[i].status \in {"pending", "dialing"})
            ~> \/ i \notin due \/ rows[i].job.mode = "manual"
               \/ rows[i].status \in {"completed", "failed", "cancelled"}
               \/ rows[i].turned /\ rows[i].status = "dialing"
               \/ faults > 0
=============================================================================
