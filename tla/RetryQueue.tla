----------------------------- MODULE RetryQueue -----------------------------
(***************************************************************************)
(* The call_retries table and its three kinds of client, statement by      *)
(* statement:                                                              *)
(*                                                                         *)
(*   status webhooks   api/dial_webhooks.go: an answered call completes    *)
(*                     the chain of its lead and campaign, a failed one    *)
(*                     checks for an active chain and then creates one     *)
(*   retry workers     workers/retry_worker.go: list the due rows, dial    *)
(*                     each in turn, count the attempt (read, then write)  *)
(*   campaign dials    any other dialer whose failures feed the queue      *)
(*                                                                         *)
(* One row of call_retries is a chain of at most MaxAttempts re-dials.     *)
(* Time is abstract: a pending row becomes due some time after its         *)
(* next_attempt_at was set, and `due` keeps the rows in that order, which  *)
(* is the ORDER BY of GetPendingRetries.  Every statement may be followed  *)
(* by a step of somebody else.  Two workers stand for the two processes    *)
(* that run at once during a blue/green deployment (scripts/deploy-go.sh). *)
(***************************************************************************)
EXTENDS Integers, Sequences, FiniteSets

CONSTANTS Workers,          \* running RetryWorker loops
          Handlers,         \* webhook requests that can be served at once
          Targets,          \* (lead, campaign) pairs
          Uncampaigned,     \* the targets whose campaign_id is NULL
          Orgs, OrgOf,      \* the organisation of a target
          MayRunOut,        \* organisations whose credit may run out
          MaxAttempts,      \* max_attempts of every row: 3
          MaxCampaignCalls, \* bound: dials that are not retries
          MaxDeliveries,    \* bound: final status callbacks the carrier sends
          MaxFaults         \* bound: crashes, failed statements, lost leads

ASSUME TargetsAssumption ==
    /\ Uncampaigned \subseteq Targets
    /\ OrgOf \in [Targets -> Orgs]
    /\ MayRunOut \subseteq Orgs
ASSUME BoundsAssumption ==
    /\ MaxAttempts \in Nat \ {0}
    /\ MaxCampaignCalls \in Nat /\ MaxDeliveries \in Nat /\ MaxFaults \in Nat

VARIABLES chains,     \* call_retries, in id order
          due,        \* ids whose next_attempt_at has passed, oldest first
          calls,      \* calls the carrier accepted, in order
          checked,    \* what each webhook handler is about to insert
          todo,       \* rows the worker's tick has listed and not finished
          step,       \* where the worker is with the first of them
          placed,     \* the call it placed for that row, 0 if none
          attempts,   \* the counter the worker read in IncrRetryAttempt
          deliveries, \* callbacks the carrier has promised so far
          faults,     \* faults so far
          broke       \* organisations with no credit left

vars == <<chains, due, calls, checked, todo, step, placed, attempts, deliveries,
          faults, broke>>

\* `answered` and `seen` are history: a chain was completed by an answered
\* call, and how many rows the handler that created it had looked at.
Chain == [target : Targets, attempts : Nat, answered : BOOLEAN, seen : Nat,
          status : {"pending", "completed", "exhausted"}]

\* `retry` is the row the call was dialled for, 0 for a campaign dial; `log`
\* its call_logs row; `told` that a final callback found that row.
Call == [target : Targets, retry : Nat, told : BOOLEAN, left : Nat,
         log : {"unsaved", "saved", "lost"},
         outcome : {"ringing", "completed", "failed"}]

\* The row a webhook handler will insert, and the rows it had looked at.
Insert == [target : Targets, seen : Nat]

TypeOK ==
    /\ chains \in Seq(Chain)
    /\ due \in Seq(DOMAIN chains)
    /\ calls \in Seq(Call)
    /\ checked \in [Handlers -> SUBSET Insert]
    /\ todo \in [Workers -> Seq(DOMAIN chains)]
    /\ step \in [Workers -> {"idle", "next", "dialed", "read"}]
    /\ placed \in [Workers -> Nat]
    /\ attempts \in [Workers -> Nat]
    /\ deliveries \in 0 .. MaxDeliveries
    /\ faults \in 0 .. MaxFaults
    /\ broke \subseteq Orgs

Init ==
    /\ chains = <<>> /\ due = <<>> /\ calls = <<>>
    /\ checked = [h \in Handlers |-> {}]
    /\ todo = [w \in Workers |-> <<>>]
    /\ step = [w \in Workers |-> "idle"]
    /\ placed = [w \in Workers |-> 0]
    /\ attempts = [w \in Workers |-> 0]
    /\ deliveries = 0
    /\ faults = 0
    /\ broke = {}

-----------------------------------------------------------------------------
(* Dialling: Initiator.Initiate, which logs the call after the carrier has *)
(* already accepted it.                                                    *)

Ring(t, r) ==
    calls' = Append(calls, [target |-> t, retry |-> r, told |-> FALSE, left |-> 0,
                            log |-> "unsaved", outcome |-> "ringing"])

Fault == faults < MaxFaults /\ faults' = faults + 1

\* A dial-all, scheduled or manual call of the target.
CampaignDial(t) ==
    /\ Cardinality({c \in DOMAIN calls : calls[c].retry = 0}) < MaxCampaignCalls
    /\ OrgOf[t] \notin broke
    /\ Ring(t, 0)
    /\ UNCHANGED <<chains, due, checked, todo, step, placed, attempts, deliveries, faults, broke>>

\* SaveCallLog; its error is only logged.
SaveCallLog(c) ==
    /\ calls[c].log = "unsaved"
    /\ \/ calls' = [calls EXCEPT ![c].log = "saved"] /\ UNCHANGED faults
       \/ calls' = [calls EXCEPT ![c].log = "lost"] /\ Fault
    /\ UNCHANGED <<chains, due, checked, todo, step, placed, attempts, deliveries, broke>>

\* The last call of the organisation that was billed used up its credit.
RunOut(o) ==
    /\ o \in MayRunOut \ broke
    /\ broke' = broke \cup {o}
    /\ UNCHANGED <<chains, due, calls, checked, todo, step, placed, attempts,
                    deliveries, faults>>

-----------------------------------------------------------------------------
(* The carrier. *)

\* The call ends, and the carrier will report it n times: not at all when the
\* callback is lost, more than once when it retries.
CarrierEnds(c) ==
    /\ calls[c].outcome = "ringing"
    /\ \E n \in 0 .. MaxDeliveries - deliveries, o \in {"completed", "failed"} :
           /\ calls' = [calls EXCEPT ![c].outcome = o, ![c].left = n]
           /\ deliveries' = deliveries + n
    /\ UNCHANGED <<chains, due, checked, todo, step, placed, attempts, faults, broke>>

-----------------------------------------------------------------------------
(* Status webhooks. *)

\* WHERE campaign_id=? with NULL matches no row.
SameChain(r, t) == chains[r].target = t /\ t \notin Uncampaigned
ActiveChain(r, t) == SameChain(r, t) /\ chains[r].status \in {"pending", "exhausted"}
\* Mutants: an exhausted chain does not block a new one; nothing is queued for
\* an organisation without credit.
HasPendingRetry(t) == \E r \in DOMAIN chains : SameChain(r, t) /\ chains[r].status = "pending"
HasRetryOrNoCredit(t) == OrgOf[t] \in broke \/ \E r \in DOMAIN chains : ActiveChain(r, t)
HasPendingOrExhaustedRetry(t) == \E r \in DOMAIN chains : ActiveChain(r, t)

\* The chains after CompleteActiveRetry.
\* Mutant: it writes a status nothing else knows.
WrongStatus(t) == [r \in DOMAIN chains |->
    IF ActiveChain(r, t) THEN [chains[r] EXCEPT !.status = "answered"] ELSE chains[r]]
CompleteActiveRetry(t) == [r \in DOMAIN chains |->
    IF ActiveChain(r, t) THEN [chains[r] EXCEPT !.status = "completed", !.answered = TRUE]
    ELSE chains[r]]

\* A final callback arrives.  Without a call_logs row it is acknowledged and
\* forgotten; "completed" closes the chain; "failed" checks for an active one.
ReceiveStatus(h, c) ==
    /\ checked[h] = {}
    /\ calls[c].left > 0
    /\ calls' = [calls EXCEPT ![c].left = @ - 1,
                               ![c].told = @ \/ calls[c].log = "saved"]
    /\ \E t \in Targets :
           /\ t = calls[c].target
           /\ chains' = IF calls[c].log = "saved" /\ calls[c].outcome = "completed"
                        THEN CompleteActiveRetry(t) ELSE chains
           /\ checked' = IF calls[c].log = "saved" /\ calls[c].outcome = "failed"
                            /\ ~HasPendingOrExhaustedRetry(t)
                         THEN [checked EXCEPT ![h] = {[target |-> t, seen |-> Len(chains)]}]
                         ELSE checked
    /\ UNCHANGED <<due, todo, step, placed, attempts, deliveries, faults, broke>>

\* CreateRetry by a handler that saw no active chain; its error is only logged.
CreateRetry(h) ==
    /\ \E new \in checked[h] :
           \/ /\ chains' = Append(chains,
                    [target |-> new.target, attempts |-> 0, status |-> "pending",
                     answered |-> FALSE, seen |-> new.seen])
              /\ UNCHANGED faults
           \/ Fault /\ UNCHANGED chains
    /\ checked' = [checked EXCEPT ![h] = {}]
    /\ UNCHANGED <<due, calls, todo, step, placed, attempts, deliveries, broke>>

-----------------------------------------------------------------------------
(* The worker. *)

Pending(r) == chains[r].status = "pending"

\* The ids of s that are in S, in their order: SelectSeq as a function, which can
\* be reasoned about.
SelectIn(s, S) ==
    LET f[n \in 0 .. Len(s)] ==
            IF n = 0 THEN <<>>
            ELSE IF s[n] \in S THEN Append(f[n - 1], s[n]) ELSE f[n - 1]
    IN  f[Len(s)]

\* next_attempt_at of a pending row passes.
BecomeDue(r) ==
    /\ Pending(r)
    /\ \A i \in DOMAIN due : due[i] # r
    /\ due' = Append(due, r)
    /\ UNCHANGED <<chains, calls, checked, todo, step, placed, attempts, deliveries, faults, broke>>

\* GetPendingRetries, at the start of a tick.
ListDue(w) ==
    /\ step[w] = "idle"
    /\ LET listed == SelectIn(due, {r \in DOMAIN chains : Pending(r)})
       IN  listed # <<>> /\ todo' = [todo EXCEPT ![w] = listed]
    /\ step' = [step EXCEPT ![w] = "next"]
    /\ UNCHANGED <<chains, due, calls, checked, placed, attempts, deliveries, faults, broke>>

\* The calls placed for a row.
CallOf(r) == {c \in DOMAIN calls : calls[c].retry = r}

\* The worker's tick has come to row r.
AtRow(w, r, l) == step[w] = l /\ r = Head(todo[w])

\* The tick goes on with the next listed row, or is over.
NextRow(w) ==
    /\ todo' = [todo EXCEPT ![w] = Tail(@)]
    /\ step' = [step EXCEPT ![w] = IF Tail(todo[w]) = <<>> THEN "idle" ELSE "next"]

\* GetLeadByID finds no lead, or fails: the row is given up.
LeadMissing(w, r) ==
    /\ AtRow(w, r, "next")
    /\ Fault
    /\ chains' = [chains EXCEPT ![r].status = "exhausted"]
    /\ NextRow(w)
    /\ UNCHANGED <<due, calls, checked, placed, attempts, deliveries, broke>>

\* ErrInsufficientCredits ends the whole tick.
NoCredit(w, r) ==
    /\ AtRow(w, r, "next")
    /\ OrgOf[chains[r].target] \in broke
    /\ todo' = [todo EXCEPT ![w] = <<>>]
    /\ step' = [step EXCEPT ![w] = "idle"]
    /\ UNCHANGED <<chains, due, calls, checked, placed, attempts, deliveries, faults,
                   broke>>

\* Initiate: the carrier takes the call of an organisation with credit, or of
\* any when the balance cannot be read; or the dial fails (do-not-call list,
\* bad account, carrier error).
Dial(w, r) ==
    /\ AtRow(w, r, "next")
    /\ \/ /\ Ring(chains[r].target, r)
          /\ placed' = [placed EXCEPT ![w] = Len(calls) + 1]
          /\ IF OrgOf[chains[r].target] \in broke THEN Fault ELSE UNCHANGED faults
       \/ UNCHANGED <<calls, placed, faults>>
    /\ step' = [step EXCEPT ![w] = "dialed"]
    /\ UNCHANGED <<chains, due, checked, todo, attempts, deliveries, broke>>

\* IncrRetryAttempt reads the counter once Initiate has returned.
ReadAttempts(w, r) ==
    /\ AtRow(w, r, "dialed")
    /\ placed[w] # 0 => calls[placed[w]].log # "unsaved"
    /\ placed' = [placed EXCEPT ![w] = 0]
    /\ attempts' = [attempts EXCEPT ![w] = chains[r].attempts]
    /\ step' = [step EXCEPT ![w] = "read"]
    /\ UNCHANGED <<chains, due, calls, checked, todo, deliveries, faults, broke>>

\* The row after IncrRetryAttempt, whose UPDATE sets the status of an
\* exhausted row whatever it has become, and next_attempt_at of any other.
\* Mutants: an off-by-one bound, and an attempt that is not counted.
LateExhaustion(row, n) ==
    IF n > MaxAttempts THEN [row EXCEPT !.attempts = n, !.status = "exhausted"]
    ELSE [row EXCEPT !.attempts = n]
Uncounted(row, n) == row
Incremented(row, n) ==
    IF n >= MaxAttempts THEN [row EXCEPT !.attempts = n, !.status = "exhausted"]
    ELSE [row EXCEPT !.attempts = n]

WriteAttempts(w, r) ==
    /\ AtRow(w, r, "read")
    /\ chains' = [chains EXCEPT ![r] = Incremented(@, attempts[w] + 1)]
    /\ due' = SelectIn(due, DOMAIN chains \ {r})
    /\ NextRow(w)
    /\ attempts' = [attempts EXCEPT ![w] = 0]
    /\ UNCHANGED <<calls, checked, placed, deliveries, faults, broke>>

\* IncrRetryAttempt fails, before or after its SELECT; the error is ignored.
IncrFails(w) ==
    /\ step[w] = "read"
    /\ Fault
    /\ NextRow(w)
    /\ attempts' = [attempts EXCEPT ![w] = 0]
    /\ UNCHANGED <<chains, due, calls, checked, placed, deliveries, broke>>

\* The process stops in the middle of a tick: a call it has not logged yet
\* will never be.
Crash(w) ==
    /\ step[w] # "idle"
    /\ Fault
    /\ calls' = [c \in DOMAIN calls |->
           IF c = placed[w] /\ calls[c].log = "unsaved"
           THEN [calls[c] EXCEPT !.log = "lost"] ELSE calls[c]]
    /\ todo' = [todo EXCEPT ![w] = <<>>]
    /\ step' = [step EXCEPT ![w] = "idle"]
    /\ placed' = [placed EXCEPT ![w] = 0]
    /\ attempts' = [attempts EXCEPT ![w] = 0]
    /\ UNCHANGED <<chains, due, checked, deliveries, broke>>

\* One step of a running tick, or the start of the next one.
WorkerStep(w) ==
    \/ ListDue(w) \/ IncrFails(w)
    \/ \E r \in DOMAIN chains :
           \/ LeadMissing(w, r) \/ NoCredit(w, r) \/ Dial(w, r)
           \/ ReadAttempts(w, r) \/ WriteAttempts(w, r)

Next ==
    \/ \E t \in Targets : CampaignDial(t)
    \/ \E c \in DOMAIN calls : SaveCallLog(c) \/ CarrierEnds(c)
    \/ \E c \in DOMAIN calls, h \in Handlers : ReceiveStatus(h, c)
    \/ \E h \in Handlers : CreateRetry(h)
    \/ \E r \in DOMAIN chains : BecomeDue(r)
    \/ \E w \in Workers : WorkerStep(w) \/ Crash(w)
    \/ \E o \in Orgs : RunOut(o)

Spec == Init /\ [][Next]_vars

\* Time passes, a started Initiate returns and the ticker keeps firing.
\* There are at most as many rows as callbacks.
FairSpec ==
    /\ Spec
    /\ WF_vars(\E c \in DOMAIN calls : SaveCallLog(c))
    /\ \A r \in 1 .. MaxDeliveries : WF_vars(r \in DOMAIN chains /\ BecomeDue(r))
    /\ \A w \in Workers : WF_vars(WorkerStep(w))

-----------------------------------------------------------------------------
(* Properties. *)

Active(r) == chains[r].status \in {"pending", "exhausted"}

\* A lead is never called more often for one chain than max_attempts plus one
\* call for each crash or failed UPDATE that lost a count, and a pending chain
\* always has an attempt left (one RetryWorker: IncrRetryAttempt).
DialsPerChainAccounted ==
    \A r \in DOMAIN chains :
        /\ Cardinality(CallOf(r)) <= MaxAttempts + faults
        /\ chains[r].attempts <= MaxAttempts
        /\ Pending(r) => chains[r].attempts < MaxAttempts

\* Handlers of one campaign target create a second active chain only when the
\* first was inserted after the second's check, or had been completed by an
\* answered call and was reopened (HasPendingOrExhaustedRetry, CreateRetry).
DuplicateChainOnlyWhenRacing ==
    \A i, j \in DOMAIN chains :
        i < j /\ SameChain(i, chains[j].target) /\ Active(i) /\ Active(j) =>
            chains[j].seen < i \/ chains[i].answered

\* Every chain ends, answered or out of attempts, unless an organisation is out
\* of credit: the worker may crash and counts may be lost (RetryWorker.tick).
EveryChainEnds ==
    \A r \in 1 .. MaxDeliveries :
        (r \in DOMAIN chains) ~> (r \in DOMAIN chains /\ ~Pending(r)) \/ broke # {}

\* "inserts a row into call_retries when a call ends in a transient-failure
\* status that's worth re-attempting" (dial_webhooks.go): once its callback has
\* found the call log and no statement failed, the target of a failed call has a
\* chain, and an active one as long as no call of it was reported answered.
FailedCallIsQueued ==
    faults = 0 /\ (\A h \in Handlers : checked[h] = {}) =>
        \A c \in DOMAIN calls :
            calls[c].outcome = "failed" /\ calls[c].told =>
                \E r \in DOMAIN chains :
                    /\ chains[r].target = calls[c].target
                    /\ \/ Active(r)
                       \/ \E d \in DOMAIN calls :
                              /\ calls[d].target = calls[c].target /\ calls[d].told
                              /\ calls[d].outcome = "completed"
=============================================================================
