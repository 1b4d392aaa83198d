# Callified: TLA+ specifications

Callified is an AI calling platform: a Go backend (`src/backend`) dials leads through a
carrier (Exotel, Tata, Plivo, Twilio), runs the conversation over a media websocket with
speech and language services, bills the organisation by the minute, and retries or schedules
calls. This directory holds the specifications kept beside that code: TLA+ modules
translated from it, TLC configurations that check them on small instances, and proofs for
TLAPS. `PROJECT.json` is the index: which lines each definition translates, which run checks
what, and which change to the code would break each property.

Run from this directory:

    tlc -workers 2 -config MCTopUp.cfg MCTopUp      # a model-checking run
    tlapm CreditProofs.tla                          # the proofs of a module

## The system

One Go process (`backend/cmd/audiod/main.go`) serves the HTTP API, carrier webhooks and media
websockets, and runs three background loops. It shares a MySQL database and a Redis instance
(with an in-memory fallback) with nobody, except during a deployment: `scripts/deploy-go.sh`
starts the new process before it stops the old one, so for up to a minute two processes run,
with two schedulers and two retry workers.

| Component | State | Operations | Talks to |
|---|---|---|---|
| Prepaid credit ledger (`db/credits.go`) | `org_credits`, `credit_transactions` | DeductCallCredits, AddCredits, SetOrgCreditMinutes, GetOrgCredit | MySQL transactions, row locks |
| Credit top-up (`billing/billing.go`, `api/billing.go`) | `billing_payments`, `invoices` | CreateCreditOrder, VerifyAndAddCredits, razorpayWebhook | ledger, Razorpay |
| Retry queue (`db/retries.go`, `workers/retry_worker.go`) | `call_retries` | create, complete, list due, count attempt; a tick every 2 min | dial initiator, carrier webhooks |
| Carrier webhooks (`api/dial_webhooks.go`, `api/plivo.go`) | `call_logs.status` | status, answer, recording callbacks | retry queue, live sessions, dispositions |
| Scheduled calls (`db/scheduled_calls.go`, `workers/scheduler.go`, `api/browser_call.go`) | `scheduled_calls` | create, reschedule, cancel, claim, restore; a tick every second | dial initiator, agents' browsers |
| Dial initiator (`dial/initiator.go`) | pending-call keys in Redis, `call_logs` | Initiate | carrier, credit gate, preparation |
| Live-model preparation (`wshandler/gemini_preparation.go`, `gemini_prewarmer.go`) | `preparedLive`, one record per call | reserve, build, bind, take, expire | initiator, media session, Gemini |
| Media session (`wshandler/handler.go`, `session.go`, `pipeline.go`, the watchdogs) | two registries of sessions, one `CallSession` per socket | start, media, turn, barge-in, maximum duration, silence, forced close, finalise | speech, LLM, Gemini Live, Redis, recording |
| Recording and analysis (`recording/service.go`, the upload of `api/misc.go`) | `call_transcripts`, recording files | save, attach, upload | ledger, dispositions |
| Monitor, whispers, takeover (`wshandler/monitor.go`, `redis/store.go`) | Redis keys per stream | attach, whisper, take over, release, leave | turn pipeline |
| Agent bridge (`wshandler/bridge.go`) | `agentConnected`, two audio channels | connect, relay, hang up | media session |
| Dispositions, CRM poller, WhatsApp agent, presence | their own tables | one handler or loop each | the call path |
| CRUD, authentication, reports, clients, receptionist demo | single rows | request-local | - |

How a call flows: a request, the scheduler or the retry worker calls `Initiate`. It passes the
call-hours and credit gates, reserves a Gemini session (preparation), asks the carrier for the
call, records the call's context in Redis, binds the reservation to the SID, and logs the call.
The carrier fetches an answer document and opens a media stream, which is registered, gets its
identity from the start event and its lead from the context in Redis, and takes the prepared
session over. The conversation runs on the speech pipeline or on Gemini Live, both of which can
be interrupted, listened to by managers, and ended by the model, by silence, by the duration
limit or by the carrier. Status callbacks update the log and the retry queue and close the
media socket. When the stream ends the session is finalised: recording, transcript row,
analysis, and one credit deduction for the call.

### What is hard, and what must hold

- **Ledger.** Two finalisations of one call, top-ups and adjustments run as concurrent SQL
  transactions at REPEATABLE READ. The ledger must explain the balance; a call is billed once;
  the balance does not go below zero; transactions that lock each other out must return.
- **Top-up.** Browser requests, retries and a webhook share a row, and every statement can
  fail. An order is credited once, and a customer told "verified" has the credit.
- **Retry queue.** Callbacks are repeated, late, lost or early; the worker dials from a list
  read earlier and may die anywhere. The number of calls per lead is bounded, a failed call is
  queued, there is one chain per campaign lead, and every chain ends.
- **Scheduled calls.** The scheduler works on a list read earlier while users cancel,
  reschedule and claim. A call is dialled once, a cancelled one stays cancelled, a callback is
  held by one agent, a due call is concluded.
- **Preparation.** A builder goroutine, the dial, its context, two timers and media streams
  race for one connection. It always has an owner, it is closed when nobody answers, and no
  deadline closes it under an answered call.
- **Identity of a call.** The context is recorded after the carrier has dialled, under two keys
  of which one is shared by all calls. A call must be served as its own lead, and not as the
  one that happened to be dialled last.
- **The pipeline's call.** Four goroutines share flags and two bounded channels, and every
  barge-in leaves sleeping goroutines behind. A requested hang-up happens, no barge-in silences
  the agent for good, a call over its limit ends.
- **The native-audio call.** The model's events, the audio pump, redirects and interruptions
  share a playback epoch. A hang-up that was issued, or a goodbye being spoken, is not lost.
- **Silence.** Two watchdogs check a generation, unlock, and then act. A reply is requested
  exactly when one is missing, and only a customer who stayed silent is hung up on.
- **After the call.** Up to three writers save one call in separate statements. There should be
  one row, with the whole conversation and the recording, and no writer should cover what
  another has saved.
- **Takeover.** A flag is read once per turn under a key that changes during the call. The
  agent is silent while a manager talks, comes back afterwards, and gets each hint once.

The full list, each hazard at its line and with the properties about it, is under `hazards` in
`PROJECT.json`.

## The modules

| Module | Models | State and actions |
|---|---|---|
| `CreditLedger` | what the ledger promises | balance and list of rows; `Post` appends a row and moves the balance by its amount |
| `CreditTx` | `db/credits.go`, statement by statement | committed tables, per transaction its last statement, snapshot, locks and uncommitted writes; one action per SQL statement, commit, rollback, and the deadlock victim |
| `TopUp` | `billing.go`, `db/billing.go`, `razorpayWebhook` | status of the `billing_payments` row, credits and invoices per order, where each request and webhook is; one action per database call, each of which may fail, and a crash |
| `RetryQueue` | `db/retries.go`, `retry_worker.go`, the status webhooks | rows of `call_retries` in id order, the due list, calls the carrier accepted, what each handler and worker has read; one action per statement, crash, late log, carrier callback |
| `ScheduledCalls` | `db/scheduled_calls.go`, `scheduler.go`, `api/scheduled_calls.go`, `browser_call.go` | rows of `scheduled_calls`, the scheduler's list, where each request is; one action per statement, crash |
| `GeminiPreparation` | `gemini_preparation.go`, `gemini_prewarmer.go`, the bind calls of `Initiate` | the fields of `pendingGeminiPreparation`, the map entry, the builder, the AfterFunc, two timers, the connection, the streams; one action per critical section |
| `MediaRegistry` | the pending-call keys (`Initiate`, `redis/store.go`), `exotelXML`, `ServeHTTP`, the start event, `CloseCall` | per call where the dial and the media handler stand, the keys `pending:<sid>`, `pending:phone:<number>` and `pending:latest`, the lead and campaign in the stream URL, the session's lead, identity and campaign, the two registries; one action per Redis call or registry access, each of the first may fail |
| `CallSession` | `session.go`, `pipeline.go`, `barge_in.go`, the duration timers | the atomic flags of `CallSession`, the two channels, the sleeping barge-in goroutines, and where the recogniser, the pipeline, the speech worker and the limit stand; one action per access to a flag or channel that another goroutine may come between |
| `LiveSession` | the Gemini Live callbacks of `startSTT`, the audio pump, `ConfirmLiveInterruption` | reason and flags of the close, the output turn, the language redirect, `audioOut`, the packet in hand, the sentinels; one action per event, and one per step where a callback can be overtaken |
| `LiveWatchdogs` | `live_response_watchdog.go`, `live_inactivity_watchdog.go` and the callbacks that drive them | timers, generation check passed or not, reminder count, goodbye under way; `Arm`, `Cancel`, fire, recover, remind, goodbye, and each event of the model |
| `PostCall` | `finalizeCall`, `recording/service.go`, the upload of `misc.go` | transcript rows of one call in id order, each with the finalizer whose WAV it has, chat history and audio buffers, where each finalizer and upload stands; one action per statement or buffer drained |
| `Takeover` | `ServeMonitor`, whispers and takeover of `redis/store.go`, their reads in `processTranscript` | flag and hint queue per stream id, the monitors, the turn, the sentences queued and spoken; one action per Redis call or step of a turn |

Each component has an `MC` module with the values of its constants. The proofs are in eight
modules: `CreditProofs` (of `CreditTx` and `TopUp`), `RetryQueueProofs`, `ScheduledCallsProofs`,
`RealtimeProofs` (of `GeminiPreparation` and `LiveSession`), `MediaRegistryProofs`,
`PipelineProofs` (of `Takeover` and `CallSession`), `LiveWatchdogsProofs` and `PostCallProofs`.
Where two components share a proof module, the definitions every specification has carry the
component's name in one of them: `TopUpInit`, `TopUpSpec`, `CallNext`, `CallTypeOK`, `liveVars`.

How they compose. `CreditTx` is proved to implement `CreditLedger`, so `TopUp` takes
`AddCredits` as one atomic step, and `PostCall` shows how two finalizers come to bill one call,
the case of `CreditTx`. `RetryQueue` and `ScheduledCalls` see a dial as an accepted call or an
error, which is what `Initiate` returns; `MediaRegistry` has what `Initiate` writes between the
two. `LiveSession` takes the silent-customer goodbye as an event that may come at any time, and
`LiveWatchdogs` says when it does, so what the first shows holds for the times of the second.
`CallSession` and `LiveSession` are the two modes of one session: `startSTT` chooses one at the
start of the call and never goes back.

Conventions. Variables named *history* in a comment are not in the code; they record a
cause (who overlapped, who looked at what, which cancellation was acknowledged, whether
playback was discarded) so that a property can name it. A definition marked *Mutant* is a
plausible mistake in the definition below it and is used by no specification; `PROJECT.json`
says which property it breaks.

### Points of translation

- *MySQL.* The connection sets no isolation level, so plain SELECTs of a transaction read the
  snapshot of its first SELECT, and UPDATEs work on the latest committed row. INSERT IGNORE on
  an existing key takes a shared lock, UPDATE an exclusive one; locks are held to the end.
  Two transactions that both hold the shared lock and want the exclusive one are a deadlock,
  of which InnoDB aborts one. Statements outside a transaction (the other modules) are atomic.
- *Redis.* One command, or one MULTI/EXEC block, is atomic and may fail. A pop of hints reads
  the list, and its EXEC fails when another push came in between.
- *Time* is an order of events. `next_attempt_at`, `scheduled_at`, every timer and every
  `time.Sleep` are steps that may come at any moment, so a property holds for every choice of
  the durations. "Speech was playing recently" is a choice for the same reason.
- *Carrier.* A call that was accepted ends once; the final callback may be sent again after
  it was answered 200, delayed, or never come. The log row that a callback looks for may not
  be there yet (Exotel, Tata), which is the order of `Initiate`.
- *Language.* What a transcript says is a choice: whether it confirms a barge-in, sounds like a
  voicemail, says goodbye or repeats a question. So is everything a model answers.
- *Crashes* lose the variables of a loop (list, position, counter) and keep the tables. The
  session modules have none: a session does not survive its process.
- *Go timers and callbacks.* `Stop` does not recall a callback that has started, so each timer
  has a step between firing and entering its lock; the watchdogs have one more between leaving
  the lock and acting.
- *Channels.* A send with `select`/`default` drops when the channel is full; a send without it
  waits. Draining a channel for an interruption is one step.
- *client.Run* returns some time after its context is cancelled: a connection is `closing`
  before it is `ended`.

## What is checked

Runs that pass:

| Run | Instance | What it shows |
|---|---|---|
| `credit_tx` | two billings of one call, one free call, one top-up, one adjustment; opening balance 3, costs 2 | `LedgerExplainsBalance`: refinement of `CreditLedger`. `RepeatChargeOnlyWhenOverlapping`: billing one call twice takes overlapping transactions. `OverdrawnOnlyWhenOverlapping`: a negative balance takes a stale read. `EveryCallReturns`: no transaction waits for ever |
| `top_up` | two orders, three verify requests, one webhook, two faults | `CreditedTwiceOnlyWhenRacing`; `VerifiedUncreditedOnlyWhenInterrupted`: a paid, acknowledged order without credit has a named cause |
| `retry_queue` | one worker, two concurrent handlers, one campaign lead, 2 attempts per chain, one campaign dial, two callbacks, one fault, credit may run out | `DialsPerChainAccounted`: at most `MaxAttempts` dials and one per lost count. `DuplicateChainOnlyWhenRacing`. `FailedCallIsQueued`: a failure whose callback found the log has a chain. `EveryChainEnds`, while there is credit |
| `scheduled_calls` | one scheduler, three requests of any kind, one lead, one fault | `SchedulerDialsOnce`: one dial, and one more for a fault. `CallbackHeldByOne`, `CancelledNeverPending`, `TwoPendingOnlyWhenRacing`. `DueCallConcludes`: an AI call whose time has passed, whatever its status then, is concluded, unless a write failed or an update made it of a callback that somebody was dialling |
| `gemini_preparation` | one call, three media streams | `OpenConnectionHasOwner`, `FreshSessionLeavesNoOrphan`, `OnlyItsCallClosesAttached`, `UnansweredConnectionCloses` |
| `media_registry` | a campaign call that names its campaign, a manual call that names none and whose number was dialled before, web simulations, one Redis failure | `ServedUnderOwnContext`: a timely call has its own name, number and organisation, and its own lead and campaign, but for a manual call in a legacy app. `MuteOnlyIfUntimely`: only an untimely caller is left on a silent line. Untimely is a call that was looked for before it was recorded, whose context a forced close deleted, or any once Redis failed |
| `call_session` | one transcript and two sentences of room, one sleeping goroutine of each kind | `StrandedOnlyByInterruption`: somebody will carry out a requested hang-up, unless an interruption discarded it. `BargeInExpires`: whoever silences the agent leaves a goroutine that lifts it. `LimitedCallEnds`, unless a hang-up was taken back or a sentinel discarded |
| `live_session` | two packets and one sentinel of room, one sleeping goroutine | `HangUpNotLost`: an issued hang-up stays with somebody, and a goodbye is not under a barge-in, unless playback was discarded. `DoomedCallEnds`: a limited call ends unless another close was requested first, a failed one unless its sentinel was discarded |
| `live_watchdogs` | three reminders | `SilenceIsWatched`: a recovery is due exactly while an utterance is unanswered. `GoodbyeNeedsSilence`. `SilenceEnds`: silence is hung up on in the end |
| `post_call` | the handler, two forced closes, two uploads, two turns, two polls, one fault | `DuplicateRowOnlyWhenRacing`. `CallIsRecorded`: without a failure the WAV of each finalizer is on a row unless another with a WAV found that row empty, and the whole history is, unless another found the handler's row empty. `ClosedCallIsKept` |
| `takeover` | two managers, two hints, one queued sentence, one Redis failure | `TakeoverStopsTurns`: no turn begins while a manager holds the call, unless that one attached under the provisional stream id, another ended the takeover, or Redis failed. `TakeoverSilences`, `TakeoverHasManager`, `HintGivenOnce` |

The type invariant (`TypeOK`, `CallTypeOK`, `LiveTypeOK`) is a property of `retry_queue`,
`call_session`, `live_session` and `post_call`. It is a theorem of every component but
`CreditLedger` (below).

One run ends in a counterexample of a sentence the repository says about itself:

| Run | Sentence | What happens |
|---|---|---|
| `media_registry_listed` | "ActiveSessions returns a snapshot of every live call session." (`active_sessions.go:31`) | the session is registered under its provisional `stream_sid`; the start event replaces it; the handler deletes the entry of the new one, and the old entry is listed for ever |

### What the exceptions in the properties say

Most invariants have the form "X only when Y". Y names what the modelled code does to X: within
the model there is no other way, and each disjunct is there because the code gets there. (One
needs a longer history than its run has: a chain completed by an answer and reopened while a new
one is active. The theorem covers it.) What the model abstracts, listed under Limits, is outside
this claim. In words:

- A call is billed twice when two finalizers overlap (`credits.go:196`); `PostCall` has the
  forced close that starts the second one (`active_sessions.go:95`).
- An order that the webhook captured first is acknowledged without credit (`api/billing.go:384`).
- A chain that an answered call completed is reopened as exhausted by the worker's
  unconditional UPDATE (`retries.go:164`); chains without a campaign match no look-up, so every
  failure opens another (`retries.go:182`); a callback before the log row is acknowledged and
  forgotten (`initiator.go:319`); one organisation without credit ends every tick
  (`retry_worker.go:79`).
- A scheduled call that was cancelled after the tick listed it is dialled (`scheduler.go:65`).
- A manual callback that is claimed between the look-up and the write of a request for the same
  lead becomes an AI call in `dialing` (`db/scheduled_calls.go:145`): the tick lists pending rows
  only, and the agent's restore wants a manual one, so its time passes and nobody calls.
- A callee who answers before the context is recorded is served as the lead in "latest", or by
  nobody; a manual call in a legacy app, whose lead id is 0, gets the stream URL of the context
  that was found under its number or in "latest" (`dial_webhooks.go:108-119`). The start event
  overwrites only what the call's own context has (`handler.go:1437-1467`): the lead of the URL
  stays, and for a manual call without a campaign (`manual_call.go:93`) so do that context's
  campaign, voice, language and limit.
- A barge-in recovered from a final transcript drains the sentinel of a hang-up without taking
  the hang-up back (`session.go:657`); after a hang-up that is taken back the speech worker is
  gone, and the duration limit, which gave way to that hang-up, is not armed again
  (`handler.go:1843`).
- A Live interruption that looked at the flags before a final close discards the close
  (`session.go:632`), as does the interruption a language redirect waits for.
- A forced close and the handler write two rows, or one each, of the same call, each with a part
  of the recording; or both find the same newest row empty and the second fills over the
  conversation of the first (`service.go:136`). A forced close before the first turn saves "[]"
  with the audio so far; the handler takes that row for a placeholder and puts the rest of the
  recording where the first part was (`service.go:149-158`).
- A takeover set under the provisional stream id is read by nobody, a manager who leaves ends
  the takeover of another (`monitor.go:289`), and a hint is repeated when a push collides with
  a pop (`store.go:223`).

### Bounds

Each bound is a constant of its module.

- *Ledger, top-up.* Two transactions on one reference, a top-up and an adjustment are all the
  kinds there are: double billing and stale caps need two transactions, the lock cycle needs
  two, and the fifth (a free call) is the one that locks and commits without writing. Three
  verify requests let a third one follow a race of two; two faults let a retry fail as well.
- *Queues.* Two callbacks and two handlers are what a duplicate chain needs. Two attempts per
  chain instead of three: the third differs from the second in the counter only. Three requests
  make every pair of schedule, reschedule, cancel and claim meet with a third one in between.
- *Preparation.* Calls do not interact (SIDs are unique); three streams are one more than a
  reconnect needs.
- *Registry.* Calls meet in "latest" and under a number, and two, one of each kind, with a web
  simulation as the third writer, fill every combination of what a key and a session can hold.
  `Rung` are the calls to a number the simulation is given (the manual call), `Bare` the
  contexts without a campaign (the manual call's), `Named` the calls whose start event brings a
  `stream_sid` (the campaign call; the manual one stands for a carrier that sends none).
- *Sessions.* The channels hold 32, 64 and 256 in the code. What matters is whether one is
  empty, full, or has a sentinel behind something else, and rooms of one and two have all
  three. One sleeping goroutine of each kind may outlive the barge-in it was started for, which
  is what a second one could do too; a barge-in that would start a second is left out.
- *Watchdogs.* The three reminders of the code.
- *Post-call.* `CloseCall` runs once per terminal callback: two forced closes beside the handler
  give three writers. Two turns tell an early from a late history; ten polls only repeat.
- *Takeover.* A second manager is the one who interferes; a second hint is the push that
  disturbs a pop; one queued sentence stands behind the one being spoken.

The invariants named below as proved do not depend on any of these bounds.

Deadlock checking is off where the system may stop for good: every request served, every chain
closed, every call over. It is on for `credit_tx`, where a finished instance stutters and
anything else that cannot move would be a hanging transaction, and for `live_watchdogs`, where
the customer may always speak.

### Fairness

- `CreditTx`: some enabled statement or deadlock abort is eventually executed. The database
  runs a statement whose lock is free, and InnoDB's detector is on by default.
- `RetryQueue`: the ticker fires and a tick's loop goes on (`time.Ticker`, one goroutine), a
  call that was accepted is logged, and a time that was set passes. Nothing is assumed of
  carriers, webhooks, crashes or credit.
- `ScheduledCalls`: the same of the tick, and of a request that has begun. Nobody has to cancel,
  reschedule or answer.
- `GeminiPreparation`: goroutines run, the dial returns (its HTTP clients have timeouts), the
  90 s timer fires, and a stream that has loaded an entry goes on. Nothing is assumed of the
  2 min deadline, so it is shown to be a second line of defence only, nor of Gemini or of how
  long a call lasts.
- `CallSession`, `LiveSession`: sleeping goroutines wake, the limit's timers fire, a callback
  that has begun returns, a turn ends (its HTTP clients have timeouts), the worker and the pump
  go on. Nothing is assumed of the customer, and in `LiveSession` nothing of the model: it may
  stay silent for ever.
- `LiveWatchdogs`: timers fire and their callbacks run on. Model and customer are free.
- `PostCall`: a handler whose socket is closed leaves its loop (the read fails) and waits for
  its goroutines; a finalizer goes on, and `CloseCall`'s sleep ends. The socket need not close.
- `Takeover`: a turn that has begun goes on, sentences are spoken, a monitor whose socket has
  closed runs its deferred function. Managers may stay for ever.

All are weak fairness; no action needs to be taken that is only intermittently enabled.

## What is proved

With TLAPS, for every value of the constants under the assumptions named in the modules: bounds
are naturals, sets that must differ are disjoint, functions have their types. TLC evaluates each
assumption in a passing run.

| Component | Proofs | Theorems | Argument |
|---|---|---|---|
| `CreditTx` | `CreditProofs` | `TypeCorrect`, `ImplementsLedger`, `BilledTwiceOnlyWhenOverlapping`, `OverdrawnOnlyWhenStale` | `LockInv`: the exclusive lock has one owner, only the owner has an uncommitted balance, and it starts from the committed one; a commit is then one `Post`. `BillingInv`: what a deduction saw of the ledger is a prefix of it, and its cap was right for that prefix |
| `TopUp` | `CreditProofs` | `TopUpTypeCorrect`, `CreditedTwiceOnlyWhenRaced`, `UncreditedOnlyWhenInterrupted` | `CreditInv`: of an order nothing raced on, one request at most is between read and credit, and none once it is credited. For the other direction: a row that is captured without a credit has an excuse, and no step takes the excuse away without adding the credit |
| `RetryQueue` | `RetryQueueProofs` | `TypeCorrect`, `ChainInvariant`, `DuplicateChainsOnlyFromRaces`, `FailedCallsAreQueued`, `DialsAccountedWithOneWorker`, `CountersStayInReach` | `ChainInv`: only an answered call completes a chain, and when a handler has found no open chain, the chains it had seen are completed by an answer or stay out of the duplicate check. `QueueInv`: while nothing failed, the target of a reported failure is in a handler's hands or has a chain; the worker's UPDATE keeps a chain active or exhausted, never completed. `CountInv`, for one worker: every row on the worker's list has an attempt left, the counter it has read is still the row's, and the dials of a row are its attempts, the faults, and the one in flight. The list is what `SelectIn` leaves of the due rows, which names no row twice: a row that has been counted is not on it any more. `ReachInv`, for any finite number of workers: once a row is not pending nobody lists it again, so each worker that still holds it counts it once more at most |
| `ScheduledCalls` | `ScheduledCallsProofs` | `TypeCorrect`, `CallbackExclusive`, `CancellationHolds`, `OneSchedulerDialsOnce`, `TwoPendingOnlyFromRaces` | `HoldInv`: a request that holds a callback is the reason its row is `dialing`, so no second claim matches, and a revoked row is never in the state a restore or an edit accepts. `DialInv`: a row that may still be listed, or is listed, was not dialled except for faults, but for the one in flight; this needs the assumption, stated in the theorem, that there is one scheduler. `PairInv`: the creator of a row saw no open row of its lead |
| `GeminiPreparation` | `RealtimeProofs` | `TypeCorrect`, `OpenConnectionOwned`, `FreshSessionOrphansNothing`, `AttachedOutlivesDeadlines` | `Reserved`: a reservation that is neither claimed nor out of time has somebody who answers for it (the dial, the expiry, a stream). That is why a builder may fill the slot. `OnePlace`: the connection is the builder's, in the slot or a stream's, and never two of these |
| `MediaRegistry` | `MediaRegistryProofs` | `TypeCorrect`, `ServedAsItself`, `TimelyCallsAreHeard` | `ContextKept`: the key of a call holds that call or nothing, and of a recorded call nothing is the work of a failure or a forced close. So a timely look-up finds the call's own context, and what "latest" and the number hold does not matter. `OwnOrOvertaken`: a session with another call's context, or with none, belongs to a call whose callee was faster than the dial. `OvertakenWasManual`: only a manual call can be late for its own stream URL and then in time for its start event, and if its context names no campaign the start event leaves the other's |
| `CallSession` | `PipelineProofs` | `CallTypeCorrect`, `BargeInAlwaysExpires`, `StrandedOnlyWhenInterrupted` | `BargeInExpires` is kept by every step as it stands: who sets a flag has started the goroutine in the same critical section. `EndIsRequested`: a close on its way was asked for, or taken back, and only then does the worker leave an open call. `CloserStays`: while the worker is there, a requested close has somebody who will carry it out, or its sentinel was discarded; between the drain of an interruption and its `ClearHangup` only a final close is owed |
| `LiveSession` | `RealtimeProofs` | `LiveTypeCorrect`, `HangUpKeptUnlessCut` | `Caused`: a hang-up is issued only in a final close, which no step undoes, and the duration limit that has caused one stands ready to force it. `HangUpNotLost` is inductive with it: each holder of the hang-up (the sentinel, the pump, the packet in hand, the failure) hands it to the next, and what takes it away discards playback |
| `LiveWatchdogs` | `LiveWatchdogsProofs` | `TypeCorrect`, `UnansweredIsWatched`, `GoodbyeFollowsReminders` | `Counted`: the reminders and the history of silence move together. `GoodbyeWasDue`: a goodbye past its check was fired after the last reminder, and speech since then has made it late |
| `PostCall` | `PostCallProofs` | `Invariant`, `TypeCorrect`, `DuplicatesComeFromRaces`, `EveryCallIsRecorded` | `Inv`, of ten parts. `SeenFull` and `FilledOnce`: the newest row was full for whoever added another, unless two finalizers found the same empty row. `HandlerAlone`, `SimAlone`: as long as no forced close runs, a transcript on a row is the handler's, so whoever adds a row had seen none. `Copied`, `AudioKept`, `HistoryKept`: what was heard is in the buffers, in one finalizer's hands, or on a row, and it stays there unless two finalizers found that row empty. `WavOwned`, `WavKept`: a WAV is on a row its finalizer made or found, and whoever drained audio has it on a row, unless another who had audio too found the same row empty |
| `Takeover` | `PipelineProofs` | `TypeCorrect`, `TakenOverHasManager`, `TakenOverTurnsStop`, `HintsGivenOnce` | `Holding`: who took over and was not undone has set the flag under the key it attached with, and each flag has such a manager or one about to clear it. For hints: what a turn has read and not been given is still queued, unless a push has disturbed the pop |

`PostCallProofs` and the last part of `RetryQueueProofs` first state what each step does to one
finalizer, one upload, one row or one worker's list (`OwnStep`, `RowsLater`, `ListStep`, ...),
and prove each part of the invariant from these effects, not from the actions. `SelectIn`
filters a list by a recursive function; what it returns is proved from its recursion by the
least counterexample (`CountUp`, from `WFMin`), because the library's induction theorems take
an operator as a parameter.

The type invariants alone are not inductive enough for any of these: each theorem's
strengthening is the relation between what an actor has read and what the others may have
changed since.

Every invariant and every action property of the runs is stated by a theorem. Two carry a
hypothesis: `OneSchedulerDialsOnce` and `DialsAccountedWithOneWorker` assume one scheduler and
one worker, without which they are false (see Limits).

Only model-checked: liveness (`EveryCallReturns`, `EveryChainEnds`, `DueCallConcludes`,
`UnansweredConnectionCloses`, `LimitedCallEnds`, `DoomedCallEnds`, `SilenceEnds`,
`ClosedCallIsKept`, `TakeoverSilences`). It rests on fairness, and ENABLED is out of the
prover's reach.

## Limits

- With two schedulers or two retry workers, as during a deployment, `SchedulerDialsOnce` and
  `DialsPerChainAccounted` do not hold: both processes list a row before either marks it. The
  models take sets of them; the passing runs use one, which is what the repository describes,
  and the two theorems state that assumption. What remains with several workers is proved
  (`CountersStayInReach`): a pending chain has an attempt left, and its counter passes
  `max_attempts` by less than the number of workers, so by one during a deployment. It does not
  bound the dials, because a worker can write back a counter that another has moved on.
- A scheduled call whose process dies between `dialing` and the outcome is never listed again
  (`CrashTick`). Nothing in the repository promises recovery, so no property says so.
- Plivo's status callback touches neither the retry queue nor the chain; `RetryQueue` models
  the Exotel and Tata order, in which the log row follows the dial.
- A stream may take a prepared session over in the moment its 2 min deadline has already
  cancelled it; the call then ends as failed. `GeminiPreparation` has that behaviour. The text
  promises that an *attached* session is not cancelled, and that is proved.
- Native-audio sessions have no turn pipeline: nothing there reads the takeover flag or the
  hints. `Takeover` has them, and `TakeoverSilences` therefore speaks of the pipeline only.
  Taking over cancels the sentence being spoken; the ones queued behind it are still spoken.
- On carriers other than Plivo the sentinel of a final close does not queue behind the audio
  (`handler.go:854`), so the last words may be cut off; `LiveSession` has the step, and no
  property is about the audible end of a sentence.
- `RequestFinalClose` stops the backstops of a Live call, which is why `DoomedCallEnds` makes an
  exception of a close that somebody else requested.
- `MediaRegistry` leaves out the expiry of Redis keys, Plivo (context before the dial, ticket
  for the socket) and Tata (lead in the URL). A campaign stands for the voice, the language and
  the limit that come with it, and a lead for its name, phone and interest.
- `ScheduledCalls` takes one agent for all manual callbacks of a lead (`scheduled_by_user_id` in
  the WHERE clauses).
- `PostCall` takes the names of recording files as unique, and leaves out the correction of a
  transcript's text after a native-audio call, which adds no row and touches no recording.
- Amounts are mathematical integers: paise fit an `int64` by many orders of magnitude.

### Not modelled

Request-local handlers over single rows (CRUD, authentication, reports, presence);
dispositions, which are single UPDATEs in whatever order callbacks come; stateless clients of
external services (TTS, LLM, retrieval, e-mail, the carriers' HTTP interfaces); signal processing
on samples, and with it the agent bridge, whose one shared decision is a compare-and-swap;
what transcripts mean (language, appointments, repeated questions); the CRM poller, one goroutine
with one INSERT per lead; the receptionist demo and the user interfaces; the Python index. They
are most of the repository by lines, `docs/docs.go` alone being 12,869 generated ones, and hold
little that more than one actor can disturb. `components` in `PROJECT.json` lists them one by
one. The WhatsApp agent is the one component left that has a protocol of its own.

## Plan

What the project has room to grow by, most useful first:

1. The Plivo path through `MediaRegistry` and `RetryQueue`: context before the dial, tickets, a
   status callback that neither queues nor completes.
2. `CallLog`: status callbacks in any order against the disposition ("ringing" after
   "completed", `dial_webhooks.go:389`).
3. `WhatsApp`: duplicate webhook deliveries against the auto-reply.
4. Subscriptions (`VerifyAndActivate`) beside `TopUp`.
5. The 8 MB buffer of a prepared session, as a FIFO that `GeminiPreparation` fills.

Proofs to add: safety facts that the liveness runs rest on, such as that a session over its
limit has somebody left to close it (`LimitedCallEnds`), or that a due row is on a list, held by
a request or concluded (`DueCallConcludes`).
