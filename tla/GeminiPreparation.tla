------------------------- MODULE GeminiPreparation --------------------------
(***************************************************************************)
(* One Gemini Live connection opened while the carrier rings, for one call *)
(* (wshandler/gemini_preparation.go, gemini_prewarmer.go).  The dialler    *)
(* reserves it, a builder goroutine opens it, bind publishes it under the  *)
(* call's SID, and the media stream of the answered call takes it over.    *)
(* A dial that fails, the end of the dial's context, a 90 s expiry and a   *)
(* 2 min deadline close it instead.  SIDs are unique and calls share       *)
(* nothing else, so one call is modelled.  Steps under pending.mu or       *)
(* prepared.mu are atomic; time is any order of the timers.                *)
(***************************************************************************)
CONSTANT Streams  \* media websockets that present the SID of the call

VARIABLES dialer,     \* Initiator.Initiate: idle, dialling, done
          parentDone, \* the dial's context has ended
          after,      \* the context.AfterFunc on it
          builder,    \* the goroutine of beginGeminiPreparation
          buildCtx,   \* its context: live or cancelled
          claimed, bound, \* pendingGeminiPreparation's flags
          slot,       \* pending.prepared # nil
          published,  \* preparedLive holds the SID
          expiry,     \* the 90 s timer of bind
          conn,       \* the connection: its context and client.Run
          attached,   \* preparedGeminiCall.attached
          deadline,   \* the 2 min preAnswerTimer
          stream,     \* where each media stream is
          early       \* history: streams that looked before bind

dial == <<dialer, parentDone, after>>
build == <<builder, buildCtx>>
pending == <<claimed, bound, slot>>
timers == <<expiry, deadline>>
live == <<conn, attached>>
streams == <<stream, early>>
vars == <<dial, build, pending, published, timers, live, streams>>

TypeOK ==
    /\ dialer \in {"idle", "dialling", "done"}
    /\ parentDone \in BOOLEAN
    /\ after \in {"unset", "waiting", "started", "stopping", "done"}
    /\ builder \in {"none", "building", "publish", "unhook", "done"}
    /\ buildCtx \in {"live", "cancelled"}
    /\ claimed \in BOOLEAN /\ bound \in BOOLEAN /\ slot \in BOOLEAN
    /\ published \in BOOLEAN
    /\ expiry \in {"unset", "armed", "fired", "stopping", "done"}
    /\ conn \in {"none", "live", "closing", "ended"}
    /\ attached \in BOOLEAN
    /\ deadline \in {"unset", "armed", "fired", "done"}
    /\ stream \in [Streams -> {"unstarted", "loaded", "taken", "marked",
                               "running", "fresh", "ended"}]
    /\ early \subseteq Streams

Init ==
    /\ dialer = "idle" /\ parentDone = FALSE /\ after = "unset"
    /\ builder = "none" /\ buildCtx = "live"
    /\ claimed = FALSE /\ bound = FALSE /\ slot = FALSE
    /\ published = FALSE /\ expiry = "unset"
    /\ conn = "none" /\ attached = FALSE /\ deadline = "unset"
    /\ stream = [s \in Streams |-> "unstarted"]
    /\ early = {}

\* prepared.cancel(): client.Run returns some time later.
Cancelled(c) == IF c = "live" THEN "closing" ELSE c

\* time.Timer.Stop: a callback already running is not stopped.
StopTimer(t) == IF t = "armed" THEN "done" ELSE t

\* pending.stop(), but for its own timer, which its callers have not armed or
\* have seen fire.  Mutant: it clears the slot before it looks into it.
ClearFirst ==
    /\ claimed' = TRUE
    /\ buildCtx' = "cancelled"
    /\ slot' = FALSE
    /\ UNCHANGED <<conn, bound>>
Stop ==
    /\ claimed' = TRUE
    /\ buildCtx' = "cancelled"
    /\ slot' = FALSE
    /\ conn' = IF slot THEN Cancelled(conn) ELSE conn
    /\ UNCHANGED bound

-----------------------------------------------------------------------------
(* The builder goroutine and the dial's context. *)

\* prepareGeminiCall: reserve, hook the context, start the builder.
PrepareGeminiCall ==
    /\ dialer = "idle"
    /\ dialer' = "dialling"
    /\ builder' = "building"
    /\ after' = IF parentDone THEN "started" ELSE "waiting"
    /\ UNCHANGED <<pending, timers, live, streams, parentDone, buildCtx,
                    published>>

\* The HTTP request or the job that dials is over: the AfterFunc starts.
ParentEnds ==
    /\ ~parentDone
    /\ parentDone' = TRUE
    /\ after' = IF after = "waiting" THEN "started" ELSE after
    /\ UNCHANGED <<build, pending, timers, live, streams, dialer, published>>

BuildTimeout ==
    /\ builder \in {"building", "publish"}
    /\ buildCtx = "live"
    /\ buildCtx' = "cancelled"
    /\ UNCHANGED <<dial, pending, timers, live, streams, builder, published>>

\* buildPreparedGeminiCall: nothing to prepare, or a running connection.
Build ==
    /\ builder = "building"
    /\ \/ /\ builder' = "unhook"
          /\ buildCtx' = "cancelled"
          /\ UNCHANGED <<conn, deadline>>
       \/ /\ buildCtx = "live"
          /\ builder' = "publish"
          /\ conn' = "live"
          /\ deadline' = "armed"
          /\ UNCHANGED buildCtx
    /\ UNCHANGED <<dial, pending, streams, published, expiry, attached>>

\* Is the result late?  Mutant: nobody asks.
NeverLate == FALSE
Late == claimed \/ buildCtx = "cancelled"

\* The builder's last critical section.
Publish ==
    /\ builder = "publish"
    /\ builder' = "unhook"
    /\ buildCtx' = "cancelled"
    /\ slot' = IF Late THEN slot ELSE TRUE
    /\ conn' = IF Late THEN Cancelled(conn) ELSE conn
    /\ UNCHANGED <<dial, timers, streams, claimed, bound, published, attached>>

\* The deferred stopParent().
Unhook ==
    /\ builder = "unhook"
    /\ builder' = "done"
    /\ after' = IF after = "waiting" THEN "done" ELSE after
    /\ UNCHANGED <<pending, timers, live, streams, dialer, parentDone,
                    buildCtx, published>>

\* The AfterFunc reads bound under the lock and stops after releasing it.
AfterReads ==
    /\ after = "started"
    /\ after' = IF bound THEN "done" ELSE "stopping"
    /\ UNCHANGED <<build, pending, timers, live, streams, dialer, parentDone,
                    published>>

AfterStops ==
    /\ after = "stopping"
    /\ after' = "done"
    /\ Stop
    /\ UNCHANGED <<timers, streams, dialer, parentDone, builder, published,
                    attached>>

-----------------------------------------------------------------------------
(* The dial's end: bind closure of prepareGeminiCall. *)

\* Initiate's deferred bindPrepared(""): the carrier refused, or an error.
BindNothing ==
    /\ dialer = "dialling"
    /\ dialer' = "done"
    /\ Stop
    /\ UNCHANGED <<timers, streams, parentDone, after, builder, published,
                    attached>>

\* Mutant: bind forgets the 90 s timer.
Unarmed == "unset"
Armed == "armed"

\* bindPrepared(callSid): the carrier has accepted the call.
Bind ==
    /\ dialer = "dialling"
    /\ dialer' = "done"
    /\ IF claimed \/ parentDone
       THEN /\ buildCtx' = "cancelled"
            /\ slot' = FALSE
            /\ conn' = IF slot THEN Cancelled(conn) ELSE conn
            /\ UNCHANGED <<bound, published, expiry>>
       ELSE /\ bound' = TRUE
            /\ published' = TRUE
            /\ expiry' = Armed
            /\ UNCHANGED <<buildCtx, slot, conn>>
    /\ UNCHANGED <<streams, parentDone, after, builder, claimed, attached,
                    deadline>>

-----------------------------------------------------------------------------
(* The two timers. *)

ExpiryFires ==
    /\ expiry = "armed"
    /\ expiry' = "fired"
    /\ UNCHANGED <<dial, build, pending, live, streams, published, deadline>>

DeadlineFires ==
    /\ deadline = "armed"
    /\ deadline' = "fired"
    /\ UNCHANGED <<dial, build, pending, live, streams, published, expiry>>

\* The 90 s callback: CompareAndDelete, then stop() if the SID was still there.
ExpiryDeletes ==
    /\ expiry = "fired"
    /\ expiry' = IF published THEN "stopping" ELSE "done"
    /\ published' = FALSE
    /\ UNCHANGED <<dial, build, pending, live, streams, deadline>>

ExpiryStops ==
    /\ expiry = "stopping"
    /\ expiry' = "done"
    /\ Stop
    /\ UNCHANGED <<dial, streams, builder, published, attached, deadline>>

\* The 2 min callback, cancelIfUnattached.  Mutant: it does not look.
AlwaysCancelled == Cancelled(conn)
CancelIfUnattached == IF attached THEN conn ELSE Cancelled(conn)

DeadlineCancels ==
    /\ deadline = "fired"
    /\ deadline' = "done"
    /\ conn' = CancelIfUnattached
    /\ UNCHANGED <<dial, build, pending, streams, published, expiry, attached>>

\* client.Run returns: its context ended, or Gemini closed or failed.
RunReturns ==
    /\ conn \in {"live", "closing"}
    /\ conn' = "ended"
    /\ UNCHANGED <<dial, build, pending, timers, streams, published, attached>>

-----------------------------------------------------------------------------
(* The answered call: takePreparedGeminiCall and runAttached. *)

Goto(s, l) == stream' = [stream EXCEPT ![s] = l]

\* preparedLive.LoadAndDelete(sid); without an entry the call opens a session
\* of its own ("fresh").
LoadAndDelete(s) ==
    /\ stream[s] = "unstarted"
    /\ dialer # "idle"
    /\ published' = FALSE
    /\ Goto(s, IF published THEN "loaded" ELSE "fresh")
    /\ early' = IF dialer = "dialling" THEN early \cup {s} ELSE early
    /\ UNCHANGED <<dial, build, pending, timers, live>>

\* pending.take()
Take(s) ==
    /\ stream[s] = "loaded"
    /\ Goto(s, IF slot THEN "taken" ELSE "fresh")
    /\ claimed' = TRUE
    /\ buildCtx' = "cancelled"
    /\ expiry' = StopTimer(expiry)
    /\ slot' = FALSE
    /\ UNCHANGED <<dial, live, builder, bound, published, deadline, early>>

MarkAttached(s) ==
    /\ stream[s] = "taken"
    /\ Goto(s, "marked")
    /\ attached' = TRUE
    /\ deadline' = StopTimer(deadline)
    /\ UNCHANGED <<dial, build, pending, published, expiry, conn, early>>

\* The non-blocking receive from prepared.done.
CheckDone(s) ==
    /\ stream[s] = "marked"
    /\ Goto(s, IF conn = "ended" THEN "fresh" ELSE "running")
    /\ UNCHANGED <<dial, build, pending, timers, live, published, early>>

\* runAttached returns when the session or the call is over, and cancels.
RunAttached(s) ==
    /\ stream[s] = "running"
    /\ Goto(s, "ended")
    /\ conn' = Cancelled(conn)
    /\ UNCHANGED <<dial, build, pending, timers, published, attached, early>>

-----------------------------------------------------------------------------
Builder == Build \/ Publish \/ Unhook
After == AfterReads \/ AfterStops
Dialer == BindNothing \/ Bind
Expiry == ExpiryFires \/ ExpiryDeletes \/ ExpiryStops
Deadline == DeadlineFires \/ DeadlineCancels
Claim(s) == Take(s) \/ MarkAttached(s) \/ CheckDone(s)

Next ==
    \/ PrepareGeminiCall \/ ParentEnds \/ BuildTimeout
    \/ Builder \/ After \/ Dialer \/ Expiry \/ Deadline \/ RunReturns
    \/ \E s \in Streams : LoadAndDelete(s) \/ Claim(s) \/ RunAttached(s)

Spec == Init /\ [][Next]_vars

\* Goroutines run on, the dial returns and the 90 s timer fires.  Nothing is
\* assumed of the 2 min deadline, of Gemini, or of the call's length.
Fairness ==
    /\ WF_vars(Builder) /\ WF_vars(After) /\ WF_vars(Dialer) /\ WF_vars(Expiry)
    /\ \A s \in Streams : WF_vars(Claim(s))

FairSpec == Spec /\ Fairness

-----------------------------------------------------------------------------
(* Properties. *)

\* Somebody who will close or take over a published connection, or one that
\* may still be published: the dial, the armed expiry, or a stream.
Responsible ==
    \/ dialer = "dialling"
    \/ published /\ expiry \in {"armed", "fired"}
    \/ expiry = "stopping"
    \/ \E s \in Streams : stream[s] = "loaded"

\* "late results are cancelled rather than becoming orphans"
\* (gemini_preparation.go): an open connection is the builder's, waits in the
\* slot of a reservation somebody answers for, or is a stream's.
OpenConnectionHasOwner ==
    conn = "live" =>
        \/ builder = "publish"
        \/ slot /\ Responsible
        \/ \E s \in Streams : stream[s] \in {"taken", "marked", "running"}

\* An answered call that opens a session of its own does not leave the
\* prepared one running: it looked before the SID was bound, or another stream
\* has it, or it is already sure to be closed (take, stop and the builder).
FreshSessionLeavesNoOrphan ==
    \A s \in Streams :
        stream[s] = "fresh" /\ s \notin early /\ conn = "live" =>
            \/ \E t \in Streams : stream[t] \in {"loaded", "taken", "marked", "running"}
            \/ builder = "publish" /\ (claimed \/ buildCtx = "cancelled")
            \/ expiry = "stopping"

\* "The pre-answer deadlines must never cancel a session after its media
\* stream has attached" (gemini_prewarmer.go): once attached, only the call
\* that runs it closes it.
OnlyItsCallClosesAttached ==
    [][attached /\ conn = "live" /\ conn' = "closing" =>
        \E s \in Streams : stream[s] = "running" /\ stream'[s] = "ended"]_vars

\* A connection does not stay open without a call for longer than the dial and
\* the expiry last, even if the 2 min deadline never fires.
UnansweredConnectionCloses ==
    conn = "live" ~> (conn # "live" \/ \E s \in Streams : stream[s] = "running")
=============================================================================
