------------------------------ MODULE Takeover ------------------------------
(***************************************************************************)
(* Managers who listen to a live call on /ws/monitor, whisper hints to its *)
(* agent and take the call over from it.  The flag and the hints are in    *)
(* Redis, under a stream_sid:                                              *)
(*                                                                         *)
(*   a monitor uses the stream_sid the session had when it attached        *)
(*   the turn pipeline uses the one the session has now                    *)
(*                                                                         *)
(* and the start event replaces the provisional one.  A session that runs  *)
(* on the realtime model has no turn pipeline: nothing there reads either. *)
(***************************************************************************)
EXTENDS Naturals

CONSTANTS
  Managers,      \* monitor connections
  Whispers,      \* hints, each sent once
  MaxSentences,  \* bound: sentences waiting for the TTS worker (its channel)
  MaxFaults      \* bound: failed Redis calls

ASSUME BoundsAssumption == MaxSentences \in Nat \ {0} /\ MaxFaults \in Nat

Keys == {"provisional", "carrier"}

VARIABLES
  live,      \* sess.GeminiLive
  key,       \* sess.StreamSid
  session,   \* open, ended (context cancelled), cleaned (CleanupCall)
  flag,      \* takeover:<stream_sid>
  queue,     \* whisper:<stream_sid>
  mon,       \* the monitors: where, with which key, and who took over
  undone,    \* history: managers whose takeover another one ended
  turn,      \* the turn that processTranscript is in
  tts,       \* sentences in TTSSentences
  playing,   \* a sentence is being spoken
  given,     \* history: how often a hint was given to a turn
  collided,  \* history: hints read by a pop that another push disturbed
  faults

vars == <<live, key, session, flag, queue, mon, undone, turn, tts, playing, given,
          collided, faults>>
store == <<flag, queue>>
voice == <<tts, playing>>
hints == <<given, collided>>
call == <<live, key, session>>

Monitor == [at : {"away", "on", "leaving", "gone"}, key : Keys, holds : BOOLEAN]
Turn == [at : {"idle", "wait", "pop", "stream"}, key : Keys, read : SUBSET Whispers,
         watched : BOOLEAN]
NoTurn == [at |-> "idle", key |-> "provisional", read |-> {}, watched |-> FALSE]
Most == 2  \* given saturates

TypeOK ==
  /\ live \in BOOLEAN /\ key \in Keys /\ session \in {"open", "ended", "cleaned"}
  /\ flag \in [Keys -> BOOLEAN] /\ queue \in [Keys -> SUBSET Whispers]
  /\ mon \in [Managers -> Monitor] /\ undone \subseteq Managers
  /\ turn \in Turn /\ tts \in 0..MaxSentences /\ playing \in BOOLEAN
  /\ given \in [Whispers -> 0..Most] /\ collided \subseteq Whispers
  /\ faults \in 0..MaxFaults

Init ==
  /\ live \in BOOLEAN /\ key = "provisional" /\ session = "open"
  /\ flag = [k \in Keys |-> FALSE] /\ queue = [k \in Keys |-> {}]
  /\ mon = [m \in Managers |-> [at |-> "away", key |-> "provisional", holds |-> FALSE]]
  /\ undone = {} /\ turn = NoTurn /\ tts = 0 /\ playing = FALSE
  /\ given = [w \in Whispers |-> 0] /\ collided = {} /\ faults = 0

Fault == faults < MaxFaults /\ faults' = faults + 1

-----------------------------------------------------------------------------
(* The session. *)

Start ==
  /\ session = "open" /\ key = "provisional"
  /\ key' = "carrier"
  /\ UNCHANGED <<live, session, store, mon, undone, turn, voice, hints, faults>>

\* The message loop ends and cancels the context of the pipeline and the worker.
EndCall ==
  /\ session = "open"
  /\ session' = "ended"
  /\ turn' = NoTurn /\ tts' = 0 /\ playing' = FALSE
  /\ UNCHANGED <<live, key, store, mon, undone, hints, faults>>

CleanupCall ==
  /\ session = "ended"
  /\ session' = "cleaned"
  /\ flag' = [flag EXCEPT ![key] = FALSE]
  /\ queue' = [queue EXCEPT ![key] = {}]
  /\ UNCHANGED <<live, key, mon, undone, turn, voice, hints, faults>>

-----------------------------------------------------------------------------
(* ServeMonitor. *)

\* lookupSession finds the session until its handler has left.
Attach(m) ==
  /\ mon[m].at = "away" /\ session # "cleaned"
  /\ mon' = [mon EXCEPT ![m] = [at |-> "on", key |-> key, holds |-> FALSE]]
  /\ UNCHANGED <<call, store, undone, turn, voice, hints, faults>>

Touched(k) == IF k = turn.key THEN [turn EXCEPT !.watched = FALSE] ELSE turn

\* RPUSH and EXPIRE; an error loses the hint.  A hint after the end of the call
\* reaches nobody.
PushWhisper(m, w) ==
  /\ mon[m].at = "on" /\ session = "open" /\ given[w] = 0 /\ \A k \in Keys : w \notin queue[k]
  /\ queue' = [queue EXCEPT ![mon[m].key] = @ \cup {w}]
  /\ turn' = Touched(mon[m].key)
  /\ UNCHANGED <<call, flag, mon, undone, voice, hints, faults>>

\* The flag is set, unless Redis fails, and the sentence being synthesised is
\* cancelled; the sentences behind it and the turn go on.  A realtime session has
\* nothing to cancel.
TakeOver(m) ==
  /\ mon[m].at = "on" /\ session = "open"
  /\ \/ flag' = [flag EXCEPT ![mon[m].key] = TRUE] /\ UNCHANGED faults
     \/ Fault /\ UNCHANGED flag
  /\ mon' = [mon EXCEPT ![m].holds = TRUE]
  /\ undone' = undone \ {m}
  /\ playing' = (live /\ playing)
  /\ UNCHANGED <<call, queue, turn, tts, hints>>

\* Whoever holds the call under this key loses it.
Losers(m) == {n \in Managers \ {m} : mon[n].holds /\ mon[n].key = mon[m].key}

ReleaseTakeover(m) ==
  /\ mon[m].at = "on"
  /\ \/ /\ flag' = [flag EXCEPT ![mon[m].key] = FALSE]
        /\ undone' = undone \cup Losers(m)
        /\ UNCHANGED faults
     \/ Fault /\ UNCHANGED <<flag, undone>>
  /\ mon' = [mon EXCEPT ![m].holds = FALSE]
  /\ UNCHANGED <<call, queue, turn, voice, hints>>

\* The connection is lost: the flag is read first.
\* Mutant: the flag is left to whoever set it.
LeaveFlag(m) ==
  /\ mon[m].at = "on"
  /\ mon' = [mon EXCEPT ![m].at = "gone", ![m].holds = FALSE]
  /\ UNCHANGED <<call, store, undone, turn, voice, hints, faults>>
Disconnect(m) ==
  /\ mon[m].at = "on"
  /\ \/ mon' = [mon EXCEPT ![m].at = IF flag[mon[m].key] THEN "leaving" ELSE "gone",
                           ![m].holds = FALSE]
        /\ UNCHANGED faults
     \/ mon' = [mon EXCEPT ![m].at = "gone", ![m].holds = FALSE] /\ Fault
  /\ UNCHANGED <<call, store, undone, turn, voice, hints>>

\* ... and cleared, whoever set it meanwhile.
ClearOnLeave(m) ==
  /\ mon[m].at = "leaving"
  /\ \/ /\ flag' = [flag EXCEPT ![mon[m].key] = FALSE]
        /\ undone' = undone \cup Losers(m)
        /\ UNCHANGED faults
     \/ Fault /\ UNCHANGED <<flag, undone>>
  /\ mon' = [mon EXCEPT ![m].at = "gone"]
  /\ UNCHANGED <<call, queue, turn, voice, hints>>

-----------------------------------------------------------------------------
(* The turn pipeline and the TTS worker. *)

\* Mutant: the takeover is not looked for.
HearAlways ==
  /\ session = "open" /\ ~live /\ turn.at = "idle"
  /\ turn' = [turn EXCEPT !.at = "wait"]
  /\ UNCHANGED <<call, store, mon, undone, voice, hints, faults>>
\* An utterance is dropped under takeover; a failed read counts as none.
Hear ==
  /\ session = "open" /\ ~live /\ turn.at = "idle"
  /\ IF flag[key] THEN Fault ELSE UNCHANGED faults
  /\ turn' = [turn EXCEPT !.at = "wait"]
  /\ UNCHANGED <<call, store, mon, undone, voice, hints>>

\* After the cooldown and the turn lock: WATCH and LRANGE.
ReadWhispers ==
  /\ turn.at = "wait"
  /\ \/ turn' = [at |-> "pop", key |-> key, read |-> queue[key], watched |-> TRUE]
        /\ UNCHANGED faults
     \/ turn' = [turn EXCEPT !.at = "stream"] /\ Fault
  /\ UNCHANGED <<call, store, mon, undone, voice, hints>>

\* Mutant: the list is deleted without WATCH.
PopUnwatched ==
  /\ turn.at = "pop"
  /\ queue' = [queue EXCEPT ![turn.key] = {}]
  /\ given' = [w \in Whispers |-> IF w \in turn.read /\ given[w] < Most
                                  THEN given[w] + 1 ELSE given[w]]
  /\ turn' = [NoTurn EXCEPT !.at = "stream"]
  /\ UNCHANGED <<call, flag, mon, undone, voice, collided, faults>>
\* The DEL is executed only if nothing touched the list since; the hints that were
\* read go into the prompt in either case.
PopWhispers ==
  /\ turn.at = "pop"
  /\ IF turn.watched
     THEN queue' = [queue EXCEPT ![turn.key] = {}] /\ UNCHANGED collided
     ELSE UNCHANGED queue /\ collided' = collided \cup turn.read
  /\ given' = [w \in Whispers |-> IF w \in turn.read /\ given[w] < Most
                                  THEN given[w] + 1 ELSE given[w]]
  /\ turn' = [NoTurn EXCEPT !.at = "stream"]
  /\ UNCHANGED <<call, flag, mon, undone, voice, faults>>

\* The model streams a sentence; a full channel blocks it.
Deliver ==
  /\ turn.at = "stream" /\ tts < MaxSentences
  /\ tts' = tts + 1
  /\ UNCHANGED <<call, store, mon, undone, turn, playing, hints, faults>>

EndTurn ==
  /\ turn.at = "stream"
  /\ turn' = NoTurn
  /\ UNCHANGED <<call, store, mon, undone, voice, hints, faults>>

Say ==
  /\ tts > 0 /\ ~playing
  /\ tts' = tts - 1 /\ playing' = TRUE
  /\ UNCHANGED <<call, store, mon, undone, turn, hints, faults>>

Said ==
  /\ playing
  /\ playing' = FALSE
  /\ UNCHANGED <<call, store, mon, undone, turn, tts, hints, faults>>

\* The realtime model answers what it hears.
LiveReply ==
  /\ session = "open" /\ live /\ tts < MaxSentences
  /\ tts' = tts + 1
  /\ UNCHANGED <<call, store, mon, undone, turn, playing, hints, faults>>

Next ==
  \/ Start \/ EndCall \/ CleanupCall
  \/ \E m \in Managers :
       \/ Attach(m) \/ TakeOver(m) \/ ReleaseTakeover(m) \/ Disconnect(m) \/ ClearOnLeave(m)
       \/ \E w \in Whispers : PushWhisper(m, w)
  \/ Hear \/ ReadWhispers \/ PopWhispers \/ Deliver \/ EndTurn \/ Say \/ Said \/ LiveReply

Spec == Init /\ [][Next]_vars

\* A turn and a sentence end, a disconnected monitor's handler runs.
FairSpec ==
  /\ Spec
  /\ WF_vars(ReadWhispers) /\ WF_vars(PopWhispers) /\ WF_vars(EndTurn)
  /\ WF_vars(Say) /\ WF_vars(Said)
  /\ \A m \in Managers : WF_vars(ClearOnLeave(m))

-----------------------------------------------------------------------------
\* "After this, processTranscript will skip the LLM" (monitor.go:245): no turn
\* begins while a manager holds the call, unless that manager attached under the
\* provisional stream_sid, another manager ended the takeover, or Redis failed.
TakeoverStopsTurns ==
  [][turn.at = "idle" /\ turn'.at = "wait"
       => \A m \in Managers :
            mon[m].holds => mon[m].key # key \/ m \in undone \/ faults' > 0]_vars

\* Nor does the agent of a turn pipeline go on for ever: under a takeover that
\* lasts, what was said already runs out.
TakeoverSilences ==
  <>[](flag[key] /\ ~live) => <>[](tts = 0 /\ ~playing)

\* The call is not left without its agent: a takeover belongs to a manager who is
\* still attached, or whose departure is about to clear it, unless Redis failed.
TakeoverHasManager ==
  \A k \in Keys :
    flag[k] => \/ \E m \in Managers : mon[m].key = k /\ (mon[m].holds \/ mon[m].at = "leaving")
               \/ faults > 0

\* "atomically retrieves and clears" (store.go:217): a hint for the session's own
\* key stays queued until a turn has taken it, and a second turn is given it only
\* if another one was pushed while it was being popped.
HintGivenOnce ==
  [][\A w \in Whispers :
       /\ given'[w] > 1 => w \in collided'
       /\ \A k \in Keys : w \in queue[k] /\ w \notin queue'[k]
                         => given'[w] > 0 \/ session' = "cleaned"]_vars
=============================================================================
