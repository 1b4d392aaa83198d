--------------------------- MODULE RealtimeProofs ---------------------------
(***************************************************************************)
(* Proofs about the realtime model's side of a call.                       *)
(*                                                                         *)
(* GeminiPreparation, for any set of media streams: the types, that an     *)
(* open connection has somebody who will close it, that a fresh session    *)
(* orphans nothing, and that an attached connection outlives deadlines.    *)
(*                                                                         *)
(* LiveSession, for channels and timers of any size: the types, and that a *)
(* hang-up that was issued is not lost.                                    *)
(***************************************************************************)
EXTENDS GeminiPreparation, LiveSession, TLAPS

\* The streams that have the connection.
Holding == {"taken", "marked", "running"}

\* The builder has published its result: the connection is not its own any more.
Handed == builder \in {"unhook", "done"}

\* A reservation nobody has stopped or taken has somebody who answers for it:
\* when Publish fills the slot, it is sure to be emptied.
Reserved == dialer # "idle" /\ ~claimed /\ buildCtx = "live" => Responsible

\* The connection is in one place only: it does not exist before it is built,
\* the slot is filled after that and until a stream takes it.
OnePlace ==
    /\ dialer = "idle" => builder = "none"
    /\ builder \in {"none", "building"} => conn = "none"
    /\ slot => Handed /\ ~attached
    /\ attached => Handed
    /\ \A s \in Streams : stream[s] \in Holding => Handed /\ ~slot

\* A stream that looked after bind found the dial done, and its entry is gone.
LookedUp ==
    \A s \in Streams :
        stream[s] # "unstarted" /\ s \notin early => dialer = "done" /\ ~published

IInv == TypeOK /\ Reserved /\ OnePlace /\ LookedUp /\ OpenConnectionHasOwner

-----------------------------------------------------------------------------
\* What stop() leaves has its types.
Stopped ==
    /\ claimed' \in BOOLEAN /\ bound' \in BOOLEAN /\ slot' \in BOOLEAN
    /\ buildCtx' \in {"live", "cancelled"}
    /\ conn' \in {"none", "live", "closing", "ended"}

LEMMA StopTyped == TypeOK /\ Stop => Stopped
<1> SUFFICES ASSUME TypeOK, Stop PROVE Stopped
  OBVIOUS
<1>1. claimed' \in BOOLEAN /\ bound' \in BOOLEAN /\ slot' \in BOOLEAN
  BY DEF Stop, TypeOK
<1>2. buildCtx' \in {"live", "cancelled"}
  BY DEF Stop
<1>3. conn' = conn \/ conn' = Cancelled(conn)
  BY Zenon DEF Stop
<1> QED
  BY <1>1, <1>2, <1>3 DEF Stopped, Cancelled, TypeOK

\* Type correctness of every step of preparation, dial, timers and streams.
LEMMA TypingInductive == TypeOK /\ [Next]_vars => TypeOK'
<1> SUFFICES ASSUME TypeOK, [Next]_vars PROVE TypeOK'
  OBVIOUS
<1> USE DEF TypeOK, dial, build, pending, timers, live, streams, Cancelled, StopTimer
<1>1. CASE PrepareGeminiCall
  BY <1>1 DEF PrepareGeminiCall
<1>2. CASE ParentEnds
  BY <1>2 DEF ParentEnds
<1>3. CASE BuildTimeout
  BY <1>3 DEF BuildTimeout
<1>4. CASE Builder
  <2>1. CASE Build
    BY <2>1 DEF Build
  <2>2. CASE Publish
    <3>1. CASE Late
      BY <2>2, <3>1 DEF Publish
    <3>2. CASE ~Late
      BY <2>2, <3>2 DEF Publish
    <3> QED
      BY <3>1, <3>2
  <2>3. CASE Unhook
    BY <2>3 DEF Unhook
  <2> QED
    BY <1>4, <2>1, <2>2, <2>3 DEF Builder
<1>5. CASE After
  <2>1. CASE AfterReads
    BY <2>1 DEF AfterReads
  <2>2. CASE AfterStops
    <3>1. after' = "done" /\ UNCHANGED <<dialer, parentDone, builder, published, timers, attached, streams>>
      BY <2>2 DEF AfterStops
    <3>2. Stopped
      BY <2>2, StopTyped DEF AfterStops
    <3> QED
      BY <3>1, <3>2 DEF Stopped
  <2> QED
    BY <1>5, <2>1, <2>2 DEF After
<1>6. CASE Dialer
  <2>1. CASE BindNothing
    <3>1. dialer' = "done" /\ UNCHANGED <<parentDone, after, builder, published, timers, attached, streams>>
      BY <2>1 DEF BindNothing
    <3>2. Stopped
      BY <2>1, StopTyped DEF BindNothing
    <3> QED
      BY <3>1, <3>2 DEF Stopped
  <2>2. CASE Bind
    <3>1. /\ dialer' = "done" /\ buildCtx' \in {"live", "cancelled"}
          /\ claimed' \in BOOLEAN /\ bound' \in BOOLEAN /\ slot' \in BOOLEAN
          /\ published' \in BOOLEAN /\ (expiry' = expiry \/ expiry' = "armed")
          /\ UNCHANGED <<parentDone, after, builder, attached, deadline, streams>>
      BY <2>2, Zenon DEF Bind, Armed
    <3>2. conn' = conn \/ conn' = Cancelled(conn)
      BY <2>2, Zenon DEF Bind
    <3> QED
      BY <3>1, <3>2
  <2> QED
    BY <1>6, <2>1, <2>2 DEF Dialer
<1>7. CASE Expiry
  <2>1. CASE ExpiryFires
    BY <2>1 DEF ExpiryFires
  <2>3. CASE ExpiryDeletes
    <3>1. expiry' = "stopping" \/ expiry' = "done"
      BY <2>3, Zenon DEF ExpiryDeletes
    <3>2. published' \in BOOLEAN /\ UNCHANGED <<dial, build, pending, live, deadline, streams>>
      BY <2>3 DEF ExpiryDeletes
    <3> QED
      BY <3>1, <3>2
  <2>2. CASE ExpiryStops
    <3>1. expiry' = "done" /\ UNCHANGED <<dial, builder, published, attached, deadline, streams>>
      BY <2>2 DEF ExpiryStops
    <3>2. Stopped
      BY <2>2, StopTyped DEF ExpiryStops
    <3> QED
      BY <3>1, <3>2 DEF Stopped
  <2> QED
    BY <1>7, <2>1, <2>2, <2>3 DEF Expiry
<1>8. CASE Deadline
  <2>1. CASE DeadlineFires
    BY <2>1 DEF DeadlineFires
  <2>2. CASE DeadlineCancels
    <3>1. conn' = conn \/ conn' = Cancelled(conn)
      BY <2>2, Zenon DEF DeadlineCancels, CancelIfUnattached
    <3>2. deadline' = "done" /\ UNCHANGED <<dial, build, pending, streams, published, expiry, attached>>
      BY <2>2 DEF DeadlineCancels
    <3> QED
      BY <3>1, <3>2
  <2> QED
    BY <1>8, <2>1, <2>2 DEF Deadline
<1>9. CASE RunReturns
  BY <1>9 DEF RunReturns
<1>10. ASSUME NEW s \in Streams, LoadAndDelete(s) \/ Claim(s) \/ RunAttached(s)
       PROVE  TypeOK'
  <2>1. CASE LoadAndDelete(s)
    <3>1. stream' = [stream EXCEPT ![s] = "loaded"] \/ stream' = [stream EXCEPT ![s] = "fresh"]
      BY <2>1, Zenon DEF LoadAndDelete, Goto
    <3>2. early' \subseteq Streams
      BY <2>1, Zenon DEF LoadAndDelete
    <3>3. published' \in BOOLEAN /\ UNCHANGED <<dial, build, pending, timers, live>>
      BY <2>1 DEF LoadAndDelete
    <3> QED
      BY <3>1, <3>2, <3>3
  <2>2. CASE Take(s)
    <3>1. stream' = [stream EXCEPT ![s] = "taken"] \/ stream' = [stream EXCEPT ![s] = "fresh"]
      BY <2>2, Zenon DEF Take, Goto
    <3>2. /\ claimed' \in BOOLEAN /\ slot' \in BOOLEAN /\ buildCtx' = "cancelled"
          /\ expiry' = StopTimer(expiry)
          /\ UNCHANGED <<dial, live, builder, bound, published, deadline, early>>
      BY <2>2 DEF Take
    <3> QED
      BY <3>1, <3>2
  <2>3. CASE MarkAttached(s)
    BY <2>3 DEF MarkAttached, Goto
  <2>4. CASE CheckDone(s)
    BY <2>4 DEF CheckDone, Goto
  <2>5. CASE RunAttached(s)
    BY <2>5 DEF RunAttached, Goto
  <2> QED
    BY <1>10, <2>1, <2>2, <2>3, <2>4, <2>5 DEF Claim
<1>11. CASE UNCHANGED vars
  BY <1>11 DEF vars
<1> QED
  BY <1>1, <1>2, <1>3, <1>4, <1>5, <1>6, <1>7, <1>8, <1>9, <1>10, <1>11 DEF Next

\* TypeOK holds in every reachable state, whatever the streams.
THEOREM TypeCorrect == Spec => []TypeOK
<1>1. Init => TypeOK
  BY DEF Init, TypeOK
<1> QED
  BY <1>1, TypingInductive, PTL DEF Spec

-----------------------------------------------------------------------------
\* A step of a stream keeps the invariant.
LEMMA StreamStep ==
    ASSUME IInv, TypeOK', NEW s \in Streams, LoadAndDelete(s) \/ Claim(s) \/ RunAttached(s)
    PROVE  IInv'
<1> USE DEF IInv, Reserved, OnePlace, LookedUp, OpenConnectionHasOwner, Responsible,
            Handed, Holding, dial, build, pending, timers, live, streams
<1>1. CASE LoadAndDelete(s)
  BY <1>1 DEF LoadAndDelete, Goto, TypeOK
<1>2. CASE Take(s)
  BY <1>2 DEF Take, Goto, TypeOK, StopTimer
<1>3. CASE MarkAttached(s)
  BY <1>3 DEF MarkAttached, Goto, TypeOK
<1>4. CASE CheckDone(s)
  BY <1>4 DEF CheckDone, Goto, TypeOK
<1>5. CASE RunAttached(s)
  BY <1>5 DEF RunAttached, Goto, TypeOK, Cancelled
<1> QED
  BY <1>1, <1>2, <1>3, <1>4, <1>5 DEF Claim

\* Every step keeps the invariant.
LEMMA InvInductive == IInv /\ [Next]_vars => IInv'
<1> SUFFICES ASSUME IInv, [Next]_vars PROVE IInv'
  OBVIOUS
<1>t. TypeOK'
  BY TypingInductive DEF IInv
<1>10. ASSUME NEW s \in Streams, LoadAndDelete(s) \/ Claim(s) \/ RunAttached(s)
       PROVE  IInv'
  BY <1>t, <1>10, StreamStep
<1> USE <1>t DEF IInv, Reserved, OnePlace, LookedUp, OpenConnectionHasOwner, Responsible,
            Handed, Holding, dial, build, pending, timers, live, streams, Cancelled
<1>1. CASE PrepareGeminiCall
  BY <1>1 DEF PrepareGeminiCall, TypeOK
<1>2. CASE ParentEnds
  BY <1>2 DEF ParentEnds
<1>3. CASE BuildTimeout
  BY <1>3 DEF BuildTimeout
<1>4. CASE Builder
  <2>1. CASE Build
    BY <1>4, <2>1 DEF Build, TypeOK
  <2>2. CASE Publish
    BY <1>4, <2>2 DEF Publish, Late, TypeOK
  <2>3. CASE Unhook
    BY <1>4, <2>3 DEF Unhook
  <2> QED
    BY <1>4, <2>1, <2>2, <2>3 DEF Builder
<1>5. CASE After
  BY <1>5 DEF After, AfterReads, AfterStops, Stop
<1>6. CASE Dialer
  <2>1. CASE BindNothing
    BY <1>6, <2>1 DEF BindNothing, Stop
  <2>2. CASE Bind
    BY <1>6, <2>2 DEF Bind, Armed, TypeOK
  <2> QED
    BY <1>6, <2>1, <2>2 DEF Dialer
<1>7. CASE Expiry
  BY <1>7 DEF Expiry, ExpiryFires, ExpiryDeletes, ExpiryStops, Stop, TypeOK
<1>8. CASE Deadline
  BY <1>8 DEF Deadline, DeadlineFires, DeadlineCancels, CancelIfUnattached, TypeOK
<1>9. CASE RunReturns
  BY <1>9 DEF RunReturns
<1>11. CASE UNCHANGED vars
  BY <1>11 DEF vars
<1> QED
  BY <1>1, <1>2, <1>3, <1>4, <1>5, <1>6, <1>7, <1>8, <1>9, <1>10, <1>11 DEF Next

LEMMA Invariance == Spec => []IInv
<1>1. Init => IInv
  BY DEF Init, IInv, TypeOK, Reserved, OnePlace, LookedUp, OpenConnectionHasOwner, Holding
<1> QED
  BY <1>1, InvInductive, PTL DEF Spec

\* No open connection is an orphan: it is the builder's, a stream's, or in a
\* slot that the dial, the expiry or a stream will empty.
THEOREM OpenConnectionOwned == Spec => []OpenConnectionHasOwner
<1>1. IInv => OpenConnectionHasOwner
  BY DEF IInv
<1> QED
  BY <1>1, Invariance, PTL

\* A call that opens a session of its own after bind leaves no prepared one
\* behind that nobody is about to close.
THEOREM FreshSessionOrphansNothing == Spec => []FreshSessionLeavesNoOrphan
<1>1. IInv => FreshSessionLeavesNoOrphan
  <2> SUFFICES ASSUME IInv, NEW s \in Streams, stream[s] = "fresh", s \notin early, conn = "live"
               PROVE  \/ \E t \in Streams : stream[t] \in Holding \cup {"loaded"}
                      \/ builder = "publish" /\ (claimed \/ buildCtx = "cancelled")
                      \/ expiry = "stopping"
    BY DEF FreshSessionLeavesNoOrphan, Holding
  <2>1. dialer = "done" /\ ~published
    BY DEF IInv, LookedUp
  <2>2. CASE builder = "publish"
    BY <2>1, <2>2 DEF IInv, TypeOK, Reserved, Responsible
  <2>3. CASE builder # "publish"
    BY <2>1, <2>3 DEF IInv, OpenConnectionHasOwner, Responsible, Holding
  <2> QED
    BY <2>2, <2>3
<1> QED
  BY <1>1, Invariance, PTL

\* Neither timer, nor the dial's context, nor a late builder closes a connection
\* a stream has attached.
THEOREM AttachedOutlivesDeadlines == Spec => OnlyItsCallClosesAttached
<1> DEFINE Closed == attached /\ conn = "live" /\ conn' = "closing"
           ByItsCall == \E s \in Streams : stream[s] = "running" /\ stream'[s] = "ended"
<1>1. IInv /\ [Next]_vars => [Closed => ByItsCall]_vars
  <2> SUFFICES ASSUME IInv, Next, Closed PROVE ByItsCall
    OBVIOUS
  <2> USE DEF IInv, OnePlace, Handed, dial, build, pending, timers, live, streams
  <2>1. ASSUME NEW s \in Streams, RunAttached(s) PROVE ByItsCall
    BY <2>1 DEF RunAttached, Goto, TypeOK
  <2>2. ~Stop /\ ~Publish
    BY DEF Stop, Publish
  <2>3. ~PrepareGeminiCall /\ ~ParentEnds /\ ~BuildTimeout /\ ~RunReturns
    BY DEF PrepareGeminiCall, ParentEnds, BuildTimeout, RunReturns
  <2>4. ~Build /\ ~Unhook /\ ~AfterReads /\ ~Bind
    BY DEF Build, Unhook, AfterReads, Bind
  <2>5. ~ExpiryFires /\ ~ExpiryDeletes /\ ~DeadlineFires /\ ~DeadlineCancels
    BY DEF ExpiryFires, ExpiryDeletes, DeadlineFires, DeadlineCancels, CancelIfUnattached
  <2>6. \A s \in Streams : ~LoadAndDelete(s) /\ ~Claim(s)
    BY DEF LoadAndDelete, Claim, Take, MarkAttached, CheckDone
  <2> QED
    BY <2>1, <2>2, <2>3, <2>4, <2>5, <2>6
    DEF Next, Builder, After, AfterStops, Dialer, BindNothing, Expiry, ExpiryStops, Deadline
<1> QED
  BY <1>1, Invariance, PTL DEF Spec, OnlyItsCallClosesAttached

-----------------------------------------------------------------------------
(* LiveSession. *)

USE CapsAssumption

\* The parts of the type invariant.
LiveFlagTypes ==
  /\ plivo \in BOOLEAN
  /\ closing \in {"no", "model", "inactivity", "limit", "failed"}
  /\ hangupReq \in BOOLEAN /\ finalAudio \in BOOLEAN /\ active \in BOOLEAN
  /\ open \in BOOLEAN /\ due \in BOOLEAN /\ cut \in BOOLEAN

TurnTypes ==
  /\ recv \in {"idle", "interrupt", "unhang", "redirect", "valid", "failed", "gone"}
  /\ turn \in [new : BOOLEAN, approved : BOOLEAN, released : BOOLEAN,
               text : BOOLEAN, held : BOOLEAN]
  /\ redirect \in [on : BOOLEAN, await : BOOLEAN]

ActorTypes ==
  /\ worker \in {"idle", "draining", "gone"}
  /\ goodbye \in {"no", "close", "end"}
  /\ vad \in {"idle", "trigger"}
  /\ limit \in {"none", "armed", "due", "force"}

CountTypes == clears \in 0..TimerCap /\ ends \in 0..EndCap

AudioTypes ==
  /\ audioOut \in Seq(Packet) /\ Len(audioOut) <= OutCap
  /\ pump \in Packet \cup {"idle"}

\* They make up the type invariant.
LEMMA LiveTypeParts ==
  LiveTypeOK <=> LiveFlagTypes /\ TurnTypes /\ ActorTypes /\ CountTypes /\ AudioTypes
BY DEF LiveTypeOK, LiveFlagTypes, TurnTypes, ActorTypes, CountTypes, AudioTypes

\* The flags of the session.
LEMMA LiveFlagsKept == LiveFlagTypes /\ [LiveNext]_liveVars => LiveFlagTypes'
<1> SUFFICES ASSUME LiveFlagTypes, [LiveNext]_liveVars PROVE LiveFlagTypes'
  OBVIOUS
<1> USE DEF LiveFlagTypes, close, barge, history, IsFinalClosing, Because, RequestFinalClose,
            Discard, InterruptActiveTTS, Close, Idle
<1>1. CASE OnAudio \/ OnOutputTranscript \/ OnLanguageChange
  BY <1>1 DEF OnAudio, OnOutputTranscript, OnLanguageChange
<1>2. CASE OnInterrupted
  BY <1>2 DEF OnInterrupted
<1>3. CASE OnCompleteCall \/ OnLanguageSwitch
  BY <1>3 DEF OnCompleteCall, OnLanguageSwitch
<1>4. CASE OnTurnComplete
  <2>1. due' \in BOOLEAN /\ cut' \in BOOLEAN
    BY <1>4 DEF OnTurnComplete
  <2> QED
    BY <1>4, <2>1 DEF OnTurnComplete
<1>5. CASE LiveFails
  BY <1>5 DEF LiveFails
<1>6. CASE Callback
  BY <1>6 DEF Callback, DiscardOldReply, ConfirmLiveInterruption, ClearHangup, CloseAfterTurn, EndFailed
<1>7. CASE Pump \/ Worker
  BY <1>7 DEF Pump, Worker, TakePacket, PacketSent, TakeEnd, HangUp
<1>8. CASE Silence
  BY <1>8 DEF Silence, CheckGoodbye, Goodbye, EndSilent
<1>9. CASE Media
  BY <1>9 DEF Media, HearSpeech, TriggerBargeIn, ClearPasses
<1>10. CASE Limit \/ CallEnds
  BY <1>10 DEF Limit, LimitFires, LimitCloses, ForceHangUp, CallEnds
<1>11. CASE UNCHANGED liveVars
  BY <1>11 DEF liveVars
<1> QED
  BY <1>1, <1>2, <1>3, <1>4, <1>5, <1>6, <1>7, <1>8, <1>9, <1>10, <1>11 DEF LiveNext, Event

\* The callback under way, its output turn and the redirect.
LEMMA TurnsKept == TurnTypes /\ LiveFlagTypes /\ [LiveNext]_liveVars => TurnTypes'
<1> SUFFICES ASSUME TurnTypes, LiveFlagTypes, [LiveNext]_liveVars PROVE TurnTypes'
  OBVIOUS
<1>n. /\ NoTurn \in [new : BOOLEAN, approved : BOOLEAN, released : BOOLEAN,
                      text : BOOLEAN, held : BOOLEAN]
      /\ \A x, y \in BOOLEAN : [on |-> x, await |-> y] \in [on : BOOLEAN, await : BOOLEAN]
      /\ NoRedirect \in [on : BOOLEAN, await : BOOLEAN]
  BY DEF NoTurn, NoRedirect
<1>c. CASE Close
  BY <1>n, <1>c DEF Close, TurnTypes
<1> USE DEF TurnTypes, output
<1>1. CASE OnAudio
  BY <1>1 DEF OnAudio, CanPlay
<1>2. CASE OnOutputTranscript
  BY <1>2 DEF CanPlay, OnOutputTranscript
<1>3. CASE OnLanguageChange
  BY <1>n, <1>3 DEF OnLanguageChange
<1>4. CASE OnInterrupted
  <2>1. turn' \in [new : BOOLEAN, approved : BOOLEAN, released : BOOLEAN,
                   text : BOOLEAN, held : BOOLEAN]
    BY <1>4 DEF NoTurn, OnInterrupted
  <2>2. redirect' \in {redirect, [redirect EXCEPT !.await = FALSE]}
    BY <1>4 DEF OnInterrupted
  <2>3. recv' \in {recv, "idle", "interrupt"}
    BY <1>4 DEF OnInterrupted
  <2> QED
    BY <2>1, <2>2, <2>3
<1>5. CASE OnTurnComplete
  <2>1. turn' = NoTurn
    BY <1>5 DEF OnTurnComplete
  <2>2. recv' \in {recv, "valid"}
    BY <1>5 DEF OnTurnComplete
  <2>3. redirect' \in {NoRedirect, [redirect EXCEPT !.await = FALSE]}
    BY <1>5 DEF OnTurnComplete
  <2> QED
    BY <1>n, <2>1, <2>2, <2>3
<1>6. CASE OnCompleteCall \/ OnLanguageSwitch \/ LiveFails
  BY <1>6 DEF OnCompleteCall, OnLanguageSwitch, LiveFails
<1>7. CASE Callback
  BY <1>7 DEF Callback, DiscardOldReply, ConfirmLiveInterruption, ClearHangup, CloseAfterTurn, EndFailed
<1>8. CASE Pump \/ Worker
  BY <1>c, <1>8 DEF Pump, Worker, TakePacket, PacketSent, TakeEnd, HangUp
<1>9. CASE Silence
  BY <1>9 DEF Silence, CheckGoodbye, Goodbye, EndSilent
<1>10. CASE Media
  BY <1>10 DEF Media, HearSpeech, TriggerBargeIn, ClearPasses
<1>11. CASE Limit \/ CallEnds
  BY <1>c, <1>11 DEF Limit, LimitFires, LimitCloses, ForceHangUp, CallEnds
<1>12. CASE UNCHANGED liveVars
  BY <1>12 DEF liveVars
<1> QED
  BY <1>1, <1>2, <1>3, <1>4, <1>5, <1>6, <1>7, <1>8, <1>9, <1>10, <1>11, <1>12 DEF LiveNext, Event

\* The worker, the watchdog, the media loop and the duration limit.
LEMMA ActorsKept == ActorTypes /\ [LiveNext]_liveVars => ActorTypes'
<1> SUFFICES ASSUME ActorTypes, [LiveNext]_liveVars PROVE ActorTypes'
  OBVIOUS
<1> USE DEF ActorTypes, actors, RequestFinalClose, Close
<1>1. CASE Event
  BY <1>1 DEF Event, OnAudio, OnOutputTranscript, OnLanguageChange, OnInterrupted, OnTurnComplete,
              OnCompleteCall, OnLanguageSwitch, LiveFails
<1>2. CASE Callback
  BY <1>2 DEF Callback, DiscardOldReply, ConfirmLiveInterruption, ClearHangup, CloseAfterTurn, EndFailed
<1>3. CASE Pump \/ Worker
  BY <1>3 DEF Pump, Worker, TakePacket, PacketSent, TakeEnd, HangUp
<1>4. CASE Silence
  BY <1>4 DEF Silence, CheckGoodbye, Goodbye, EndSilent
<1>5. CASE Media
  BY <1>5 DEF Media, HearSpeech, TriggerBargeIn, ClearPasses
<1>6. CASE Limit \/ CallEnds
  BY <1>6 DEF Limit, LimitFires, LimitCloses, ForceHangUp, CallEnds
<1>7. CASE UNCHANGED liveVars
  BY <1>7 DEF liveVars
<1> QED
  BY <1>1, <1>2, <1>3, <1>4, <1>5, <1>6, <1>7 DEF LiveNext

\* Sleeping goroutines and sentinels.
LEMMA LiveCountsKept == CountTypes /\ [LiveNext]_liveVars => CountTypes'
<1> SUFFICES ASSUME CountTypes, [LiveNext]_liveVars PROVE CountTypes'
  OBVIOUS
<1> USE DEF CountTypes, barge, out, Discard, InterruptActiveTTS, SendEnd, RequestFinalClose, Close
<1>1. CASE Event
  BY <1>1 DEF Event, OnAudio, OnOutputTranscript, OnLanguageChange, OnInterrupted, OnTurnComplete,
              OnCompleteCall, OnLanguageSwitch, LiveFails
<1>2. CASE Callback
  BY <1>2 DEF Callback, DiscardOldReply, ConfirmLiveInterruption, ClearHangup, CloseAfterTurn, EndFailed
<1>3. CASE Pump \/ Worker
  BY <1>3 DEF Pump, Worker, TakePacket, PacketSent, TakeEnd, HangUp
<1>4. CASE Silence
  BY <1>4 DEF Silence, CheckGoodbye, Goodbye, EndSilent
<1>5. CASE Media
  BY <1>5 DEF Media, HearSpeech, TriggerBargeIn, ClearPasses
<1>6. CASE Limit \/ CallEnds
  BY <1>6 DEF Limit, LimitFires, LimitCloses, ForceHangUp, CallEnds
<1>7. CASE UNCHANGED liveVars
  BY <1>7 DEF liveVars
<1> QED
  BY <1>1, <1>2, <1>3, <1>4, <1>5, <1>6, <1>7 DEF LiveNext

\* What is queued for the carrier is found there, and nothing is lost.
LEMMA PacketsQueued ==
  ASSUME AudioTypes, NEW packets \in Seq(Packet), Queue(packets)
  PROVE  /\ audioOut' \in Seq(Packet) /\ Len(audioOut') <= OutCap
         /\ \A p : Has(p) => Has(p)'
         /\ \A i \in DOMAIN packets : Has(packets[i])'
<1>1. /\ Len(audioOut) \in Nat /\ Len(packets) \in Nat
      /\ audioOut' \in Seq(Packet) /\ Len(audioOut') = Len(audioOut) + Len(packets)
      /\ \A i \in 1..Len(audioOut) : audioOut'[i] = audioOut[i]
      /\ \A i \in 1..Len(packets) : audioOut'[Len(audioOut) + i] = packets[i]
  BY DEF AudioTypes, Queue
<1>2. Len(audioOut') <= OutCap
  BY <1>1 DEF Queue
<1>3. ASSUME NEW i \in DOMAIN audioOut PROVE Has(audioOut[i])'
  <2>1. i \in DOMAIN audioOut' /\ audioOut'[i] = audioOut[i]
    BY <1>1, <1>3 DEF AudioTypes
  <2> QED
    BY <2>1 DEF Has
<1>4. ASSUME NEW i \in DOMAIN packets PROVE Has(packets[i])'
  <2>1. Len(audioOut) + i \in DOMAIN audioOut' /\ audioOut'[Len(audioOut) + i] = packets[i]
    BY <1>1, <1>4
  <2> QED
    BY <2>1 DEF Has
<1> QED
  BY <1>1, <1>2, <1>3, <1>4 DEF Has

\* The pump takes the hang-up, or leaves it in the queue.
LEMMA PacketTaken ==
  ASSUME AudioTypes, audioOut # <<>>, audioOut' = Tail(audioOut)
  PROVE  /\ Head(audioOut) \in Packet
         /\ audioOut' \in Seq(Packet) /\ Len(audioOut') <= OutCap
         /\ \A p : Has(p) => Head(audioOut) = p \/ Has(p)'
<1>1. /\ Len(audioOut) \in Nat \ {0} /\ Head(audioOut) = audioOut[1] /\ Head(audioOut) \in Packet
      /\ audioOut' \in Seq(Packet) /\ Len(audioOut') = Len(audioOut) - 1
      /\ \A i \in 1..Len(audioOut) - 1 : audioOut'[i] = audioOut[i + 1]
  BY DEF AudioTypes
<1>2. ASSUME NEW p, NEW i \in DOMAIN audioOut, audioOut[i] = p, Head(audioOut) # p PROVE Has(p)'
  <2>1. i - 1 \in DOMAIN audioOut' /\ audioOut'[i - 1] = p
    BY <1>1, <1>2 DEF AudioTypes
  <2> QED
    BY <2>1 DEF Has
<1> QED
  BY <1>1, <1>2 DEF AudioTypes, Has
\* What OnTurnComplete queues: the audio held, and behind it the hang-up.
LEMMA LastPackets ==
  ASSUME NEW audio \in {<<>>, <<"audio">>}
  PROVE  /\ audio \o <<>> \in Seq(Packet) /\ audio \o <<"close">> \in Seq(Packet)
         /\ \E i \in DOMAIN (audio \o <<"close">>) : (audio \o <<"close">>)[i] = "close"
<1>1. CASE audio = <<>>
  <2>1. <<>> \o <<>> \in Seq(Packet) /\ <<>> \o <<"close">> \in Seq(Packet)
    BY DEF Packet
  <2>2. 1 \in DOMAIN (<<>> \o <<"close">>) /\ (<<>> \o <<"close">>)[1] = "close"
    OBVIOUS
  <2> QED
    BY <1>1, <2>1, <2>2
<1>2. CASE audio = <<"audio">>
  <2>1. <<"audio">> \o <<>> \in Seq(Packet) /\ <<"audio">> \o <<"close">> \in Seq(Packet)
    BY DEF Packet
  <2>2. 2 \in DOMAIN (<<"audio">> \o <<"close">>) /\ (<<"audio">> \o <<"close">>)[2] = "close"
    OBVIOUS
  <2> QED
    BY <1>2, <2>1, <2>2
<1> QED
  BY <1>1, <1>2

\* The packets queued for the carrier, and the one in hand.
LEMMA AudioKept == AudioTypes /\ [LiveNext]_liveVars => AudioTypes'
<1> SUFFICES ASSUME AudioTypes, [LiveNext]_liveVars PROVE AudioTypes'
  OBVIOUS
<1> USE DEF out, Packet
<1>e. ASSUME audioOut' = <<>>, pump' = "idle" PROVE AudioTypes'
  BY <1>e DEF AudioTypes
<1>u. ASSUME audioOut' = audioOut, pump' \in {pump, "idle"} PROVE AudioTypes'
  BY <1>u DEF AudioTypes
<1>q. ASSUME NEW packets \in Seq(Packet), Queue(packets), pump' = pump PROVE AudioTypes'
  BY <1>q, PacketsQueued DEF AudioTypes
<1>p. /\ <<"audio">> \in Seq(Packet) /\ <<>> \in Seq(Packet)
      /\ <<"audio">> \o <<"close">> \in Seq(Packet) /\ <<>> \o <<"close">> \in Seq(Packet)
      /\ <<"audio">> \o <<>> \in Seq(Packet) /\ <<>> \o <<>> \in Seq(Packet)
  OBVIOUS
<1>c. CASE Close
  BY <1>c, <1>e DEF Close
<1>1. CASE OnAudio
  BY <1>1, <1>p, <1>q, <1>u DEF OnAudio
<1>2. CASE OnOutputTranscript
  BY <1>2, <1>p, <1>q, <1>u DEF OnOutputTranscript
<1>3. CASE OnInterrupted
  BY <1>3, <1>e, <1>u DEF OnInterrupted, Discard
<1>4. CASE OnTurnComplete
  BY <1>4, <1>p, <1>q, <1>e, <1>u DEF OnTurnComplete, Discard
<1>5. CASE OnLanguageChange \/ OnCompleteCall \/ OnLanguageSwitch \/ LiveFails
  BY <1>5, <1>u, <1>e DEF OnLanguageChange, OnCompleteCall, OnLanguageSwitch, LiveFails, Discard
<1>6. CASE Callback
  BY <1>6, <1>u, <1>e DEF Callback, DiscardOldReply, ConfirmLiveInterruption, ClearHangup, CloseAfterTurn, EndFailed,
     InterruptActiveTTS, Discard
<1>7. CASE TakePacket
  <2>1. Head(audioOut) \in Packet /\ audioOut' \in Seq(Packet) /\ Len(audioOut') <= OutCap
    BY <1>7, PacketTaken DEF TakePacket
  <2>2. pump' \in Packet \cup {"idle"}
    BY <1>7, <2>1 DEF TakePacket
  <2> QED
    BY <2>1, <2>2 DEF AudioTypes
<1>8. CASE PacketSent \/ Worker
  BY <1>8, <1>c, <1>u DEF PacketSent, Worker, TakeEnd, HangUp
<1>9. CASE Silence
  BY <1>9, <1>u DEF Silence, CheckGoodbye, Goodbye, EndSilent
<1>10. CASE Media
  BY <1>10, <1>u, <1>e DEF Media, HearSpeech, TriggerBargeIn, ClearPasses, InterruptActiveTTS, Discard
<1>11. CASE Limit \/ CallEnds
  BY <1>11, <1>u, <1>c DEF Limit, LimitFires, LimitCloses, ForceHangUp, CallEnds
<1>12. CASE UNCHANGED liveVars
  BY <1>12, <1>u DEF liveVars
<1> QED
  BY <1>1, <1>2, <1>3, <1>4, <1>5, <1>6, <1>7, <1>8, <1>9, <1>10, <1>11, <1>12 DEF LiveNext, Event, Pump

-----------------------------------------------------------------------------
\* A hang-up is issued, or about to be by its own, only in a final close; the
\* duration limit, once it has caused the close, stands ready to force it.
Caused ==
  /\ recv = "failed" \/ goodbye = "end" \/ due => IsFinalClosing
  /\ open /\ closing = "limit" => limit = "force"

\* No step undoes a final close.
LEMMA CausedKept == LiveFlagTypes /\ Caused /\ [LiveNext]_liveVars => Caused'
<1> SUFFICES ASSUME LiveFlagTypes, Caused, [LiveNext]_liveVars PROVE Caused'
  OBVIOUS
<1> USE DEF Caused, LiveFlagTypes, IsFinalClosing
<1>c. CASE Close
  BY <1>c DEF Close, close, history
<1>r. ASSUME NEW c \in {"model", "inactivity", "failed"}, RequestFinalClose(c), open' = open, due' = due
      PROVE  Caused'
  BY <1>r DEF RequestFinalClose, Because
<1>1. CASE OnAudio \/ OnOutputTranscript \/ OnLanguageChange \/ OnInterrupted \/ OnLanguageSwitch
  BY <1>1 DEF OnAudio, OnOutputTranscript, OnLanguageChange, OnInterrupted, OnLanguageSwitch, Discard, close, actors, history
<1>2. CASE OnCompleteCall \/ LiveFails
  BY <1>2, <1>r DEF OnCompleteCall, LiveFails, history
<1>3. CASE OnTurnComplete
  BY <1>3 DEF OnTurnComplete, Discard, close, actors, history
<1>4. CASE Callback
  BY <1>4 DEF Callback, DiscardOldReply, ConfirmLiveInterruption, ClearHangup, CloseAfterTurn, EndFailed, InterruptActiveTTS,
     Discard, close, actors, history
<1>5. CASE Pump \/ Worker
  BY <1>c, <1>5 DEF Pump, Worker, TakePacket, PacketSent, TakeEnd, HangUp, close, actors, history
<1>6. CASE Silence
  BY <1>6, <1>r DEF Silence, CheckGoodbye, Goodbye, EndSilent, close, history
<1>7. CASE Media
  BY <1>7 DEF Media, HearSpeech, TriggerBargeIn, ClearPasses, InterruptActiveTTS, Discard, close, actors, history
<1>8. CASE Limit \/ CallEnds
  BY <1>c, <1>8 DEF Limit, LimitFires, LimitCloses, ForceHangUp, CallEnds, Because, close, history
<1>9. CASE UNCHANGED liveVars
  BY <1>9 DEF liveVars, close, actors, history
<1> QED
  BY <1>1, <1>2, <1>3, <1>4, <1>5, <1>6, <1>7, <1>8, <1>9 DEF LiveNext, Event

\* The inductive invariant of the closing of a call.
HangUpInv == LiveFlagTypes /\ AudioTypes /\ CountTypes /\ Caused /\ HangUpNotLost

\* A goodbye is not thrown away: whoever silences the agent afterwards discards
\* playback as well.
LEMMA SilenceLifted ==
  ASSUME HangUpInv, [LiveNext]_liveVars, open', ~cut', closing' \in {"model", "inactivity", "failed"}
  PROVE  ~active'
<1> USE DEF HangUpInv, HangUpNotLost, Caused, LiveFlagTypes, IsFinalClosing, Idle
<1>c. ~Close
  BY DEF Close
<1>d. ~(InterruptActiveTTS /\ closing' = closing)
  BY DEF InterruptActiveTTS, Discard
<1>k. open /\ ~cut /\ closing' = closing /\ active' \in {active, FALSE} => ~active'
  OBVIOUS
<1>1. CASE Event
  <2>1. open /\ ~cut
    BY <1>1 DEF Event, OnAudio, OnOutputTranscript, OnLanguageChange, OnInterrupted, OnLanguageSwitch, OnTurnComplete,
      OnCompleteCall, LiveFails, Discard, history
  <2>2. CASE OnCompleteCall \/ LiveFails
    BY <2>2 DEF OnCompleteCall, LiveFails, RequestFinalClose
  <2> QED
    BY <1>1, <2>1, <2>2, <1>k DEF Event, OnAudio, OnOutputTranscript, OnLanguageChange, OnInterrupted, OnLanguageSwitch,
       OnTurnComplete, close, barge
<1>2. CASE Callback
  <2>1. CASE ConfirmLiveInterruption
    BY <1>d, <2>1 DEF ConfirmLiveInterruption, close
  <2> QED
    BY <1>2, <1>k, <2>1 DEF Callback, DiscardOldReply, ClearHangup, CloseAfterTurn, EndFailed, Discard, close, barge, history
<1>3. CASE Pump \/ Worker
  BY <1>c, <1>k, <1>3 DEF Pump, Worker, TakePacket, PacketSent, TakeEnd, HangUp, close, barge, history
<1>4. CASE Silence
  BY <1>k, <1>4 DEF Silence, CheckGoodbye, Goodbye, EndSilent, RequestFinalClose, close, barge, history
<1>5. CASE Media
  BY <1>d, <1>k, <1>5 DEF Media, HearSpeech, TriggerBargeIn, ClearPasses, close, barge, history
<1>6. CASE Limit \/ CallEnds
  BY <1>c, <1>k, <1>6 DEF Limit, LimitFires, LimitCloses, ForceHangUp, CallEnds, Because, close, barge, history
<1>7. CASE UNCHANGED liveVars
  BY <1>k, <1>7 DEF liveVars, close, barge, history
<1> QED
  BY <1>1, <1>2, <1>3, <1>4, <1>5, <1>6, <1>7 DEF LiveNext

\* An issued hang-up moves from the audio queue to the pump, to the sentinels
\* and to the worker, and is not dropped on the way: a packet the pump throws
\* away was taken under a barge-in, which only the duration limit leaves.
LEMMA CloserKept ==
  ASSUME HangUpInv, [LiveNext]_liveVars, open', ~cut', due' PROVE Closer'
<1> USE DEF HangUpInv, HangUpNotLost, Caused, LiveFlagTypes, IsFinalClosing, Idle, CountTypes
<1>c. ~Close
  BY DEF Close
<1>d. ~Discard \/ (open => ~IsFinalClosing)
  BY DEF Discard
<1>e. ASSUME SendEnd PROVE Closer'
  BY <1>e DEF SendEnd, Closer
<1>k. ASSUME open, ~cut, due, UNCHANGED <<worker, ends, audioOut, pump>>, limit = "force" => limit' = "force" PROVE Closer'
  BY <1>k DEF Closer, Has
<1>q. ASSUME open, ~cut, due, NEW packets \in Seq(Packet), Queue(packets),
             UNCHANGED <<worker, ends, pump, limit>>
      PROVE  Closer'
  BY <1>q, PacketsQueued DEF Closer
<1>p. /\ <<"audio">> \in Seq(Packet) /\ <<>> \in Seq(Packet)
  BY DEF Packet
<1>1. CASE OnAudio
  BY <1>1, <1>k, <1>p, <1>q DEF OnAudio, actors, history
<1>2. CASE OnOutputTranscript
  BY <1>2, <1>k, <1>p, <1>q DEF OnOutputTranscript, out, actors, history
<1>3. CASE OnLanguageChange \/ OnInterrupted \/ OnLanguageSwitch
  BY <1>3, <1>k, <1>d DEF OnLanguageChange, OnInterrupted, OnLanguageSwitch, actors, history, out, Discard
<1>4. CASE OnCompleteCall \/ LiveFails
  BY <1>4, <1>k DEF OnCompleteCall, LiveFails, RequestFinalClose, out, history
<1>5. CASE OnTurnComplete
  <2>1. CASE Discard
    BY <1>5, <2>1, <1>d DEF OnTurnComplete, Discard
  <2>2. CASE UNCHANGED <<out, history>>
    BY <1>5, <2>2, <1>k DEF OnTurnComplete, out, history, actors
  <2>3. ASSUME NEW audio \in {<<>>, <<"audio">>}, Queue(audio \o <<"close">>) PROVE Closer'
    <3>1. PICK i \in DOMAIN (audio \o <<"close">>) : (audio \o <<"close">>)[i] = "close"
      BY <2>3, LastPackets
    <3>2. Has("close")'
      BY <2>3, <3>1, LastPackets, PacketsQueued
    <3> QED
      BY <3>2 DEF Closer
  <2>4. ASSUME NEW audio \in {<<>>, <<"audio">>}, Queue(audio \o <<>>), open, ~cut, due,
               UNCHANGED <<worker, ends, pump, limit>>
        PROVE  Closer'
    <3>1. audio \o <<>> \in Seq(Packet)
      BY <2>4, LastPackets
    <3> QED
      BY <2>4, <3>1, <1>q
  <2>5. CASE /\ Queue((IF turn.held THEN <<"audio">> ELSE <<>>)
                      \o (IF plivo /\ IsFinalClosing /\ finalAudio THEN <<"close">> ELSE <<>>))
             /\ due' = (due \/ (plivo /\ IsFinalClosing /\ finalAudio))
             /\ UNCHANGED <<pump, ends, cut>>
    <3>1. (IF turn.held THEN <<"audio">> ELSE <<>>) \in {<<>>, <<"audio">>}
      OBVIOUS
    <3>2. CASE plivo /\ IsFinalClosing /\ finalAudio
      BY <2>3, <2>5, <3>1, <3>2
    <3>3. CASE ~(plivo /\ IsFinalClosing /\ finalAudio)
      <4>1. open /\ ~cut /\ due /\ UNCHANGED <<worker, ends, pump, limit>>
        BY <1>5, <2>5, <3>3 DEF OnTurnComplete, actors
      <4> QED
        BY <2>4, <2>5, <3>1, <3>3, <4>1
    <3> QED
      BY <3>2, <3>3
  <2> QED
    BY <1>5, <2>1, <2>2, <2>5 DEF OnTurnComplete
<1>6. CASE Callback
  BY <1>6, <1>k, <1>d, <1>e DEF Callback, DiscardOldReply, ConfirmLiveInterruption, ClearHangup, CloseAfterTurn, EndFailed,
     InterruptActiveTTS, actors, out, history, Discard
<1>7. CASE TakePacket
  <2>1. open /\ ~cut /\ due /\ UNCHANGED <<closing, worker, ends, limit>>
    BY <1>7 DEF TakePacket, close, actors, history
  <2>2. Closer /\ (closing # "limit" => ~active)
    BY <2>1
  <2>3. /\ Has("close") => Head(audioOut) = "close" \/ Has("close")'
    BY <1>7, PacketTaken DEF TakePacket
  <2>4. pump = "idle" /\ (~active => pump' = Head(audioOut))
    BY <1>7 DEF TakePacket
  <2> QED
    BY <2>1, <2>2, <2>3, <2>4 DEF Closer
<1>8. CASE PacketSent
  <2>1. open /\ ~cut /\ due /\ UNCHANGED <<audioOut, worker, limit>>
    BY <1>8 DEF PacketSent, actors, history
  <2>2. CASE pump = "close"
    BY <1>8, <2>2, <1>e DEF PacketSent
  <2>3. CASE pump # "close"
    BY <1>8, <2>1, <2>3 DEF PacketSent, Closer, Has
  <2> QED
    BY <2>2, <2>3
<1>9. CASE Worker
  BY <1>9, <1>c DEF Worker, TakeEnd, HangUp, Closer
<1>10. CASE Silence
  BY <1>10, <1>k, <1>e DEF Silence, CheckGoodbye, Goodbye, EndSilent, RequestFinalClose, out, history
<1>11. CASE Media
  BY <1>11, <1>k, <1>d DEF Media, HearSpeech, TriggerBargeIn, ClearPasses, InterruptActiveTTS, actors, out, history, Discard
<1>12. CASE Limit \/ CallEnds
  BY <1>12, <1>c, <1>k DEF Limit, LimitFires, LimitCloses, ForceHangUp, CallEnds, Closer, out, history
<1>13. CASE UNCHANGED liveVars
  BY <1>13, <1>k DEF liveVars, actors, out, history
<1> QED
  BY <1>1, <1>2, <1>3, <1>4, <1>5, <1>6, <1>7, <1>8, <1>9, <1>10, <1>11, <1>12, <1>13 DEF LiveNext, Event, Pump

\* Both parts of HangUpNotLost.
LEMMA HangUpKept == HangUpInv /\ [LiveNext]_liveVars => HangUpNotLost'
BY SilenceLifted, CloserKept DEF HangUpNotLost

\* Types and closing together are an invariant.
LEMMA LiveInvariant == LiveSpec => [](LiveTypeOK /\ HangUpInv)
<1> DEFINE Inv == LiveTypeOK /\ HangUpInv
<1>1. LiveInit => Inv
  <2> SUFFICES ASSUME LiveInit PROVE Inv
    OBVIOUS
  <2>1. LiveFlagTypes
    BY DEF LiveInit, LiveFlagTypes
  <2>2. CountTypes /\ AudioTypes
    BY DEF LiveInit, CountTypes, AudioTypes, Packet
  <2>3. TurnTypes /\ ActorTypes
    BY DEF LiveInit, TurnTypes, ActorTypes, NoTurn, NoRedirect
  <2>4. Caused /\ HangUpNotLost
    BY DEF LiveInit, Caused, HangUpNotLost
  <2> QED
    BY <2>1, <2>2, <2>3, <2>4, LiveTypeParts DEF HangUpInv
<1>2. Inv /\ [LiveNext]_liveVars => Inv'
  <2> SUFFICES ASSUME Inv, [LiveNext]_liveVars PROVE Inv'
    OBVIOUS
  <2>1. LiveFlagTypes' /\ TurnTypes' /\ ActorTypes' /\ CountTypes' /\ AudioTypes'
    BY LiveTypeParts, LiveFlagsKept, TurnsKept, ActorsKept, LiveCountsKept, AudioKept
  <2>2. Caused' /\ HangUpNotLost'
    BY CausedKept, HangUpKept DEF HangUpInv
  <2>3. LiveTypeOK'
    BY <2>1 DEF LiveTypeOK, LiveFlagTypes, TurnTypes, ActorTypes, CountTypes, AudioTypes
  <2> QED
    BY <2>1, <2>2, <2>3 DEF HangUpInv
<1> QED
  BY <1>1, <1>2, PTL DEF LiveSpec

\* The state of a session on the native-audio path keeps its types, and its
\* channels their room.
THEOREM LiveTypeCorrect == LiveSpec => []LiveTypeOK
BY LiveInvariant, PTL

\* CloseAfterTurn, OnTurnComplete, EndFailed and EndSilent issue a hang-up that
\* stays with somebody, and RequestFinalClose lifts a barge-in for good, unless
\* playback was discarded during the final close.
THEOREM HangUpKeptUnlessCut == LiveSpec => []HangUpNotLost
<1>1. HangUpInv => HangUpNotLost
  BY DEF HangUpInv
<1> QED
  BY <1>1, LiveInvariant, PTL
=============================================================================
