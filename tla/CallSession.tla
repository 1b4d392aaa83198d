----------------------------- MODULE CallSession -----------------------------
(***************************************************************************)
(* One AI call on the speech-to-text / LLM / text-to-speech path: how a    *)
(* customer's speech interrupts the agent (barge-in), and how the call is  *)
(* brought to an end (voicemail, the model's own goodbye, the maximum      *)
(* duration).  Four goroutines share atomic flags and two channels:        *)
(*                                                                         *)
(*   stt     the recogniser's receive loop and its transcript callback     *)
(*   pipe    runPipeline, one customer turn at a time                      *)
(*   worker  runTTSWorker, which speaks sentences and hangs up at ""       *)
(*   limit   the maximum-duration timers                                   *)
(*                                                                         *)
(* and every barge-in leaves a goroutine behind that sleeps and then       *)
(* clears a flag.  Time is left out: a sleeping goroutine may wake at any  *)
(* moment, and "TTS was playing recently" may hold at any moment.          *)
(***************************************************************************)
EXTENDS Naturals, Sequences

CONSTANTS
  TranscriptCap,  \* room in CallSession.Transcripts (32 in the code)
  SentenceCap,    \* room in CallSession.TTSSentences (64 in the code)
  TimerCap        \* bound: barge-in goroutines of one kind asleep at once

ASSUME TranscriptCapAssumption == TranscriptCap \in Nat \ {0}
ASSUME SentenceCapAssumption == SentenceCap \in Nat \ {0}
ASSUME TimerCapAssumption == TimerCap \in Nat \ {0}

VARIABLES
  pending,      \* bargeInPending: speech heard, not yet confirmed by a transcript
  active,       \* bargeInActive: outbound audio frames are thrown away
  hangupReq, finalReq, mdWait, mdClosing,   \* the flags of the same names
  deadlines,    \* goroutines of TentativeTriggerBargeIn still asleep (4 s)
  clears,       \* goroutines of interruptActiveTTS still asleep (3 s)
  transcripts,  \* how many wait in Transcripts; what they say is seen when taken
  ttsQ,         \* TTSSentences
  stt, pipe, worker, limit,    \* where each goroutine stands
  open,         \* the call's context: FALSE once the socket is closed
  lost,         \* history: a sentinel was thrown away and the hang-up not taken back
  tookBack      \* history: an interruption took a requested hang-up back

flags == <<pending, active, hangupReq, finalReq, mdWait, mdClosing>>
timers == <<deadlines, clears>>
queues == <<transcripts, ttsQ>>
procs == <<stt, pipe, worker, limit>>
history == <<lost, tookBack>>
callVars == <<flags, timers, queues, procs, open, history>>

Final == "final"         \* a final transcript goes to the pipeline
Partial == "partial"     \* a partial one confirms, and is not delivered
Line == "say"            \* an ordinary sentence of the agent
Bye == "bye"             \* a closing line: pitch, farewell, or duration limit
End == "end"             \* the empty sentence: hang up
Speaking == {Line, Bye}
Listening == [at |-> "idle", text |-> Partial]

CallTypeOK ==
  /\ flags \in BOOLEAN \X BOOLEAN \X BOOLEAN \X BOOLEAN \X BOOLEAN \X BOOLEAN
  /\ deadlines \in 0..TimerCap
  /\ clears \in 0..TimerCap
  /\ transcripts \in 0..TranscriptCap
  /\ ttsQ \in Seq(Speaking \cup {End}) /\ Len(ttsQ) <= SentenceCap
  /\ stt \in [at : {"idle", "confirm", "recover", "unhang", "send"},
              text : {Final, Partial}]
  /\ pipe \in {"idle", "gate", "turn", "sentence", "spoke", "bye", "inferred", "end"}
  /\ worker \in {"idle", "draining", "gone"} \cup Speaking
  /\ limit \in {"none", "armed", "waiting", "bye", "end", "force"}
  /\ open \in BOOLEAN
  /\ lost \in BOOLEAN
  /\ tookBack \in BOOLEAN

\* limit: a campaign may have no maximum duration, and then no timer starts.
CallInit ==
  /\ pending = FALSE /\ active = FALSE /\ hangupReq = FALSE
  /\ finalReq = FALSE /\ mdWait = FALSE /\ mdClosing = FALSE
  /\ deadlines = 0 /\ clears = 0
  /\ transcripts = 0 /\ ttsQ = <<>>
  /\ stt = Listening
  /\ pipe = "idle" /\ worker = "idle" /\ limit \in {"none", "armed"}
  /\ open = TRUE
  /\ lost = FALSE /\ tookBack = FALSE

-----------------------------------------------------------------------------
(* Operations of CallSession. *)

IsFinalClosing == finalReq \/ mdClosing

RequestFinalClose ==
  /\ finalReq' = TRUE /\ hangupReq' = TRUE
  /\ mdWait' = FALSE /\ pending' = FALSE /\ active' = FALSE
  /\ UNCHANGED mdClosing

RequestMaxDurationClose ==
  /\ mdClosing' = TRUE /\ hangupReq' = TRUE /\ mdWait' = FALSE
  /\ UNCHANGED <<pending, active, finalReq>>

\* CancelActiveTTS ends the synthesis of the sentence being spoken.
CancelActiveTTS == worker' = IF worker \in Speaking THEN "idle" ELSE worker

Queued(x) == \E i \in DOMAIN ttsQ : ttsQ[i] = x

\* A blocking send to TTSSentences, and the send that gives up on a full channel.
Send(x) == Len(ttsQ) < SentenceCap /\ ttsQ' = Append(ttsQ, x)
\* Mutant: the channel has no bound.
SendAnyway(x) == ttsQ' = Append(ttsQ, x)
SendOrDrop(x) == ttsQ' = IF Len(ttsQ) < SentenceCap THEN Append(ttsQ, x) ELSE ttsQ

\* The socket closes: the context is cancelled and every goroutine that waits
\* on it returns; what the channels held is lost.  Sleeping goroutines sleep on.
Close ==
  /\ open' = FALSE
  /\ transcripts' = 0 /\ ttsQ' = <<>>
  /\ stt' = Listening /\ pipe' = "idle" /\ worker' = "gone" /\ limit' = "none"
  /\ UNCHANGED <<flags, timers, history>>

-----------------------------------------------------------------------------
(* Speech of the customer. *)

\* TryBargeIn with TentativeTriggerBargeIn, from the energy VAD in the media
\* loop or from the recogniser's speech start.
SpeechStarts ==
  /\ open /\ ~IsFinalClosing /\ ~active /\ ~pending
  /\ deadlines < TimerCap
  /\ pending' = TRUE /\ deadlines' = deadlines + 1
  /\ UNCHANGED <<active, hangupReq, finalReq, mdWait, mdClosing, clears, queues,
                 procs, open, history>>

\* The deadline goroutine of some tentative barge-in, this one or an earlier one.
DeadlinePasses ==
  /\ open /\ deadlines > 0
  /\ deadlines' = deadlines - 1
  /\ pending' = FALSE
  /\ active' = (active /\ ~pending)
  /\ UNCHANGED <<hangupReq, finalReq, mdWait, mdClosing, clears, queues, procs,
                 open, history>>

\* The goroutine of interruptActiveTTS that re-admits audio after 3 s.
ClearPasses ==
  /\ open /\ clears > 0
  /\ clears' = clears - 1
  /\ active' = FALSE
  /\ UNCHANGED <<pending, hangupReq, finalReq, mdWait, mdClosing, deadlines,
                 queues, procs, open, history>>

\* Noise: a filler or a pathological final cancels a pending barge-in; a final
\* filler clears the active flag even when none is pending.
HearNoise ==
  /\ open /\ stt.at = "idle" /\ ~IsFinalClosing
  /\ \E final \in BOOLEAN :
       /\ pending \/ (final /\ active)
       /\ pending' = FALSE
       /\ active' = FALSE
  /\ UNCHANGED <<hangupReq, finalReq, mdWait, mdClosing, timers, queues, procs,
                 open, history>>

\* A meaningful partial transcript: only confirms a pending barge-in.
HearPartial ==
  /\ open /\ stt.at = "idle" /\ pending
  /\ pending' = FALSE
  /\ IF IsFinalClosing
     THEN active' = FALSE /\ UNCHANGED stt
     ELSE stt' = [at |-> "confirm", text |-> Partial] /\ UNCHANGED active
  /\ UNCHANGED <<hangupReq, finalReq, mdWait, mdClosing, timers, queues, pipe,
                 worker, limit, open, history>>

\* A final transcript.  It confirms a pending barge-in; otherwise, while the
\* agent speaks, it is taken for an echo and dropped (no step) or recovers a
\* missed interruption; otherwise it is delivered as it is.
HearFinal ==
  /\ open /\ stt.at = "idle" /\ ~IsFinalClosing
  /\ \/ pending /\ stt' = [at |-> "confirm", text |-> Final]
     \/ ~pending /\ ~active /\ worker \in Speaking /\ stt' = [at |-> "recover", text |-> Final]
     \/ ~pending /\ (active \/ worker \notin Speaking) /\ stt' = [at |-> "send", text |-> Final]
  /\ pending' = FALSE
  /\ UNCHANGED <<active, hangupReq, finalReq, mdWait, mdClosing, timers, queues,
                 pipe, worker, limit, open, history>>

\* Mutant: no goroutine is started that re-admits audio.
InterruptForGood ==
  /\ open /\ stt.at \in {"confirm", "recover"}
  /\ active' = TRUE
  /\ ttsQ' = <<>>
  /\ CancelActiveTTS
  /\ stt' = [stt EXCEPT !.at = IF @ = "confirm" THEN "unhang" ELSE "send"]
  /\ lost' = (lost \/ (Queued(End) /\ (stt.at = "recover" \/ IsFinalClosing)))
  /\ UNCHANGED <<pending, hangupReq, finalReq, mdWait, mdClosing, timers,
                 transcripts, pipe, limit, open, tookBack>>
\* interruptActiveTTS, whose caller has checked IsFinalClosing a step earlier:
\* the queue is drained, sentinel included, and the sentence being spoken stops.
Interrupt ==
  /\ open /\ stt.at \in {"confirm", "recover"}
  /\ clears < TimerCap
  /\ active' = TRUE /\ clears' = clears + 1
  /\ ttsQ' = <<>>
  /\ CancelActiveTTS
  /\ stt' = [stt EXCEPT !.at = IF @ = "confirm" THEN "unhang" ELSE "send"]
  /\ lost' = (lost \/ (Queued(End) /\ (stt.at = "recover" \/ IsFinalClosing)))
  /\ UNCHANGED <<pending, hangupReq, finalReq, mdWait, mdClosing, deadlines,
                 transcripts, pipe, limit, open, tookBack>>

\* The end of ConfirmBargeIn: an interrupted goodbye is taken back.
ClearHangup ==
  /\ open /\ stt.at = "unhang"
  /\ hangupReq' = FALSE
  /\ tookBack' = (tookBack \/ hangupReq)
  /\ stt' = [stt EXCEPT !.at = "send"]
  /\ UNCHANGED <<pending, active, finalReq, mdWait, mdClosing, timers, queues,
                 pipe, worker, limit, open, lost>>

\* The transcript goes to the pipeline; the callback blocks while it is full.
SendTranscript ==
  /\ open /\ stt.at = "send"
  /\ IF stt.text = Partial
     THEN UNCHANGED transcripts
     ELSE transcripts < TranscriptCap /\ transcripts' = transcripts + 1
  /\ stt' = Listening
  /\ UNCHANGED <<flags, timers, ttsQ, pipe, worker, limit, open, history>>

-----------------------------------------------------------------------------
(* runPipeline and processTranscript. *)

\* The transcript is left, answered, or (isVoicemail) taken for a mailbox.
TakeTranscript ==
  /\ open /\ pipe = "idle" /\ transcripts > 0
  /\ transcripts' = transcripts - 1
  /\ \/ /\ IsFinalClosing \/ (hangupReq /\ ~active)
        /\ UNCHANGED <<hangupReq, pipe, worker>>
     \/ /\ ~IsFinalClosing /\ (hangupReq => active)
        /\ pipe' = "gate"
        /\ UNCHANGED <<hangupReq, worker>>
     \/ /\ ~IsFinalClosing /\ (hangupReq => active)
        /\ CancelActiveTTS
        /\ hangupReq' = TRUE
        /\ pipe' = "bye"
  /\ UNCHANGED <<pending, active, finalReq, mdWait, mdClosing, timers, ttsQ, stt,
                 limit, open, history>>

\* After the cooldown and the turn lock: the second look at the hang-up flag,
\* and the reply that a call at its limit was waiting for.
EnterTurn ==
  /\ open /\ pipe = "gate"
  /\ IF hangupReq /\ (~active \/ IsFinalClosing)
     THEN pipe' = "idle" /\ UNCHANGED flags
     ELSE IF mdWait
          THEN pipe' = "bye" /\ RequestMaxDurationClose
          ELSE pipe' = "turn" /\ UNCHANGED flags
  /\ UNCHANGED <<timers, queues, stt, worker, limit, open, history>>

\* The model's first sentence: dropped once a final close is requested,
\* otherwise it ends the barge-in and is queued.
StreamSentence ==
  /\ open /\ pipe = "turn" /\ ~IsFinalClosing
  /\ active' = FALSE
  /\ pipe' = "sentence"
  /\ UNCHANGED <<pending, hangupReq, finalReq, mdWait, mdClosing, timers, queues,
                 stt, worker, limit, open, history>>

QueueSentence ==
  /\ open /\ pipe = "sentence"
  /\ Send(Line)
  /\ pipe' = "spoke"
  /\ UNCHANGED <<flags, timers, transcripts, stt, worker, limit, open, history>>

\* The structured complete_call action: closing is requested first.
CompleteCall ==
  /\ open /\ pipe \in {"turn", "spoke"} /\ ~IsFinalClosing
  /\ RequestFinalClose
  /\ pipe' = "bye"
  /\ UNCHANGED <<timers, queues, stt, worker, limit, open, history>>

\* A plain farewell held back until the stream ended: spoken first, then
\* closing is requested.  Nothing looks at IsFinalClosing in between.
Farewell ==
  /\ open /\ pipe \in {"turn", "spoke"}
  /\ Send(Bye)
  /\ active' = (active /\ pipe # "turn")
  /\ pipe' = "inferred"
  /\ UNCHANGED <<pending, hangupReq, finalReq, mdWait, mdClosing, timers,
                 transcripts, stt, worker, limit, open, history>>

InferClose ==
  /\ open /\ pipe = "inferred"
  /\ RequestFinalClose
  /\ pipe' = "end"
  /\ UNCHANGED <<timers, queues, stt, worker, limit, open, history>>

EndReply ==
  /\ open /\ pipe \in {"turn", "spoke"}
  /\ pipe' = "idle"
  /\ UNCHANGED <<flags, timers, queues, stt, worker, limit, open, history>>

QueueBye ==
  /\ open /\ pipe = "bye"
  /\ Send(Bye)
  /\ pipe' = "end"
  /\ UNCHANGED <<flags, timers, transcripts, stt, worker, limit, open, history>>

\* Mutant: the sentinel is given up when the channel is full.
QueueEndOrDrop ==
  /\ open /\ pipe = "end"
  /\ SendOrDrop(End)
  /\ pipe' = "idle"
  /\ UNCHANGED <<flags, timers, transcripts, stt, worker, limit, open, history>>
QueueEnd ==
  /\ open /\ pipe = "end"
  /\ Send(End)
  /\ pipe' = "idle"
  /\ UNCHANGED <<flags, timers, transcripts, stt, worker, limit, open, history>>

-----------------------------------------------------------------------------
(* runTTSWorker. *)

TakeSentence ==
  /\ open /\ worker = "idle" /\ ttsQ # <<>>
  /\ worker' = IF Head(ttsQ) = End THEN "draining" ELSE Head(ttsQ)
  /\ ttsQ' = Tail(ttsQ)
  /\ UNCHANGED <<flags, timers, transcripts, stt, pipe, limit, open, history>>

FinishSentence ==
  /\ open /\ worker \in Speaking
  /\ worker' = "idle"
  /\ UNCHANGED <<flags, timers, queues, stt, pipe, limit, open, history>>

\* Playback has drained: the carrier is told and the socket closed.
HangUp ==
  /\ open /\ worker = "draining"
  /\ Close

\* The hang-up was taken back while playback drained: the worker returns.
AbortHangUp ==
  /\ open /\ worker = "draining" /\ ~hangupReq /\ ~IsFinalClosing
  /\ worker' = "gone"
  /\ UNCHANGED <<flags, timers, queues, stt, pipe, limit, open, history>>

-----------------------------------------------------------------------------
(* The maximum call duration. *)

\* The hard limit: a call already being hung up is left alone, and its timer
\* does not come back.
HardLimit ==
  /\ open /\ limit = "armed"
  /\ IF hangupReq
     THEN limit' = "none" /\ UNCHANGED mdWait
     ELSE limit' = "waiting" /\ mdWait' = TRUE
  /\ UNCHANGED <<pending, active, hangupReq, finalReq, mdClosing, timers, queues,
                 stt, pipe, worker, open, history>>

\* forceMaxDurationCloseIfNoReply: nobody took the wait flag in 25 s.
NoReply ==
  /\ open /\ limit = "waiting"
  /\ IF hangupReq \/ mdClosing \/ ~mdWait
     THEN limit' = "none" /\ UNCHANGED flags
     ELSE limit' = "bye" /\ RequestMaxDurationClose
  /\ UNCHANGED <<timers, queues, stt, pipe, worker, open, history>>

\* The closing line and the sentinel, each dropped when the channel is full.
LimitBye ==
  /\ open /\ limit \in {"bye", "end"}
  /\ IF limit = "bye" THEN SendOrDrop(Bye) /\ limit' = "end"
                      ELSE SendOrDrop(End) /\ limit' = "force"
  /\ UNCHANGED <<flags, timers, transcripts, stt, pipe, worker, open, history>>

\* forceMaxDurationHangup closes the socket whatever became of the sentinel.
\* Mutant: it leaves a call alone whose pending reply was never taken.
ForceUnlessQueued ==
  /\ open /\ limit = "force" /\ mdClosing /\ Queued(End)
  /\ Close
ForceHangUp ==
  /\ open /\ limit = "force" /\ mdClosing
  /\ Close

-----------------------------------------------------------------------------
\* The customer or the carrier ends the call, or a webhook forces it closed.
CallEnds == open /\ Close

Stt == Interrupt \/ ClearHangup \/ SendTranscript
Pipe ==
  \/ TakeTranscript \/ EnterTurn \/ QueueSentence \/ InferClose
  \/ QueueBye \/ QueueEnd
Reply == StreamSentence \/ CompleteCall \/ Farewell \/ EndReply
Worker == TakeSentence \/ FinishSentence \/ HangUp \/ AbortHangUp
Limit == HardLimit \/ NoReply \/ LimitBye \/ ForceHangUp
Customer == SpeechStarts \/ HearNoise \/ HearPartial \/ HearFinal \/ CallEnds

CallNext == DeadlinePasses \/ ClearPasses \/ Customer \/ Stt \/ Pipe \/ Reply \/ Worker \/ Limit

\* Goroutines are scheduled and timers fire; the customer owes nothing.
Fairness ==
  /\ WF_callVars(DeadlinePasses) /\ WF_callVars(ClearPasses)
  /\ WF_callVars(Stt) /\ WF_callVars(Pipe) /\ WF_callVars(Reply)
  /\ WF_callVars(Worker) /\ WF_callVars(Limit)

CallSpec == CallInit /\ [][CallNext]_callVars
FairCallSpec == CallSpec /\ Fairness

-----------------------------------------------------------------------------
(* Who will still end a call whose hang-up was requested. *)
Closer ==
  \/ worker = "draining"
  \/ worker # "gone" /\ (Queued(End) \/ pipe \in {"bye", "inferred", "end"})
  \/ limit \in {"bye", "end", "force"}

\* A call whose hang-up or final close was requested has somebody who will end
\* it, unless an interruption discarded the sentinel and did not take the
\* request back: a recovered one never does, and one that had looked at
\* IsFinalClosing before the close was requested no longer can.  The last case
\* is against pipeline.go:311-313, "a max-duration close is final and cannot be
\* cancelled by late speech".  A worker that returned when a
\* hang-up was taken back (pipeline.go:347-351) is the other exception.
StrandedOnlyByInterruption ==
  open /\ (hangupReq \/ IsFinalClosing) /\ ~Closer /\ stt.at # "unhang"
    => lost \/ (worker = "gone" /\ tookBack)

\* Whenever a barge-in silences the agent or waits for its transcript, a
\* goroutine is still asleep that will lift it: outbound audio is never
\* discarded for good.  session.go:493-497 and 590-601.
BargeInExpires ==
  /\ active => clears > 0
  /\ pending => deadlines > 0

\* A call with a maximum duration ends, unless an interruption took a requested
\* hang-up back or discarded its sentinel: the timer of handler.go:1837 returns
\* when it finds a hang-up requested, and nothing starts it again.
LimitedCallEnds == (limit = "armed") ~> (~open \/ lost \/ tookBack)
=============================================================================
