----------------------------- MODULE LiveSession -----------------------------
(***************************************************************************)
(* One AI call on the native-audio path (Gemini Live): what is played to   *)
(* the customer and how the call is closed.  The model's events arrive one *)
(* at a time at the callbacks of handler.go; beside them run               *)
(*                                                                         *)
(*   pump     sends the queued audio to the carrier                        *)
(*   worker   runTTSWorker, which here only hangs up                       *)
(*   goodbye  the end of the silent-customer watchdog (LiveWatchdogs says  *)
(*            when; here it may come at any time)                          *)
(*   vad      the media loop, which interrupts on the customer's energy    *)
(*   limit    the maximum call duration                                    *)
(*                                                                         *)
(* The model owes nothing: it may speak, call a tool or stay silent.  A    *)
(* packet of an older playback epoch is skipped by the pump, so it leaves  *)
(* the queue when the epoch moves on.                                      *)
(***************************************************************************)
EXTENDS Naturals, Sequences

CONSTANTS
  OutCap,      \* room in audioOut (256 packets in the code)
  EndCap,      \* room in TTSSentences (64 in the code)
  TimerCap     \* bound: barge-in goroutines asleep at once

ASSUME CapsAssumption ==
  /\ OutCap \in Nat \ {0}
  /\ EndCap \in Nat \ {0}
  /\ TimerCap \in Nat \ {0}

VARIABLES
  plivo,      \* the carrier is Plivo, whose hang-up queues behind the audio
  closing,    \* why a final close was requested, "no" while it was not
  hangupReq,  \* hangupReq, which an interruption may clear
  finalAudio, \* finalCloseAudio: audio came after the request
  active,     \* bargeInActive
  clears,     \* goroutines of interruptActiveTTS still asleep (3 s)
  recv,       \* where the callback of the current event stands
  turn,       \* the output turn: newOutputTurn, outputApproved, audioReleased, and
              \* whether outputText and pendingAudio hold something
  redirect,   \* languageRedirectActive and languageRedirectAwaitingInterrupt
  audioOut,   \* the packets queued for the carrier
  pump,       \* the packet in hand
  ends,       \* sentinels in TTSSentences
  worker, goodbye, vad, limit,
  open,       \* the call's context
  due,        \* history: the hang-up has been issued
  cut         \* history: playback was discarded during a final close

close == <<closing, hangupReq, finalAudio>>
barge == <<active, clears>>
output == <<turn, redirect>>
out == <<audioOut, pump, ends>>
actors == <<worker, goodbye, vad, limit>>
history == <<due, cut>>
liveVars == <<plivo, close, barge, recv, output, out, actors, open, history>>

NoTurn == [new |-> TRUE, approved |-> FALSE, released |-> FALSE,
           text |-> FALSE, held |-> FALSE]
NoRedirect == [on |-> FALSE, await |-> FALSE]
Packet == {"audio", "close"}

LiveTypeOK ==
  /\ plivo \in BOOLEAN
  /\ closing \in {"no", "model", "inactivity", "limit", "failed"}
  /\ hangupReq \in BOOLEAN /\ finalAudio \in BOOLEAN
  /\ active \in BOOLEAN /\ clears \in 0..TimerCap
  /\ recv \in {"idle", "interrupt", "unhang", "redirect", "valid", "failed", "gone"}
  /\ turn \in [new : BOOLEAN, approved : BOOLEAN, released : BOOLEAN,
               text : BOOLEAN, held : BOOLEAN]
  /\ redirect \in [on : BOOLEAN, await : BOOLEAN]
  /\ audioOut \in Seq(Packet) /\ Len(audioOut) <= OutCap
  /\ pump \in Packet \cup {"idle"}
  /\ ends \in 0..EndCap
  /\ worker \in {"idle", "draining", "gone"}
  /\ goodbye \in {"no", "close", "end"}
  /\ vad \in {"idle", "trigger"}
  /\ limit \in {"none", "armed", "due", "force"}
  /\ open \in BOOLEAN
  /\ due \in BOOLEAN /\ cut \in BOOLEAN

LiveInit ==
  /\ plivo \in BOOLEAN
  /\ closing = "no" /\ hangupReq = FALSE /\ finalAudio = FALSE /\ active = FALSE /\ clears = 0
  /\ recv = "idle" /\ turn = NoTurn /\ redirect = NoRedirect
  /\ audioOut = <<>> /\ pump = "idle" /\ ends = 0 /\ worker = "idle"
  /\ goodbye = "no" /\ vad = "idle" /\ limit \in {"none", "armed"}
  /\ open = TRUE
  /\ due = FALSE /\ cut = FALSE

-----------------------------------------------------------------------------
(* Operations of the session. *)

IsFinalClosing == closing # "no"
Because(c) ==
  /\ closing' = IF IsFinalClosing THEN closing ELSE c
  /\ hangupReq' = TRUE /\ finalAudio' = FALSE

\* Mutant: a barge-in under way goes on discarding audio.
CloseUnderBargeIn(c) == Because(c) /\ UNCHANGED <<barge, limit>>
\* It takes the duration limit's wait for a last reply back as well.
RequestFinalClose(c) ==
  /\ Because(c)
  /\ active' = FALSE /\ UNCHANGED clears
  /\ limit' = IF limit = "due" THEN "none" ELSE limit

\* DiscardLivePlayback: the epoch moves on, and the sentinels are drained.
Discard ==
  /\ audioOut' = <<>> /\ pump' = "idle" /\ ends' = 0
  /\ cut' = (cut \/ IsFinalClosing)
  /\ UNCHANGED due

\* interruptActiveTTS does the same under a barge-in that lasts 3 s at most.
InterruptActiveTTS ==
  /\ clears < TimerCap /\ clears' = clears + 1
  /\ active' = TRUE
  /\ Discard

\* Blocking sends of the sentinel and of audio packets.
\* Mutant: the channel has no bound.
SendAnyway == ends' = ends + 1
SendEnd == ends < EndCap /\ ends' = ends + 1
Queue(packets) ==
  /\ Len(audioOut) + Len(packets) <= OutCap
  /\ audioOut' = audioOut \o packets

\* The socket closes; what is left are goroutines that sleep.
Close ==
  /\ open' = FALSE
  /\ recv' = "gone" /\ turn' = NoTurn /\ redirect' = NoRedirect
  /\ audioOut' = <<>> /\ pump' = "idle" /\ ends' = 0 /\ worker' = "gone"
  /\ goodbye' = "no" /\ vad' = "idle" /\ limit' = "none"
  /\ UNCHANGED <<plivo, close, barge, history>>

-----------------------------------------------------------------------------
(* Events of the model, handled one after the other. *)

Idle == open /\ recv = "idle"

\* liveOutputCanPlay: outputRejected is reset by the callback that sets it.
CanPlay(r) == ~(r.on /\ r.await)

\* OnAudio.  The first audio of a turn ends a barge-in and the wait for the
\* interruption of the turn before a language switch.
OnAudio ==
  /\ Idle
  /\ finalAudio' = (finalAudio \/ IsFinalClosing)
  /\ active' = (active /\ ~turn.new)
  /\ LET r == IF turn.new THEN [redirect EXCEPT !.await = FALSE] ELSE redirect
         t == [turn EXCEPT !.new = FALSE]
     IN /\ redirect' = r
        /\ \/ /\ turn.approved \/ CanPlay(r)
              /\ Queue(<<"audio">>)
              /\ turn' = [t EXCEPT !.approved = TRUE, !.released = TRUE, !.held = FALSE]
           \/ /\ ~turn.approved /\ ~CanPlay(r)
              /\ turn' = [t EXCEPT !.held = TRUE]
              /\ UNCHANGED audioOut
  /\ UNCHANGED <<plivo, closing, hangupReq, clears, recv, pump, ends, actors, open, history>>

\* OnOutputTranscript may release the audio held so far.
OnOutputTranscript ==
  /\ Idle
  /\ turn' = [turn EXCEPT !.text = TRUE,
                          !.approved = @ \/ CanPlay(redirect),
                          !.released = @ \/ (turn.held /\ CanPlay(redirect)),
                          !.held = @ /\ ~CanPlay(redirect)]
  /\ IF turn.held /\ CanPlay(redirect) THEN Queue(<<"audio">>) ELSE UNCHANGED audioOut
  /\ UNCHANGED <<plivo, close, barge, recv, redirect, pump, ends, actors, open, history>>

\* A confirmed language switch: the model is asked to reply again, and what is
\* queued of the present reply is discarded next, unless it cannot be asked.
OnLanguageChange ==
  /\ Idle /\ ~IsFinalClosing
  /\ \/ redirect' = [on |-> TRUE, await |-> TRUE] /\ recv' = "redirect"
     \/ redirect' = NoRedirect /\ UNCHANGED recv
  /\ UNCHANGED <<plivo, close, barge, turn, out, actors, open, history>>

DiscardOldReply ==
  /\ open /\ recv = "redirect"
  /\ Discard
  /\ recv' = "idle"
  /\ UNCHANGED <<plivo, close, barge, output, actors, open>>

\* OnInterrupted: the interruption a redirect waits for, or the customer's,
\* which is ignored in a final close and while a barge-in lasts.
OnInterrupted ==
  /\ Idle
  /\ turn' = [NoTurn EXCEPT !.text = turn.text]
  /\ IF ~CanPlay(redirect)
     THEN /\ redirect' = [redirect EXCEPT !.await = FALSE]
          /\ Discard
          /\ UNCHANGED <<recv, active>>
     ELSE /\ recv' = IF IsFinalClosing \/ active THEN "idle" ELSE "interrupt"
          /\ active' = (active /\ ~IsFinalClosing)
          /\ UNCHANGED <<redirect, out, history>>
  /\ UNCHANGED <<plivo, close, clears, actors, open>>

ConfirmLiveInterruption ==
  /\ open /\ recv = "interrupt"
  /\ InterruptActiveTTS
  /\ recv' = "unhang"
  /\ UNCHANGED <<plivo, close, output, actors, open>>

ClearHangup ==
  /\ open /\ recv = "unhang"
  /\ hangupReq' = FALSE
  /\ recv' = "idle"
  /\ UNCHANGED <<plivo, closing, finalAudio, barge, output, out, actors, open, history>>

\* complete_call, accepted.
OnCompleteCall ==
  /\ Idle
  /\ RequestFinalClose("model")
  /\ UNCHANGED <<plivo, recv, output, out, worker, goodbye, vad, open, history>>

\* switch_language, accepted: nothing asks whether the call is closing.
OnLanguageSwitch ==
  /\ Idle
  /\ Discard
  /\ UNCHANGED <<plivo, close, barge, recv, output, actors, open>>

\* The first part of OnTurnComplete: the output is released or, while the old
\* turn of a language switch is awaited, rejected.  On Plivo the packet that
\* ends the turn carries the hang-up.
OnTurnComplete ==
  /\ Idle
  /\ LET had == turn.text \/ turn.held \/ turn.released
         hangup == plivo /\ IsFinalClosing /\ finalAudio
     IN \/ /\ had /\ CanPlay(redirect)
           /\ recv' = "valid" /\ redirect' = NoRedirect
           /\ Queue((IF turn.held THEN <<"audio">> ELSE <<>>)
                      \o (IF hangup THEN <<"close">> ELSE <<>>))
           /\ due' = (due \/ hangup)
           /\ UNCHANGED <<pump, ends, cut>>
        \/ /\ ~had \/ ~CanPlay(redirect)
           /\ redirect' = [redirect EXCEPT !.await = FALSE]
           /\ IF turn.released /\ ~CanPlay(redirect) THEN Discard ELSE UNCHANGED <<out, history>>
           /\ UNCHANGED recv
  /\ turn' = NoTurn
  /\ UNCHANGED <<plivo, close, barge, actors, open>>

\* The second part: the sentinel of a final close, elsewhere than on Plivo.
CloseAfterTurn ==
  /\ open /\ recv = "valid"
  /\ IF ~plivo /\ IsFinalClosing /\ finalAudio
     THEN SendEnd /\ due' = TRUE
     ELSE UNCHANGED <<ends, due>>
  /\ recv' = "idle"
  /\ UNCHANGED <<plivo, close, barge, output, audioOut, pump, actors, open, cut>>

\* client.Run fails: the call is ended, and then the pump stops.
LiveFails ==
  /\ Idle
  /\ RequestFinalClose("failed")
  /\ recv' = "failed"
  /\ UNCHANGED <<plivo, output, out, worker, goodbye, vad, open, history>>

\* Mutant: the sentinel is left to the end of a turn.
EndFailedSilently ==
  /\ open /\ recv = "failed"
  /\ audioOut' = <<>> /\ pump' = "idle"
  /\ recv' = "gone"
  /\ UNCHANGED <<plivo, close, barge, output, ends, actors, open, history>>
EndFailed ==
  /\ open /\ recv = "failed"
  /\ SendEnd /\ due' = TRUE
  /\ audioOut' = <<>> /\ pump' = "idle"
  /\ recv' = "gone"
  /\ UNCHANGED <<plivo, close, barge, output, actors, open, cut>>

Event ==
  \/ OnAudio \/ OnOutputTranscript \/ OnLanguageChange \/ OnInterrupted
  \/ OnCompleteCall \/ OnLanguageSwitch \/ OnTurnComplete \/ LiveFails
Callback == DiscardOldReply \/ ConfirmLiveInterruption \/ ClearHangup \/ CloseAfterTurn \/ EndFailed

-----------------------------------------------------------------------------
(* The audio pump and the worker that hangs up. *)

TakePacket ==
  /\ open /\ pump = "idle" /\ audioOut # <<>>
  /\ audioOut' = Tail(audioOut)
  /\ pump' = IF active THEN "idle" ELSE Head(audioOut)
  /\ UNCHANGED <<plivo, close, barge, recv, output, ends, actors, open, history>>

\* The packet has been sent, paced; the hang-up behind it is passed on.
PacketSent ==
  /\ open /\ pump # "idle"
  /\ IF pump = "close" THEN SendEnd ELSE UNCHANGED ends
  /\ pump' = "idle"
  /\ UNCHANGED <<plivo, close, barge, recv, output, audioOut, actors, open, history>>

TakeEnd ==
  /\ open /\ worker = "idle" /\ ends > 0
  /\ ends' = ends - 1
  /\ worker' = "draining"
  /\ UNCHANGED <<plivo, close, barge, recv, output, audioOut, pump, goodbye, vad, limit,
                 open, history>>

HangUp == open /\ worker = "draining" /\ Close

Pump == TakePacket \/ PacketSent
Worker == TakeEnd \/ HangUp

-----------------------------------------------------------------------------
(* The goodbye to a silent customer, the media loop and the duration limit. *)

CheckGoodbye ==
  /\ open /\ goodbye = "no" /\ ~IsFinalClosing /\ recv # "gone"
  /\ goodbye' = "close"
  /\ UNCHANGED <<plivo, close, barge, recv, output, out, worker, vad, limit, open, history>>

\* The goodbye is requested of the model, or the call ended without one.
Goodbye ==
  /\ open /\ goodbye = "close"
  /\ \/ recv # "gone" /\ RequestFinalClose("inactivity") /\ goodbye' = "no"
     \/ RequestFinalClose("failed") /\ goodbye' = "end"
  /\ UNCHANGED <<plivo, recv, output, out, worker, vad, open, history>>

EndSilent ==
  /\ open /\ goodbye = "end"
  /\ SendEnd /\ due' = TRUE
  /\ goodbye' = "no"
  /\ UNCHANGED <<plivo, close, barge, recv, output, audioOut, pump, worker, vad, limit,
                 open, cut>>

\* TryBargeIn looks at the flags, then TriggerBargeIn interrupts.
HearSpeech ==
  /\ open /\ vad = "idle" /\ ~IsFinalClosing /\ ~active
  /\ vad' = "trigger"
  /\ UNCHANGED <<plivo, close, barge, recv, output, out, worker, goodbye, limit, open,
                 history>>

TriggerBargeIn ==
  /\ open /\ vad = "trigger"
  /\ InterruptActiveTTS
  /\ vad' = "idle"
  /\ UNCHANGED <<plivo, close, recv, output, worker, goodbye, limit, open>>

ClearPasses ==
  /\ open /\ clears > 0
  /\ clears' = clears - 1 /\ active' = FALSE
  /\ UNCHANGED <<plivo, close, recv, output, out, actors, open, history>>

\* The limit leaves a call alone whose hang-up is requested.
LimitFires ==
  /\ open /\ limit = "armed"
  /\ limit' = IF hangupReq THEN "none" ELSE "due"
  /\ UNCHANGED <<plivo, close, barge, recv, output, out, worker, goodbye, vad, open, history>>

\* The closing line is requested, and a backstop started whether or not the
\* model could be asked.
LimitCloses ==
  /\ open /\ limit = "due"
  /\ Because("limit")
  /\ limit' = "force"
  /\ UNCHANGED <<plivo, barge, recv, output, out, worker, goodbye, vad, open, history>>

ForceHangUp == open /\ limit = "force" /\ Close

\* The customer or the carrier ends the call, or a webhook forces it closed.
CallEnds == open /\ Close

Media == HearSpeech \/ TriggerBargeIn \/ ClearPasses
Silence == CheckGoodbye \/ Goodbye \/ EndSilent
Limit == LimitFires \/ LimitCloses \/ ForceHangUp

LiveNext == Event \/ Callback \/ Pump \/ Worker \/ Silence \/ Media \/ Limit \/ CallEnds

LiveSpec == LiveInit /\ [][LiveNext]_liveVars

\* Goroutines run and timers fire.  Nothing is assumed of the model, the
\* customer or the carrier.
FairLiveSpec ==
  /\ LiveSpec
  /\ WF_liveVars(Callback) /\ WF_liveVars(Pump) /\ WF_liveVars(Worker)
  /\ WF_liveVars(TriggerBargeIn) /\ WF_liveVars(ClearPasses) /\ WF_liveVars(Limit)

-----------------------------------------------------------------------------
(* Who will still end a call whose hang-up was issued. *)
Has(packet) == \E i \in DOMAIN audioOut : audioOut[i] = packet
Closer ==
  \/ worker = "draining" \/ ends > 0
  \/ Has("close") \/ pump = "close"
  \/ limit = "force"

\* A hang-up that was issued, as a sentinel or as the packet behind the last
\* audio, stays with somebody, and the goodbye of the model or to a silent
\* customer is not thrown away by a barge-in that RequestFinalClose lifts
\* (session.go: "ignored during final close").  The exception is playback
\* discarded during the final close: by an interruption or a redirect that had
\* looked at the flags before, by the interruption a redirect waits for, or by a
\* switch_language call.
HangUpNotLost ==
  open /\ ~cut =>
    /\ due => Closer
    /\ closing \in {"model", "inactivity", "failed"} => ~active

\* A call with a maximum duration ends, unless another close was requested
\* first: that one the limit leaves to itself (handler.go:1843).  And "end the
\* failed call" (handler.go:891): a call whose live session failed ends, unless
\* its sentinel is discarded by an interruption.
DoomedCallEnds ==
  /\ (limit = "armed") ~> (~open \/ closing \notin {"no", "limit"})
  /\ (recv = "failed") ~> (~open \/ cut)
=============================================================================
