---------------------------- MODULE LiveWatchdogs ----------------------------
(***************************************************************************)
(* The two watchdogs of a native-audio call and the callbacks that drive   *)
(* them.  The response watchdog asks the model again when a customer's     *)
(* turn gets no reply; the inactivity watchdog reminds a silent customer   *)
(* and then closes the call.  Both compare a generation under their lock,  *)
(* unlock, and only then call back: a callback past that point is not      *)
(* recalled.  Time is left out: an armed timer may fire at any moment.     *)
(***************************************************************************)
EXTENDS Naturals

CONSTANT MaxPrompts   \* reminders before the goodbye (3 in the code)

ASSUME MaxPromptsAssumption == MaxPrompts \in Nat

VARIABLES
  resp,     \* liveResponseWatchdog: its timer, and a callback past the check
  timer,    \* liveInactivityWatchdog: its timer is set
  reminding,\* ... active: the reminder sequence has begun
  prompts,  \* ... promptCount
  goodbye,  \* onGoodbye: "fired" past the check, "close" past IsFinalClosing
  closing,  \* IsFinalClosing
  spoken,   \* the model's turn has output
  redirect, \* languageRedirectActive: "await" the interruption, or "cut" by it
  asked,    \* history: what became of the customer's last utterance
  silent,   \* history: reminders since the customer last spoke
  late      \* history: the customer spoke while the goodbye was being issued

inact == <<timer, reminding, prompts, goodbye>>
history == <<asked, silent, late>>
vars == <<resp, inact, closing, spoken, redirect, history>>

TypeOK ==
  /\ resp \in [armed : BOOLEAN, firing : {"no", "yes", "stale"}]
  /\ timer \in BOOLEAN /\ reminding \in BOOLEAN /\ prompts \in 0..MaxPrompts
  /\ goodbye \in {"no", "fired", "close"}
  /\ closing \in BOOLEAN /\ spoken \in BOOLEAN
  /\ redirect \in {"no", "await", "cut", "on"}
  /\ asked \in {"no", "yes", "redirected", "interrupted"}
  /\ silent \in 0..MaxPrompts
  /\ late \in BOOLEAN

Init ==
  /\ resp = [armed |-> FALSE, firing |-> "no"]
  /\ timer = FALSE /\ reminding = FALSE /\ prompts = 0 /\ goodbye = "no"
  /\ closing = FALSE /\ spoken = FALSE /\ redirect = "no"
  /\ asked = "no" /\ silent = 0 /\ late = FALSE

-----------------------------------------------------------------------------
(* The methods of the watchdogs. *)

\* Arm and Cancel move the generation on: a callback past the check stays.
Passed == IF resp.firing = "yes" THEN "stale" ELSE resp.firing
\* Mutant: a watchdog whose callback is running is not set again.
ArmUnlessFiring == resp' = [armed |-> resp.firing = "no", firing |-> Passed]
ArmResponse == resp' = [armed |-> TRUE, firing |-> Passed]
CancelResponse == resp' = [armed |-> FALSE, firing |-> Passed]

\* Mutant: the reminder sequence begins anew after every turn of the agent.
ArmAlways == timer' = TRUE /\ prompts' = 0 /\ reminding' = FALSE
\* Once the reminders have begun, only the customer's speech resets them.
ArmInactivity ==
  IF reminding THEN UNCHANGED <<timer, reminding, prompts>>
  ELSE timer' = TRUE /\ prompts' = 0 /\ UNCHANGED reminding

\* Mutant: the reminder sequence is not ended by speech.
SpokeUnheard == silent' = 0 /\ late' = (late \/ goodbye # "no") /\ UNCHANGED inact
CustomerSpoke ==
  /\ timer' = FALSE /\ reminding' = FALSE /\ prompts' = 0
  /\ silent' = 0 /\ late' = (late \/ goodbye # "no")
  /\ UNCHANGED goodbye

-----------------------------------------------------------------------------
(* The model's events. *)

\* OnAudio or OnOutputTranscript; a new turn's audio ends the wait of a redirect.
Output ==
  /\ CancelResponse
  /\ asked' = "no"
  /\ spoken' = TRUE
  /\ redirect' \in {redirect} \cup (IF redirect = "await" THEN {"on"} ELSE {})
  /\ UNCHANGED <<inact, closing, silent, late>>

OnInterimInputTranscript ==
  /\ CustomerSpoke
  /\ UNCHANGED <<resp, closing, spoken, redirect, asked>>

\* A final transcript: watched, or answered by a queued language redirect.
OnInputTranscript ==
  /\ CustomerSpoke
  /\ \/ ArmResponse /\ asked' = "yes" /\ redirect' \in {redirect, "no"}
     \/ /\ ~closing
        /\ CancelResponse /\ asked' = "redirected" /\ redirect' = "await"
  /\ UNCHANGED <<closing, spoken>>

OnInterrupted ==
  /\ CancelResponse
  /\ asked' = IF asked = "yes" THEN "interrupted" ELSE asked
  /\ redirect' = IF redirect = "await" THEN "cut" ELSE redirect
  /\ spoken' \in {spoken, FALSE}
  /\ UNCHANGED <<inact, closing, silent, late>>

\* switch_language, accepted.
OnLanguageSwitch ==
  /\ CancelResponse
  /\ asked' = IF asked = "yes" THEN "redirected" ELSE asked
  /\ UNCHANGED <<inact, closing, spoken, redirect, silent, late>>

OnCompleteCall ==
  /\ closing' = TRUE
  /\ UNCHANGED <<resp, inact, spoken, redirect, history>>

\* A valid turn starts the silence; a turn discarded for a redirect is not a
\* reply, and its replacement is watched.
OnTurnComplete ==
  /\ spoken' = FALSE
  /\ \/ /\ spoken /\ redirect # "await"
        /\ redirect' = "no"
        /\ IF closing THEN UNCHANGED <<timer, reminding, prompts>> ELSE ArmInactivity
        /\ UNCHANGED goodbye
        /\ UNCHANGED <<resp, asked>>
     \/ /\ redirect = "await" \/ (~spoken /\ redirect = "cut")
        /\ redirect' = "on"
        /\ IF closing THEN UNCHANGED <<resp, asked>>
           ELSE ArmResponse /\ asked' = "yes"
        /\ UNCHANGED inact
     \/ /\ ~spoken /\ redirect \in {"no", "on"}
        /\ UNCHANGED <<resp, inact, redirect, asked>>
  /\ UNCHANGED <<closing, silent, late>>

Event ==
  \/ Output \/ OnInterimInputTranscript \/ OnInputTranscript \/ OnInterrupted
  \/ OnLanguageSwitch \/ OnCompleteCall \/ OnTurnComplete

-----------------------------------------------------------------------------
(* The timers. *)

ResponseFires ==
  /\ resp.armed /\ resp.firing = "no"
  /\ resp' = [armed |-> FALSE, firing |-> "yes"]
  /\ UNCHANGED <<inact, closing, spoken, redirect, history>>

\* The model is asked again, unless the call is closing.
Recover ==
  /\ resp.firing # "no"
  /\ resp' = [resp EXCEPT !.firing = "no"]
  /\ asked' = IF resp.firing = "yes" THEN "no" ELSE asked
  /\ UNCHANGED <<inact, closing, spoken, redirect, silent, late>>

\* A reminder is requested, and the next deadline set whether or not it could be.
Remind ==
  /\ timer /\ prompts < MaxPrompts
  /\ reminding' = TRUE /\ prompts' = prompts + 1
  /\ silent' = IF silent < MaxPrompts THEN silent + 1 ELSE silent
  /\ UNCHANGED <<resp, timer, goodbye, closing, spoken, redirect, asked, late>>

GoodbyeFires ==
  /\ timer /\ prompts = MaxPrompts /\ goodbye = "no"
  /\ timer' = FALSE /\ reminding' = FALSE
  /\ goodbye' = "fired"
  /\ UNCHANGED <<resp, prompts, closing, spoken, redirect, history>>

CheckGoodbye ==
  /\ goodbye = "fired"
  /\ goodbye' = IF closing THEN "no" ELSE "close"
  /\ UNCHANGED <<resp, timer, reminding, prompts, closing, spoken, redirect, history>>

Goodbye ==
  /\ goodbye = "close"
  /\ goodbye' = "no" /\ late' = FALSE
  /\ CancelResponse /\ asked' = "no"
  /\ closing' = TRUE
  /\ UNCHANGED <<timer, reminding, prompts, spoken, redirect, silent>>

Timer == ResponseFires \/ Remind \/ GoodbyeFires
Callback == Recover \/ CheckGoodbye \/ Goodbye

Next == Event \/ Timer \/ Callback

Spec == Init /\ [][Next]_vars

\* A timer that stays set fires, and its callback runs.
FairSpec ==
  /\ Spec
  /\ WF_vars(ResponseFires) /\ WF_vars(Recover)
  /\ WF_vars(Remind) /\ WF_vars(GoodbyeFires) /\ WF_vars(CheckGoodbye \/ Goodbye)

-----------------------------------------------------------------------------
\* "Any model output cancels the timer, so normal Live turns are never
\* duplicated" (live_response_watchdog.go:12-13): a recovery is waited for or due
\* exactly as long as the last utterance has had no reply, but for callbacks that
\* were past their check.  An interruption or a language switch counts as one,
\* for those cancel the watchdog (handler.go:671, 709, 763).
SilenceIsWatched == (resp.armed \/ resp.firing = "yes") <=> asked = "yes"

\* The call is closed for silence only after MaxPrompts reminders since the
\* customer last spoke, unless they spoke while the goodbye was being issued.
GoodbyeNeedsSilence ==
  [][Goodbye => silent = MaxPrompts \/ late]_vars

\* A customer who stays silent after a turn of the agent is reminded and in the
\* end hung up on, whatever the model says meanwhile.
SilenceEnds == timer ~> (closing \/ (silent = 0 /\ ~timer))
=============================================================================
