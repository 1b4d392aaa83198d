------------------------- MODULE LiveWatchdogsProofs -------------------------
(***************************************************************************)
(* Proofs about the two watchdogs of LiveWatchdogs for any number of       *)
(* reminders: one inductive invariant gives the type invariant and both    *)
(* safety properties.  Its parts are about disjoint variables, so each is  *)
(* preserved by a lemma of its own.                                        *)
(***************************************************************************)
EXTENDS LiveWatchdogs, TLAPS

\* The sequence cannot have asked for more reminders than the customer heard
\* since speaking last.
Counted ==
  /\ prompts \in 0..MaxPrompts /\ silent \in 0..MaxPrompts
  /\ prompts <= silent

\* A goodbye on its way was due, unless the customer has spoken since.
GoodbyeWasDue == goodbye # "no" => silent = MaxPrompts \/ late

\* The response watchdog; one timer or one callback is responsible for an
\* utterance, never both.
Watched ==
  /\ resp \in [armed : BOOLEAN, firing : {"no", "yes", "stale"}]
  /\ asked \in {"no", "yes", "redirected", "interrupted"}
  /\ ~(resp.armed /\ resp.firing = "yes")
  /\ SilenceIsWatched

Flags ==
  /\ timer \in BOOLEAN /\ reminding \in BOOLEAN
  /\ goodbye \in {"no", "fired", "close"}
  /\ closing \in BOOLEAN /\ spoken \in BOOLEAN /\ late \in BOOLEAN
  /\ redirect \in {"no", "await", "cut", "on"}

IInv == Counted /\ GoodbyeWasDue /\ Watched /\ Flags

-----------------------------------------------------------------------------
\* Reminders are counted together, and speech resets both counters.
LEMMA CountsKept == Counted /\ [Next]_vars => Counted'
<1> SUFFICES ASSUME Counted, [Next]_vars PROVE Counted'
  OBVIOUS
<1> USE MaxPromptsAssumption DEF Counted
<1>1. CASE CustomerSpoke
  BY <1>1 DEF CustomerSpoke
<1>2. CASE prompts' \in {prompts, 0} /\ silent' = silent
  BY <1>2
<1>3. CASE Remind
  BY <1>3 DEF Remind
<1>4. CustomerSpoke \/ Remind \/ (prompts' \in {prompts, 0} /\ silent' = silent)
  BY DEF Next, Event, Timer, Callback, vars, inact, history, ArmInactivity, Output,
         OnInterimInputTranscript, OnInputTranscript, OnInterrupted, OnLanguageSwitch,
         OnCompleteCall, OnTurnComplete, ResponseFires, Recover, GoodbyeFires,
         CheckGoodbye, Goodbye
<1> QED
  BY <1>1, <1>2, <1>3, <1>4

\* A goodbye is fired after the last reminder; speech on the way makes it late.
LEMMA GoodbyeKept == Counted /\ GoodbyeWasDue /\ [Next]_vars => GoodbyeWasDue'
<1> SUFFICES ASSUME Counted, GoodbyeWasDue, [Next]_vars PROVE GoodbyeWasDue'
  OBVIOUS
<1> USE DEF GoodbyeWasDue
<1>1. CASE CustomerSpoke
  BY <1>1 DEF CustomerSpoke
<1>2. CASE Remind
  BY <1>2, MaxPromptsAssumption DEF Remind, Counted
<1>3. CASE GoodbyeFires
  <2>1. silent = MaxPrompts
    BY <1>3, MaxPromptsAssumption DEF GoodbyeFires, Counted
  <2> QED
    BY <1>3, <2>1 DEF GoodbyeFires, history
<1>4. CASE CheckGoodbye \/ Goodbye
  BY <1>4 DEF CheckGoodbye, Goodbye, history
<1>5. CASE UNCHANGED <<goodbye, silent, late>>
  BY <1>5
<1>6. \/ CustomerSpoke \/ Remind \/ GoodbyeFires \/ CheckGoodbye \/ Goodbye
      \/ UNCHANGED <<goodbye, silent, late>>
  BY DEF Next, Event, Timer, Callback, vars, inact, history, ArmInactivity, Output,
         OnInterimInputTranscript, OnInputTranscript, OnInterrupted, OnLanguageSwitch,
         OnCompleteCall, OnTurnComplete, ResponseFires, Recover
<1> QED
  BY <1>1, <1>2, <1>3, <1>4, <1>5, <1>6

\* Whatever arms or cancels the response watchdog decides about the utterance too.
LEMMA WatchKept == Watched /\ [Next]_vars => Watched'
<1> SUFFICES ASSUME Watched, [Next]_vars PROVE Watched'
  OBVIOUS
<1> USE DEF Watched, SilenceIsWatched, Passed
<1>1. CASE ArmResponse /\ asked' = "yes"
  BY <1>1 DEF ArmResponse
<1>2. CASE CancelResponse /\ asked' \in {"no", "redirected", "interrupted"}
  BY <1>2 DEF CancelResponse
<1>3. CASE ResponseFires
  BY <1>3 DEF ResponseFires, history
<1>4. CASE Recover
  BY <1>4 DEF Recover
<1>5. CASE UNCHANGED <<resp, asked>>
  BY <1>5
<1>6. ASSUME OnInterrupted \/ OnLanguageSwitch
      PROVE  CancelResponse /\ asked' \in {"no", "redirected", "interrupted"}
  BY <1>6 DEF OnInterrupted, OnLanguageSwitch
<1>7. \/ ArmResponse /\ asked' = "yes"
      \/ CancelResponse /\ asked' \in {"no", "redirected", "interrupted"}
      \/ OnInterrupted \/ OnLanguageSwitch \/ ResponseFires \/ Recover
      \/ UNCHANGED <<resp, asked>>
  BY DEF Next, Event, Timer, Callback, vars, history, Output, OnInterimInputTranscript,
         OnInputTranscript, OnCompleteCall, OnTurnComplete, Remind, GoodbyeFires,
         CheckGoodbye, Goodbye
<1> QED
  BY <1>1, <1>2, <1>3, <1>4, <1>5, <1>6, <1>7

\* The flags keep their types.
LEMMA FlagsKept == Flags /\ [Next]_vars => Flags'
<1> SUFFICES ASSUME Flags, [Next]_vars PROVE Flags'
  OBVIOUS
<1> USE DEF Flags, inact, history
<1>1. CASE Event
  BY <1>1 DEF Event, CustomerSpoke, ArmInactivity, Output, OnInterimInputTranscript,
              OnInputTranscript, OnInterrupted, OnLanguageSwitch, OnCompleteCall,
              OnTurnComplete
<1>2. CASE Timer
  BY <1>2 DEF Timer, ResponseFires, Remind, GoodbyeFires
<1>3. CASE Callback
  BY <1>3 DEF Callback, Recover, CheckGoodbye, Goodbye
<1>4. CASE UNCHANGED vars
  BY <1>4 DEF vars
<1> QED
  BY <1>1, <1>2, <1>3, <1>4 DEF Next

\* The inductive invariant of the watchdogs.
THEOREM WatchdogInvariant == Spec => []IInv
<1>1. Init => Counted
  BY MaxPromptsAssumption DEF Init, Counted
<1>2. Init => GoodbyeWasDue /\ Flags
  BY DEF Init, GoodbyeWasDue, Flags
<1>3. Init => Watched
  BY DEF Init, Watched, SilenceIsWatched
<1>4. Init => IInv
  BY <1>1, <1>2, <1>3 DEF IInv
<1>5. IInv /\ [Next]_vars => IInv'
  BY CountsKept, GoodbyeKept, WatchKept, FlagsKept DEF IInv
<1> QED
  BY <1>4, <1>5, PTL DEF Spec

\* The state keeps its types for any number of reminders.
THEOREM TypeCorrect == Spec => []TypeOK
<1>1. IInv => TypeOK
  BY DEF IInv, Counted, Watched, Flags, TypeOK
<1> QED
  BY <1>1, WatchdogInvariant, PTL

\* A recovery waits or is due exactly while the customer's last utterance has had
\* no reply: normal turns are not duplicated and silent ones not overlooked.
THEOREM UnansweredIsWatched == Spec => []SilenceIsWatched
<1>1. IInv => SilenceIsWatched
  BY DEF IInv, Watched
<1> QED
  BY <1>1, WatchdogInvariant, PTL

\* The goodbye to a silent customer follows all the reminders, unless they spoke
\* while it was on its way.
THEOREM GoodbyeFollowsReminders == Spec => GoodbyeNeedsSilence
<1>1. IInv /\ [Next]_vars => [Goodbye => silent = MaxPrompts \/ late]_vars
  BY DEF IInv, GoodbyeWasDue, Goodbye
<1> QED
  BY <1>1, WatchdogInvariant, PTL DEF Spec, GoodbyeNeedsSilence
=============================================================================
