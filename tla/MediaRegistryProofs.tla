------------------------- MODULE MediaRegistryProofs -------------------------
(***************************************************************************)
(* Proofs about MediaRegistry for any number of campaign and manual calls  *)
(* and of failed Redis calls: which lead a call is served under, and when  *)
(* a caller is left on a silent line.                                      *)
(***************************************************************************)
EXTENDS MediaRegistry, TLAPS

\* Nobody writes another call's context under a call_sid, and a recorded one
\* stays until the call is finalized.
ContextKept ==
  \A c \in Calls :
    /\ pending[c] \in {c, None}
    /\ Recorded(c) /\ faults = 0 /\ forced[c] # "done"
         /\ media[c] \notin {"finalized", "left"} => pending[c] = c

\* Only a session that has started is found by call_sid, and only that one can be
\* closed by force.
StartedFirst ==
  \A c \in Calls :
    c \in bySid \/ forced[c] # "none" => media[c] \notin {"none", "answered", "open"}

\* Until its start event a call has the lead and campaign of another only if
\* exotelXML took that one's context for its own.
OwnOrOvertaken ==
  \A c \in Calls :
    /\ media[c] = "none" => url[c] = None
    /\ media[c] = "answered" => url[c] \in {c, None} \/ c \in overtaken
    /\ media[c] \in {"open", "started"} =>
         \/ lead[c] \in {LeadOf(c), None} /\ campaign[c] \in {CampaignOf(c), None}
         \/ c \in overtaken

\* That happens to a call with a lead only when it is untimely.
OvertakenWasManual == \A c \in overtaken : c \in Manual \/ Untimely(c)

\* The look-up under the call_sid fails only for an untimely call.
MissedWasUntimely == \A c \in Calls : media[c] \in {"missed", "unphoned", "mute"} => Untimely(c)

IInv ==
  /\ TypeOK /\ ContextKept /\ StartedFirst /\ OwnOrOvertaken
  /\ OvertakenWasManual /\ MissedWasUntimely /\ ServedUnderOwnContext

-----------------------------------------------------------------------------
\* The tables and sessions keep their types.
LEMMA TypingKept == TypeOK /\ [Next]_vars => TypeOK'
<1> SUFFICES ASSUME TypeOK, [Next]_vars PROVE TypeOK'
  OBVIOUS
<1> USE CallsAssumption, BoundsAssumption
<1> USE DEF TypeOK, Contexts, LeadOf, CampaignOf, Step, Fault, redis, session, registry, history
<1>1. CASE Simulate
  BY <1>1 DEF Simulate
<1>10. ASSUME NEW c \in Calls, SimulatePhone(c) PROVE TypeOK'
  BY <1>10 DEF SimulatePhone
<1>2. ASSUME NEW c \in Calls, Place(c) \/ Key(c) \/ KeyLatest(c) PROVE TypeOK'
  BY <1>2 DEF Place, Key, KeyLatest
<1>3. ASSUME NEW c \in Calls, AnswerLegacy(c) \/ AnswerVoicebot(c) PROVE TypeOK'
  BY <1>3 DEF AnswerLegacy, AnswerVoicebot, Found
<1>4. ASSUME NEW c \in Calls, Open(c) \/ Start(c) PROVE TypeOK'
  BY <1>4 DEF Open, Start
<1>5. ASSUME NEW c \in Calls, LookUpOwn(c) \/ LookUpPhone(c) \/ LookUpLatest(c) PROVE TypeOK'
  BY <1>5 DEF LookUpOwn, LookUpPhone, LookUpLatest, Hydrate, Missed
<1>6. ASSUME NEW c \in Calls, LoopEnds(c) \/ CloseCall(c) PROVE TypeOK'
  BY <1>6 DEF LoopEnds, CloseCall
<1>7. ASSUME NEW c \in Calls, ForcedFinalize(c) \/ Finalize(c) PROVE TypeOK'
  BY <1>7 DEF ForcedFinalize, Finalize, Forget
<1>8. ASSUME NEW c \in Calls, Leave(c) PROVE TypeOK'
  BY <1>8 DEF Leave, Drop
<1>9. CASE UNCHANGED vars
  BY <1>9 DEF vars
<1> QED
  BY <1>1, <1>2, <1>3, <1>4, <1>5, <1>6, <1>7, <1>8, <1>9, <1>10 DEF Next

\* Every step of a dial, a web socket or a forced close preserves the invariant.
LEMMA StepKeepsInv == IInv /\ [Next]_vars => IInv'
<1> SUFFICES ASSUME IInv, [Next]_vars PROVE IInv'
  OBVIOUS
<1>t. TypeOK /\ TypeOK'
  BY TypingKept DEF IInv
<1>p. /\ ContextKept /\ StartedFirst /\ OwnOrOvertaken
      /\ OvertakenWasManual /\ MissedWasUntimely /\ ServedUnderOwnContext
  BY DEF IInv
<1> USE CallsAssumption, <1>t, <1>p
<1> USE DEF TypeOK, LeadOf, CampaignOf, Step, Fault, Recorded, Untimely, Hydrated,
            redis, session, registry, history
<1>1. CASE Simulate
  BY <1>1 DEF Simulate, IInv, ContextKept, StartedFirst, OwnOrOvertaken,
              OvertakenWasManual, MissedWasUntimely, ServedUnderOwnContext
<1>17. ASSUME NEW c \in Calls, SimulatePhone(c) PROVE IInv'
  BY <1>17 DEF SimulatePhone, IInv, ContextKept, StartedFirst, OwnOrOvertaken,
               OvertakenWasManual, MissedWasUntimely, ServedUnderOwnContext
<1>2. ASSUME NEW c \in Calls, Place(c) PROVE IInv'
  <2>1. ContextKept'
    BY <1>2 DEF Place, ContextKept
  <2>2. StartedFirst'
    BY <1>2 DEF Place, StartedFirst
  <2>3. OwnOrOvertaken'
    BY <1>2 DEF Place, OwnOrOvertaken
  <2>4. MissedWasUntimely'
    BY <1>2 DEF Place, MissedWasUntimely
  <2>5. OvertakenWasManual'
    BY <1>2 DEF Place, OvertakenWasManual
  <2>6. ServedUnderOwnContext'
    BY <1>2 DEF Place, ServedUnderOwnContext
  <2> QED
    BY <2>1, <2>2, <2>3, <2>4, <2>5, <2>6 DEF IInv
<1>3. ASSUME NEW c \in Calls, Key(c) PROVE IInv'
  <2>1. ContextKept'
    BY <1>3 DEF Key, ContextKept
  <2>2. StartedFirst'
    BY <1>3 DEF Key, StartedFirst
  <2>3. OwnOrOvertaken'
    BY <1>3 DEF Key, OwnOrOvertaken
  <2>4. MissedWasUntimely'
    BY <1>3 DEF Key, MissedWasUntimely
  <2>5. OvertakenWasManual'
    BY <1>3 DEF Key, OvertakenWasManual
  <2>6. ServedUnderOwnContext'
    BY <1>3 DEF Key, ServedUnderOwnContext
  <2> QED
    BY <2>1, <2>2, <2>3, <2>4, <2>5, <2>6 DEF IInv
<1>4. ASSUME NEW c \in Calls, KeyLatest(c) PROVE IInv'
  <2>1. ContextKept'
    BY <1>4 DEF KeyLatest, ContextKept
  <2>2. StartedFirst'
    BY <1>4 DEF KeyLatest, StartedFirst
  <2>3. OwnOrOvertaken'
    BY <1>4 DEF KeyLatest, OwnOrOvertaken
  <2>4. MissedWasUntimely'
    BY <1>4 DEF KeyLatest, MissedWasUntimely
  <2>5. OvertakenWasManual'
    BY <1>4 DEF KeyLatest, OvertakenWasManual
  <2>6. ServedUnderOwnContext'
    BY <1>4 DEF KeyLatest, ServedUnderOwnContext
  <2> QED
    BY <2>1, <2>2, <2>3, <2>4, <2>5, <2>6 DEF IInv
<1>5. ASSUME NEW c \in Calls, AnswerLegacy(c) PROVE IInv'
  <2>1. ContextKept'
    BY <1>5 DEF AnswerLegacy, Ringing, Found, ContextKept
  <2>2. StartedFirst'
    BY <1>5 DEF AnswerLegacy, Ringing, Found, StartedFirst
  <2>3. OwnOrOvertaken'
    BY <1>5 DEF AnswerLegacy, Ringing, Found, OwnOrOvertaken
  <2>4. MissedWasUntimely'
    BY <1>5 DEF AnswerLegacy, Ringing, Found, MissedWasUntimely
  <2>5. OvertakenWasManual'
    BY <1>5 DEF AnswerLegacy, Ringing, Found, ContextKept, StartedFirst, OvertakenWasManual
  <2>6. ServedUnderOwnContext'
    BY <1>5 DEF AnswerLegacy, Ringing, Found, ServedUnderOwnContext
  <2> QED
    BY <2>1, <2>2, <2>3, <2>4, <2>5, <2>6 DEF IInv
<1>6. ASSUME NEW c \in Calls, AnswerVoicebot(c) PROVE IInv'
  <2>1. ContextKept'
    BY <1>6 DEF AnswerVoicebot, Ringing, ContextKept
  <2>2. StartedFirst'
    BY <1>6 DEF AnswerVoicebot, Ringing, StartedFirst
  <2>3. OwnOrOvertaken'
    BY <1>6 DEF AnswerVoicebot, Ringing, OwnOrOvertaken
  <2>4. MissedWasUntimely'
    BY <1>6 DEF AnswerVoicebot, Ringing, MissedWasUntimely
  <2>5. OvertakenWasManual'
    BY <1>6 DEF AnswerVoicebot, Ringing, OvertakenWasManual
  <2>6. ServedUnderOwnContext'
    BY <1>6 DEF AnswerVoicebot, Ringing, ServedUnderOwnContext
  <2> QED
    BY <2>1, <2>2, <2>3, <2>4, <2>5, <2>6 DEF IInv
<1>7. ASSUME NEW c \in Calls, Open(c) PROVE IInv'
  <2>1. ContextKept'
    BY <1>7 DEF Open, ContextKept
  <2>2. StartedFirst'
    BY <1>7 DEF Open, StartedFirst
  <2>3. OwnOrOvertaken'
    BY <1>7 DEF Open, OwnOrOvertaken
  <2>4. MissedWasUntimely'
    BY <1>7 DEF Open, MissedWasUntimely
  <2>5. OvertakenWasManual'
    BY <1>7 DEF Open, OvertakenWasManual
  <2>6. ServedUnderOwnContext'
    BY <1>7 DEF Open, ServedUnderOwnContext
  <2> QED
    BY <2>1, <2>2, <2>3, <2>4, <2>5, <2>6 DEF IInv
<1>8. ASSUME NEW c \in Calls, Start(c) PROVE IInv'
  <2>1. ContextKept'
    BY <1>8 DEF Start, ContextKept
  <2>2. StartedFirst'
    BY <1>8 DEF Start, StartedFirst
  <2>3. OwnOrOvertaken'
    BY <1>8 DEF Start, OwnOrOvertaken
  <2>4. MissedWasUntimely'
    BY <1>8 DEF Start, MissedWasUntimely
  <2>5. OvertakenWasManual'
    BY <1>8 DEF Start, OvertakenWasManual
  <2>6. ServedUnderOwnContext'
    BY <1>8 DEF Start, ServedUnderOwnContext
  <2> QED
    BY <2>1, <2>2, <2>3, <2>4, <2>5, <2>6 DEF IInv
<1>9. ASSUME NEW c \in Calls, LookUpOwn(c) PROVE IInv'
  <2>1. ContextKept'
    BY <1>9 DEF LookUpOwn, Hydrate, ContextKept
  <2>2. StartedFirst'
    BY <1>9 DEF LookUpOwn, Hydrate, StartedFirst
  <2>3. OwnOrOvertaken'
    BY <1>9 DEF LookUpOwn, Hydrate, OwnOrOvertaken
  <2>4. MissedWasUntimely'
    BY <1>9 DEF LookUpOwn, Hydrate, ContextKept, MissedWasUntimely
  <2>5. OvertakenWasManual'
    BY <1>9 DEF LookUpOwn, Hydrate, OvertakenWasManual
  <2>6. ServedUnderOwnContext'
    BY <1>9 DEF LookUpOwn, Hydrate, ContextKept, OwnOrOvertaken, OvertakenWasManual,
                ServedUnderOwnContext
  <2> QED
    BY <2>1, <2>2, <2>3, <2>4, <2>5, <2>6 DEF IInv
<1>10. ASSUME NEW c \in Calls, LookUpLatest(c) PROVE IInv'
  <2>1. ContextKept'
    BY <1>10 DEF LookUpLatest, Hydrate, Missed, ContextKept
  <2>2. StartedFirst'
    BY <1>10 DEF LookUpLatest, Hydrate, Missed, StartedFirst
  <2>3. OwnOrOvertaken'
    BY <1>10 DEF LookUpLatest, Hydrate, Missed, OwnOrOvertaken
  <2>4. MissedWasUntimely'
    BY <1>10 DEF LookUpLatest, Hydrate, Missed, MissedWasUntimely
  <2>5. OvertakenWasManual'
    BY <1>10 DEF LookUpLatest, Hydrate, Missed, OvertakenWasManual
  <2>6. ServedUnderOwnContext'
    BY <1>10 DEF LookUpLatest, Hydrate, Missed, MissedWasUntimely, ServedUnderOwnContext
  <2> QED
    BY <2>1, <2>2, <2>3, <2>4, <2>5, <2>6 DEF IInv
<1>18. ASSUME NEW c \in Calls, LookUpPhone(c) PROVE IInv'
  <2>1. ContextKept'
    BY <1>18 DEF LookUpPhone, Hydrate, ContextKept
  <2>2. StartedFirst'
    BY <1>18 DEF LookUpPhone, Hydrate, StartedFirst
  <2>3. OwnOrOvertaken'
    BY <1>18 DEF LookUpPhone, Hydrate, OwnOrOvertaken
  <2>4. MissedWasUntimely'
    BY <1>18 DEF LookUpPhone, Hydrate, MissedWasUntimely
  <2>5. OvertakenWasManual'
    BY <1>18 DEF LookUpPhone, Hydrate, OvertakenWasManual
  <2>6. ServedUnderOwnContext'
    BY <1>18 DEF LookUpPhone, Hydrate, MissedWasUntimely, ServedUnderOwnContext
  <2> QED
    BY <2>1, <2>2, <2>3, <2>4, <2>5, <2>6 DEF IInv
<1>11. ASSUME NEW c \in Calls, LoopEnds(c) PROVE IInv'
  <2>1. ContextKept'
    BY <1>11 DEF LoopEnds, ContextKept
  <2>2. StartedFirst'
    BY <1>11 DEF LoopEnds, StartedFirst
  <2>3. OwnOrOvertaken'
    BY <1>11 DEF LoopEnds, OwnOrOvertaken
  <2>4. MissedWasUntimely'
    BY <1>11 DEF LoopEnds, MissedWasUntimely
  <2>5. OvertakenWasManual'
    BY <1>11 DEF LoopEnds, OvertakenWasManual
  <2>6. ServedUnderOwnContext'
    BY <1>11 DEF LoopEnds, StartedFirst, MissedWasUntimely, ServedUnderOwnContext
  <2> QED
    BY <2>1, <2>2, <2>3, <2>4, <2>5, <2>6 DEF IInv
<1>12. ASSUME NEW c \in Calls, CloseCall(c) PROVE IInv'
  <2>1. ContextKept'
    BY <1>12 DEF CloseCall, ContextKept
  <2>2. StartedFirst'
    BY <1>12 DEF CloseCall, StartedFirst
  <2>3. OwnOrOvertaken'
    BY <1>12 DEF CloseCall, OwnOrOvertaken
  <2>4. MissedWasUntimely'
    BY <1>12 DEF CloseCall, MissedWasUntimely
  <2>5. OvertakenWasManual'
    BY <1>12 DEF CloseCall, OvertakenWasManual
  <2>6. ServedUnderOwnContext'
    BY <1>12 DEF CloseCall, ServedUnderOwnContext
  <2> QED
    BY <2>1, <2>2, <2>3, <2>4, <2>5, <2>6 DEF IInv
<1>13. ASSUME NEW c \in Calls, ForcedFinalize(c) PROVE IInv'
  <2>1. ContextKept'
    BY <1>13 DEF ForcedFinalize, Forget, ContextKept
  <2>2. StartedFirst'
    BY <1>13 DEF ForcedFinalize, Forget, StartedFirst
  <2>3. OwnOrOvertaken'
    BY <1>13 DEF ForcedFinalize, Forget, OwnOrOvertaken
  <2>4. MissedWasUntimely'
    BY <1>13 DEF ForcedFinalize, Forget, MissedWasUntimely
  <2>5. OvertakenWasManual'
    BY <1>13 DEF ForcedFinalize, Forget, OvertakenWasManual
  <2>6. ServedUnderOwnContext'
    BY <1>13 DEF ForcedFinalize, Forget, ServedUnderOwnContext
  <2> QED
    BY <2>1, <2>2, <2>3, <2>4, <2>5, <2>6 DEF IInv
<1>14. ASSUME NEW c \in Calls, Finalize(c) PROVE IInv'
  <2>1. ContextKept'
    BY <1>14 DEF Finalize, Forget, ContextKept
  <2>2. StartedFirst'
    BY <1>14 DEF Finalize, Forget, StartedFirst
  <2>3. OwnOrOvertaken'
    BY <1>14 DEF Finalize, Forget, OwnOrOvertaken
  <2>4. MissedWasUntimely'
    BY <1>14 DEF Finalize, Forget, MissedWasUntimely
  <2>5. OvertakenWasManual'
    BY <1>14 DEF Finalize, Forget, OvertakenWasManual
  <2>6. ServedUnderOwnContext'
    BY <1>14 DEF Finalize, Forget, ServedUnderOwnContext
  <2> QED
    BY <2>1, <2>2, <2>3, <2>4, <2>5, <2>6 DEF IInv
<1>15. ASSUME NEW c \in Calls, Leave(c) PROVE IInv'
  <2>1. ContextKept'
    BY <1>15 DEF Leave, Drop, ContextKept
  <2>2. StartedFirst'
    BY <1>15 DEF Leave, Drop, StartedFirst
  <2>3. OwnOrOvertaken'
    BY <1>15 DEF Leave, Drop, OwnOrOvertaken
  <2>4. MissedWasUntimely'
    BY <1>15 DEF Leave, Drop, MissedWasUntimely
  <2>5. OvertakenWasManual'
    BY <1>15 DEF Leave, Drop, OvertakenWasManual
  <2>6. ServedUnderOwnContext'
    BY <1>15 DEF Leave, Drop, ServedUnderOwnContext
  <2> QED
    BY <2>1, <2>2, <2>3, <2>4, <2>5, <2>6 DEF IInv
<1>16. CASE UNCHANGED vars
  BY <1>16 DEF vars, IInv, ContextKept, StartedFirst, OwnOrOvertaken,
               OvertakenWasManual, MissedWasUntimely, ServedUnderOwnContext
<1> QED
  BY <1>1, <1>2, <1>3, <1>4, <1>5, <1>6, <1>7, <1>8, <1>9, <1>10, <1>11,
     <1>12, <1>13, <1>14, <1>15, <1>16, <1>17, <1>18 DEF Next

\* The inductive invariant of the registry.
THEOREM RegistryInvariant == Spec => []IInv
<1>1. Init => IInv
  BY CallsAssumption, BoundsAssumption
     DEF Init, IInv, TypeOK, Contexts, ContextKept, StartedFirst, OwnOrOvertaken, Recorded,
         LeadOf, CampaignOf, OvertakenWasManual, MissedWasUntimely, ServedUnderOwnContext, Hydrated
<1> QED
  BY <1>1, StepKeepsInv, PTL DEF Spec

\* The state keeps its types for any number of calls and failures.
THEOREM TypeCorrect == Spec => []TypeOK
<1>1. IInv => TypeOK
  BY DEF IInv
<1> QED
  BY <1>1, RegistryInvariant, PTL

\* A served call that was timely has its own name, number and organisation, however
\* many calls are dialled at once; and its own lead and campaign, but that a manual
\* call which was overtaken may have another's lead and, when it names no campaign
\* itself, another's campaign.
THEOREM ServedAsItself == Spec => []ServedUnderOwnContext
<1>1. IInv => ServedUnderOwnContext
  BY DEF IInv
<1> QED
  BY <1>1, RegistryInvariant, PTL

\* Only the caller of an untimely call is left on a silent line.
THEOREM TimelyCallsAreHeard == Spec => []MuteOnlyIfUntimely
<1>1. IInv => MuteOnlyIfUntimely
  BY DEF IInv, MissedWasUntimely, MuteOnlyIfUntimely
<1> QED
  BY <1>1, RegistryInvariant, PTL
=============================================================================
