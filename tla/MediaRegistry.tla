--------------------------- MODULE MediaRegistry ---------------------------
(***************************************************************************)
(* Which lead a call is about, and which calls are live.                   *)
(*                                                                         *)
(*   Initiate       asks the carrier to dial and then records the call's   *)
(*                  context in Redis, under its call_sid and "latest"      *)
(*   exotelXML      answers the carrier when the callee picks up           *)
(*   ServeHTTP      registers the media session under the stream_sid it    *)
(*                  has, a provisional one                                 *)
(*   start event    gives the session its call_sid and stream_sid and      *)
(*                  takes the context from Redis                           *)
(*                                                                         *)
(* run on threads of their own.  A manual call has a context without a     *)
(* lead, and perhaps without a campaign.  Plivo, whose context is recorded *)
(* before the dial and whose media socket needs a ticket, and Tata, whose  *)
(* URL has its lead, are left out.                                         *)
(***************************************************************************)
EXTENDS Naturals

CONSTANTS
  Calls,     \* calls that Initiate places, named by their call_sid
  Manual,    \* those of the manual-call API: lead id 0
  Sim,       \* the context of a manual web simulation, which has no lead either
  Rung,      \* calls to a number that a simulation may be given
  Named,     \* calls whose start event brings a stream_sid, as a rule all
  Bare,      \* contexts without a campaign: campaign_id is optional
  None,
  MaxFaults  \* bound: failed Redis calls

ASSUME CallsAssumption ==
  /\ Manual \subseteq Calls /\ Rung \subseteq Calls /\ Named \subseteq Calls
  /\ Bare \subseteq Calls \cup {Sim}
  /\ Sim \notin Calls /\ None \notin Calls \cup {Sim}
ASSUME BoundsAssumption == MaxFaults \in Nat

VARIABLES
  dial,      \* where Initiate stands
  pending,   \* pending:<call_sid>
  latest,    \* pending:latest
  phoned,    \* calls whose number has a simulation's context: pending:phone:<number>
  url,       \* the context that exotelXML put into the stream URL
  media,     \* where the media handler stands
  lead,      \* sess.LeadID
  context,   \* sess.LeadName, LeadPhone, OrgID, Interest: every context has them
  campaign,  \* sess.CampaignID, with its voice, language and duration limit
  listed,    \* sessions holds an entry for the session
  bySid,     \* sessionsByCallSid
  forced,    \* where CloseCall's goroutine stands
  early,     \* history, until the call has left: its context was looked for
             \* before it was recorded
  overtaken, \* history, likewise: exotelXML found another call in "latest"
  faults

vars == <<dial, pending, latest, phoned, url, media, lead, context, campaign, listed,
          bySid, forced, early, overtaken, faults>>
redis == <<pending, latest, phoned>>
session == <<lead, context, campaign>>
registry == <<listed, bySid>>
history == <<early, overtaken>>

LeadOf(p) == IF p \in Calls \ Manual THEN p ELSE None
CampaignOf(p) == IF p \in Bare THEN None ELSE p
Contexts == Calls \cup {Sim, None}

TypeOK ==
  /\ dial \in [Calls -> {"idle", "placed", "keyed", "done", "failed"}]
  /\ pending \in [Calls -> Contexts] /\ latest \in Contexts
  /\ phoned \subseteq Calls
  /\ url \in [Calls -> Contexts]
  /\ media \in [Calls -> {"none", "answered", "open", "started", "missed", "unphoned",
                          "served", "mute", "closing", "finalized", "left"}]
  /\ lead \in [Calls -> Calls \cup {None}]
  /\ context \in [Calls -> Contexts] /\ campaign \in [Calls -> Contexts]
  /\ listed \subseteq Calls /\ bySid \subseteq Calls
  /\ forced \in [Calls -> {"none", "sleep", "done"}]
  /\ early \subseteq Calls /\ overtaken \subseteq Calls
  /\ faults \in 0..MaxFaults

Init ==
  /\ dial = [c \in Calls |-> "idle"]
  /\ pending = [c \in Calls |-> None] /\ latest = None /\ phoned = {}
  /\ url = [c \in Calls |-> None]
  /\ media = [c \in Calls |-> "none"]
  /\ lead = [c \in Calls |-> None] /\ context = [c \in Calls |-> None]
  /\ campaign = [c \in Calls |-> None]
  /\ listed = {} /\ bySid = {}
  /\ forced = [c \in Calls |-> "none"]
  /\ early = {} /\ overtaken = {} /\ faults = 0

Fault == faults < MaxFaults /\ faults' = faults + 1
Step(c, at) == media' = [media EXCEPT ![c] = at]

-----------------------------------------------------------------------------
(* Initiate, and the manual web simulation. *)

\* The carrier dials; Initiate may still be told that it failed (a timeout).
Place(c) ==
  /\ dial[c] = "idle"
  /\ \E at \in {"placed", "failed"} : dial' = [dial EXCEPT ![c] = at]
  /\ UNCHANGED <<redis, url, media, session, registry, forced, history, faults>>

\* Mutant: only "latest" is written.
KeyLatestOnly(c) ==
  /\ dial[c] = "placed"
  /\ dial' = [dial EXCEPT ![c] = "keyed"]
  /\ UNCHANGED <<redis, url, media, session, registry, forced, history, faults>>
\* A failure to record is only logged.
Key(c) ==
  /\ dial[c] = "placed"
  /\ dial' = [dial EXCEPT ![c] = "keyed"]
  /\ \/ pending' = [pending EXCEPT ![c] = c] /\ UNCHANGED faults
     \/ Fault /\ UNCHANGED pending
  /\ UNCHANGED <<latest, phoned, url, media, session, registry, forced, history>>

KeyLatest(c) ==
  /\ dial[c] = "keyed"
  /\ dial' = [dial EXCEPT ![c] = "done"]
  /\ \/ latest' = c /\ UNCHANGED faults
     \/ Fault /\ UNCHANGED latest
  /\ UNCHANGED <<pending, phoned, url, media, session, registry, forced, history>>

\* The simulation writes two keys and ignores a failure of either.
Simulate ==
  /\ latest' = Sim
  /\ UNCHANGED <<dial, pending, phoned, url, media, session, registry, forced, history,
                 faults>>

SimulatePhone(c) ==
  /\ c \in Rung
  /\ phoned' = phoned \cup {c}
  /\ UNCHANGED <<dial, pending, latest, url, media, session, registry, forced, history,
                 faults>>

-----------------------------------------------------------------------------
(* The carrier reaches the media handler. *)

Ringing(c) == dial[c] # "idle" /\ media[c] = "none"
Recorded(c) == dial[c] \in {"keyed", "done"}

\* A context without a lead, the call's own too, is given up for the one under the
\* phone number, and that one for "latest", where there is one.
Found(c, own) ==
  IF LeadOf(own) # None THEN own
  ELSE IF latest # None THEN latest ELSE IF c \in phoned THEN Sim ELSE own

\* A legacy app gets its context in the stream URL.
AnswerLegacy(c) ==
  /\ Ringing(c)
  /\ Step(c, "answered")
  /\ \/ url' = [url EXCEPT ![c] = Found(c, pending[c])] /\ UNCHANGED faults
     \/ url' = [url EXCEPT ![c] = Found(c, None)] /\ Fault
  /\ early' = IF Recorded(c) THEN early ELSE early \cup {c}
  /\ overtaken' = IF url'[c] \in {c, None} THEN overtaken ELSE overtaken \cup {c}
  /\ UNCHANGED <<dial, redis, session, registry, forced>>

\* A Voicebot flow gets a plain URL.
AnswerVoicebot(c) ==
  /\ Ringing(c)
  /\ Step(c, "answered")
  /\ UNCHANGED <<dial, redis, url, session, registry, forced, history, faults>>

Open(c) ==
  /\ media[c] = "answered"
  /\ Step(c, "open")
  /\ lead' = [lead EXCEPT ![c] = LeadOf(url[c])]
  /\ context' = [context EXCEPT ![c] = url[c]]
  /\ campaign' = [campaign EXCEPT ![c] = CampaignOf(url[c])]
  /\ listed' = listed \cup {c}
  /\ url' = [url EXCEPT ![c] = None]
  /\ UNCHANGED <<dial, redis, bySid, forced, history, faults>>

\* The start event names the call, and the stream of a Named one: sess.StreamSid is
\* replaced, but the session is not registered again.
Start(c) ==
  /\ media[c] = "open"
  /\ Step(c, "started")
  /\ bySid' = bySid \cup {c}
  /\ UNCHANGED <<dial, redis, url, session, listed, forced, history, faults>>

\* What the context has replaces what the session has, and what it has not, a lead
\* or a campaign, is left as it was.  Then speech recognition, the greeting and the
\* duration limit are started.
Hydrate(c, p) ==
  /\ lead' = [lead EXCEPT ![c] = IF LeadOf(p) = None THEN @ ELSE LeadOf(p)]
  /\ campaign' = [campaign EXCEPT ![c] = IF CampaignOf(p) = None THEN @ ELSE CampaignOf(p)]
  /\ context' = [context EXCEPT ![c] = p]
  /\ Step(c, "served")

\* Mutant: the last dial is taken for this call.
LookUpLatestOnly(c) ==
  /\ media[c] = "started"
  /\ Step(c, "missed")
  /\ UNCHANGED <<dial, redis, url, session, registry, forced, history, faults>>
LookUpOwn(c) ==
  /\ media[c] = "started"
  /\ early' = IF Recorded(c) THEN early ELSE early \cup {c}
  /\ IF pending[c] # None
     THEN \/ Hydrate(c, pending[c]) /\ UNCHANGED faults
          \/ Step(c, "missed") /\ Fault /\ UNCHANGED session
     ELSE Step(c, "missed") /\ UNCHANGED <<session, faults>>
  /\ UNCHANGED <<dial, redis, url, registry, forced, overtaken>>

LookUpPhone(c) ==
  /\ media[c] = "missed"
  /\ IF c \in phoned
     THEN \/ Hydrate(c, Sim) /\ UNCHANGED faults
          \/ Step(c, "unphoned") /\ Fault /\ UNCHANGED session
     ELSE Step(c, "unphoned") /\ UNCHANGED <<session, faults>>
  /\ UNCHANGED <<dial, redis, url, registry, forced, history>>

\* Without any context nothing is started, and the caller hears nothing, unless the
\* stream URL had one.
Missed(c) ==
  /\ Step(c, IF context[c] = None THEN "mute" ELSE "served")
  /\ UNCHANGED session

LookUpLatest(c) ==
  /\ media[c] = "unphoned"
  /\ IF latest # None
     THEN \/ Hydrate(c, latest) /\ UNCHANGED faults
          \/ Missed(c) /\ Fault
     ELSE Missed(c) /\ UNCHANGED faults
  /\ UNCHANGED <<dial, redis, url, registry, forced, history>>

-----------------------------------------------------------------------------
(* The end of a call. *)

LoopEnds(c) ==
  /\ media[c] \in {"open", "served", "mute"}
  /\ Step(c, "closing")
  /\ UNCHANGED <<dial, redis, url, session, registry, forced, history, faults>>

CloseCall(c) ==
  /\ c \in bySid /\ forced[c] = "none"
  /\ forced' = [forced EXCEPT ![c] = "sleep"]
  /\ UNCHANGED <<dial, redis, url, media, session, registry, history, faults>>

\* finalizeCall forgets the context, by either route.
Forget(c) == pending' = [pending EXCEPT ![c] = None]

ForcedFinalize(c) ==
  /\ forced[c] = "sleep"
  /\ forced' = [forced EXCEPT ![c] = "done"]
  /\ Forget(c)
  /\ UNCHANGED <<dial, latest, phoned, url, media, session, registry, history, faults>>

\* Without a start event there is no call_sid to forget.
Finalize(c) ==
  /\ media[c] = "closing"
  /\ Step(c, "finalized")
  /\ IF c \in bySid THEN Forget(c) ELSE UNCHANGED pending
  /\ UNCHANGED <<dial, latest, phoned, url, session, registry, forced, history, faults>>

Drop(c) ==
  /\ lead' = [lead EXCEPT ![c] = None]
  /\ context' = [context EXCEPT ![c] = None]
  /\ campaign' = [campaign EXCEPT ![c] = None]
  /\ early' = early \ {c} /\ overtaken' = overtaken \ {c}

\* The entries under the present stream_sid and call_sid are deleted.
Leave(c) ==
  /\ media[c] = "finalized"
  /\ Step(c, "left") /\ Drop(c)
  /\ listed' = IF c \in bySid \cap Named THEN listed ELSE listed \ {c}
  /\ bySid' = bySid \ {c}
  /\ UNCHANGED <<dial, redis, url, forced, faults>>

Next ==
  \/ Simulate
  \/ \E c \in Calls :
       \/ SimulatePhone(c) \/ Place(c) \/ Key(c) \/ KeyLatest(c)
       \/ AnswerLegacy(c) \/ AnswerVoicebot(c) \/ Open(c) \/ Start(c)
       \/ LookUpOwn(c) \/ LookUpPhone(c) \/ LookUpLatest(c)
       \/ LoopEnds(c) \/ CloseCall(c) \/ ForcedFinalize(c) \/ Finalize(c) \/ Leave(c)

Spec == Init /\ [][Next]_vars

-----------------------------------------------------------------------------
\* The call was looked for too soon, its context could not be written or read, or
\* a forced close had deleted it.
Untimely(c) == c \in early \/ faults > 0 \/ forced[c] = "done"

Hydrated(c) == media[c] \in {"served", "closing", "finalized"} /\ c \in bySid

\* A call is kept, analysed and billed under its own name, number and organisation,
\* and under its own lead and campaign, whatever other dials and simulations write
\* meanwhile.  The exception is a manual call for which exotelXML, which looks on
\* because the lead id is 0, found another context: that one's lead stays, and, when
\* the manual call names no campaign, its campaign, voice, language and limit.
ServedUnderOwnContext ==
  \A c \in Calls : Hydrated(c) /\ ~Untimely(c) =>
    /\ context[c] = c
    /\ lead[c] = LeadOf(c) \/ c \in Manual \cap overtaken
    /\ campaign[c] = CampaignOf(c) \/ c \in Manual \cap Bare \cap overtaken

\* A caller is left on a silent line only when the call was untimely.
MuteOnlyIfUntimely ==
  \A c \in Calls : media[c] = "mute" => Untimely(c)

\* "ActiveSessions returns a snapshot of every live call session"
\* (active_sessions.go:31): a session whose handler has returned is not in it.
ListedIsLive == \A c \in listed : media[c] # "left"
=============================================================================
