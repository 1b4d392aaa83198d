--------------------------- MODULE PipelineProofs ---------------------------
(***************************************************************************)
(* Proofs about the turns of the agent and who may stop them.              *)
(*                                                                         *)
(* Takeover, for any set of managers and hints: the types, whose takeover  *)
(* a set flag is, that a takeover stops the turns, and that a hint is      *)
(* given once.                                                             *)
(*                                                                         *)
(* CallSession, for channels and timers of any size: the types, that a     *)
(* barge-in never silences the agent for good, and when a requested        *)
(* hang-up can be stranded.                                                *)
(***************************************************************************)
EXTENDS Takeover, CallSession, TLAPS

\* The types, without the counters.
Shapes ==
  /\ live \in BOOLEAN /\ key \in Keys /\ session \in {"open", "ended", "cleaned"}
  /\ flag \in [Keys -> BOOLEAN] /\ queue \in [Keys -> SUBSET Whispers]
  /\ mon \in [Managers -> Monitor] /\ undone \subseteq Managers
  /\ turn \in Turn /\ playing \in BOOLEAN /\ collided \subseteq Whispers

\* The types of the counters.
Counts ==
  /\ tts \in 0..MaxSentences
  /\ given \in [Whispers -> 0..Most]
  /\ faults \in 0..MaxFaults

\* The steps of the session, of the managers and of the turns.
SessionStep == Start \/ EndCall \/ CleanupCall
ManagerStep(m) ==
  \/ Attach(m) \/ TakeOver(m) \/ ReleaseTakeover(m) \/ Disconnect(m) \/ ClearOnLeave(m)
  \/ \E w \in Whispers : PushWhisper(m, w)
TurnStep ==
  Hear \/ ReadWhispers \/ PopWhispers \/ Deliver \/ EndTurn \/ Say \/ Said \/ LiveReply

LEMMA Steps == Next <=> SessionStep \/ (\E m \in Managers : ManagerStep(m)) \/ TurnStep
BY Zenon DEF Next, SessionStep, ManagerStep, TurnStep

LEMMA FlagWritten ==
  ASSUME flag \in [Keys -> BOOLEAN], NEW k, NEW b \in BOOLEAN
  PROVE  [flag EXCEPT ![k] = b] \in [Keys -> BOOLEAN]
OBVIOUS

LEMMA MonWritten ==
  ASSUME mon \in [Managers -> Monitor], NEW m \in Managers, NEW at \in {"on", "leaving", "gone"},
         NEW b \in BOOLEAN
  PROVE  [mon EXCEPT ![m].at = at, ![m].holds = b] \in [Managers -> Monitor]
BY DEF Monitor

LEMMA HoldsWritten ==
  ASSUME mon \in [Managers -> Monitor], NEW m \in Managers, NEW b \in BOOLEAN
  PROVE  [mon EXCEPT ![m].holds = b] \in [Managers -> Monitor]
BY DEF Monitor

LEMMA GoneWritten ==
  ASSUME mon \in [Managers -> Monitor], NEW m \in Managers
  PROVE  [mon EXCEPT ![m].at = "gone"] \in [Managers -> Monitor]
BY DEF Monitor

\* A step keeps the types.
LEMMA ShapesKept == Shapes /\ [Next]_vars => Shapes'
<1> SUFFICES ASSUME Shapes, [Next]_vars PROVE Shapes'
  OBVIOUS
<1> USE DEF Shapes, call, store, voice, hints
<1>0. /\ NoTurn \in Turn /\ turn \in Turn
      /\ \A at \in {"wait", "stream"} : [turn EXCEPT !.at = at] \in Turn
      /\ \A at \in {"idle", "stream"} : [NoTurn EXCEPT !.at = at] \in Turn
      /\ [turn EXCEPT !.watched = FALSE] \in Turn
  BY DEF Turn, NoTurn, Keys
<1>1. CASE Start \/ EndCall
  BY <1>0, <1>1 DEF Start, EndCall, Keys
<1>2. CASE CleanupCall
  <2>1. flag' \in [Keys -> BOOLEAN]
    BY <1>2, FlagWritten DEF CleanupCall
  <2>2. queue' \in [Keys -> SUBSET Whispers]
    BY <1>2 DEF CleanupCall
  <2> QED
    BY <1>2, <2>1, <2>2, Zenon DEF CleanupCall
<1>3. ASSUME NEW m \in Managers, Attach(m) PROVE Shapes'
  BY <1>3 DEF Attach, Monitor
<1>4. ASSUME NEW m \in Managers, TakeOver(m) PROVE Shapes'
  <2>1. flag' \in [Keys -> BOOLEAN]
    BY <1>4, FlagWritten DEF TakeOver
  <2>2. mon' \in [Managers -> Monitor]
    BY <1>4, HoldsWritten DEF TakeOver
  <2>3. undone' \subseteq Managers /\ UNCHANGED <<call, queue, turn, collided>>
    BY <1>4 DEF TakeOver
  <2>4. playing' \in BOOLEAN
    BY <1>4 DEF TakeOver
  <2> QED
    BY <2>1, <2>2, <2>3, <2>4, Zenon
<1>5. ASSUME NEW m \in Managers, ReleaseTakeover(m) \/ ClearOnLeave(m) PROVE Shapes'
  <2>1. flag' \in [Keys -> BOOLEAN]
    BY <1>5, FlagWritten DEF ReleaseTakeover, ClearOnLeave
  <2>5. undone' \subseteq Managers /\ UNCHANGED <<call, queue, turn, playing, collided>>
    BY <1>5 DEF ReleaseTakeover, ClearOnLeave, Losers
  <2>2. CASE ReleaseTakeover(m)
    <3>1. mon' = [mon EXCEPT ![m].holds = FALSE]
      BY <2>2 DEF ReleaseTakeover
    <3>2. mon' \in [Managers -> Monitor]
      BY <3>1, HoldsWritten
    <3> QED
      BY <2>1, <2>5, <3>2, Zenon
  <2>3. CASE ClearOnLeave(m)
    <3>1. mon' = [mon EXCEPT ![m].at = "gone"]
      BY <2>3 DEF ClearOnLeave
    <3>2. mon' \in [Managers -> Monitor]
      BY <3>1, GoneWritten
    <3> QED
      BY <2>1, <2>5, <3>2, Zenon
  <2> QED
    BY <1>5, <2>2, <2>3
<1>6. ASSUME NEW m \in Managers, Disconnect(m) PROVE Shapes'
  <2>1. PICK at \in {"leaving", "gone"} : mon' = [mon EXCEPT ![m].at = at, ![m].holds = FALSE]
    BY <1>6 DEF Disconnect
  <2>2. mon' \in [Managers -> Monitor]
    BY <2>1, MonWritten
  <2>3. UNCHANGED <<call, store, undone, turn, voice, hints>>
    BY <1>6 DEF Disconnect
  <2> QED
    BY <2>2, <2>3
<1>7. ASSUME NEW m \in Managers, NEW w \in Whispers, PushWhisper(m, w) PROVE Shapes'
  BY <1>0, <1>7 DEF PushWhisper, Touched, Monitor
<1>8. CASE Hear \/ EndTurn \/ Deliver \/ Say \/ Said \/ LiveReply
  BY <1>0, <1>8 DEF Hear, EndTurn, Deliver, Say, Said, LiveReply
<1>9. CASE ReadWhispers
  <2>1. [at |-> "pop", key |-> key, read |-> queue[key], watched |-> TRUE] \in Turn
    BY DEF Turn
  <2>2. turn' \in Turn
    BY <1>0, <1>9, <2>1 DEF ReadWhispers
  <2>3. UNCHANGED <<call, store, mon, undone, voice, hints>>
    BY <1>9 DEF ReadWhispers
  <2> QED
    BY <2>2, <2>3
<1>10. CASE PopWhispers
  <2>1. queue' \in [Keys -> SUBSET Whispers] /\ collided' \subseteq Whispers
    BY <1>10 DEF PopWhispers, Turn
  <2> QED
    BY <1>0, <1>10, <2>1 DEF PopWhispers
<1>11. CASE UNCHANGED vars
  BY <1>11 DEF vars
<1> QED
  BY <1>1, <1>2, <1>3, <1>4, <1>5, <1>6, <1>7, <1>8, <1>9, <1>10, <1>11, Steps
     DEF SessionStep, ManagerStep, TurnStep

LEMMA CountsKept == Counts /\ [Next]_vars => Counts'
<1> SUFFICES ASSUME Counts, [Next]_vars PROVE Counts'
  OBVIOUS
<1> USE BoundsAssumption DEF Counts, Most, voice, hints, Fault
<1>1. CASE SessionStep
  BY <1>1 DEF SessionStep, Start, EndCall, CleanupCall
<1>2. ASSUME NEW m \in Managers, ManagerStep(m) PROVE Counts'
  BY <1>2 DEF ManagerStep, Attach, TakeOver, ReleaseTakeover, Disconnect, ClearOnLeave,
              PushWhisper
<1>3. CASE TurnStep
  BY <1>3 DEF TurnStep, Hear, ReadWhispers, PopWhispers, Deliver, EndTurn, Say, Said, LiveReply
<1>4. CASE UNCHANGED vars
  BY <1>4 DEF vars
<1> QED
  BY <1>1, <1>2, <1>3, <1>4, Steps

LEMMA Typed == Spec => [](Shapes /\ Counts)
<1>1. Init => Counts
  BY BoundsAssumption DEF Init, Counts, Most
<1>2. ASSUME Init PROVE Shapes
  <2>1. NoTurn \in Turn /\ turn = NoTurn
    BY <1>2 DEF Init, NoTurn, Turn, Keys
  <2>2. mon \in [Managers -> Monitor]
    BY <1>2 DEF Init, Monitor, Keys
  <2>3. flag \in [Keys -> BOOLEAN] /\ queue \in [Keys -> SUBSET Whispers]
    BY <1>2 DEF Init
  <2> QED
    BY <1>2, <2>1, <2>2, <2>3 DEF Init, Shapes, Keys
<1> QED
  BY <1>1, <1>2, ShapesKept, CountsKept, PTL DEF Spec

\* The state keeps its types for any set of managers and hints.
THEOREM TypeCorrect == Spec => []TypeOK
<1>1. Shapes /\ Counts => TypeOK
  BY Zenon DEF Shapes, Counts, TypeOK
<1> QED
  BY <1>1, Typed, PTL

-----------------------------------------------------------------------------
(* Whose takeover a set flag is. *)

\* Only an attached manager holds a call.
HolderOn == \A m \in Managers : mon[m].holds => mon[m].at = "on"

\* A takeover that nobody ended, before the call is cleaned up, has its flag set.
HeldIsFlagged ==
  session # "cleaned" /\ faults = 0
    => \A m \in Managers : mon[m].holds /\ m \notin undone => flag[mon[m].key]

Holding == HolderOn /\ TakeoverHasManager /\ HeldIsFlagged

LEMMA HoldingKept == Shapes /\ Counts /\ Holding /\ [Next]_vars => Holding'
<1> SUFFICES ASSUME Shapes, Counts, Holding, [Next]_vars PROVE Holding'
  OBVIOUS
<1> USE DEF call, store, voice, hints, HolderOn, TakeoverHasManager, HeldIsFlagged, Holding
<1>0. /\ mon \in [Managers -> Monitor] /\ flag \in [Keys -> BOOLEAN] /\ faults \in Nat
      /\ \A m \in Managers : mon[m].key \in Keys
  BY BoundsAssumption DEF Shapes, Counts, Monitor
<1>1. CASE UNCHANGED <<session, flag, mon, undone, faults>>
  BY <1>1
<1>2. CASE EndCall \/ CleanupCall
  BY <1>0, <1>2 DEF EndCall, CleanupCall
<1>3. ASSUME NEW m \in Managers, Attach(m) PROVE Holding'
  BY <1>0, <1>3 DEF Attach, Monitor
<1>4. ASSUME NEW m \in Managers, TakeOver(m) PROVE Holding'
  BY <1>0, <1>4 DEF TakeOver, Fault, Monitor
<1>5. ASSUME NEW m \in Managers, ReleaseTakeover(m) PROVE Holding'
  BY <1>0, <1>5 DEF ReleaseTakeover, Losers, Fault, Monitor
<1>6. ASSUME NEW m \in Managers, Disconnect(m) PROVE Holding'
  BY <1>0, <1>6 DEF Disconnect, Fault, Monitor
<1>7. ASSUME NEW m \in Managers, ClearOnLeave(m) PROVE Holding'
  BY <1>0, <1>7 DEF ClearOnLeave, Losers, Fault, Monitor
<1>8. ASSUME UNCHANGED <<session, flag, mon, undone>>, UNCHANGED faults \/ Fault
      PROVE  Holding'
  BY <1>0, <1>8 DEF Fault
<1>9. CASE TurnStep
  BY <1>8, <1>9 DEF TurnStep, Hear, ReadWhispers, PopWhispers, Deliver, EndTurn, Say, Said,
                    LiveReply
<1>10. ASSUME NEW m \in Managers, NEW w \in Whispers, PushWhisper(m, w) PROVE Holding'
  BY <1>1, <1>10 DEF PushWhisper
<1>11. CASE Start \/ UNCHANGED vars
  BY <1>1, <1>11 DEF Start, vars
<1> QED
  BY <1>2, <1>3, <1>4, <1>5, <1>6, <1>7, <1>9, <1>10, <1>11, Steps DEF SessionStep, ManagerStep

LEMMA HoldingAlways == Spec => []Holding
<1>1. Init => Holding
  BY DEF Init, Holding, HolderOn, TakeoverHasManager, HeldIsFlagged, Keys
<1> QED
  BY <1>1, HoldingKept, Typed, PTL DEF Spec

\* However many managers come and go, a call that is taken over has a manager who
\* is attached or about to give it back, unless Redis failed.
THEOREM TakenOverHasManager == Spec => []TakeoverHasManager
<1>1. Holding => TakeoverHasManager
  BY DEF Holding
<1> QED
  BY <1>1, HoldingAlways, PTL

\* No turn begins under the takeover of an attached manager who has set the flag under
\* the key the pipeline reads and whom no other manager has undone, unless Redis failed.
THEOREM TakenOverTurnsStop == Spec => TakeoverStopsTurns
<1> DEFINE Stops ==
      turn.at = "idle" /\ turn'.at = "wait"
        => \A m \in Managers : mon[m].holds => mon[m].key # key \/ m \in undone \/ faults' > 0
<1>1. ASSUME Shapes, Counts, Holding, [Next]_vars PROVE Stops
  <2> USE DEF call, store, voice, hints
  <2>1. CASE Hear
    <3>1. faults \in Nat /\ session = "open"
      BY <1>1, <2>1, BoundsAssumption DEF Counts, Hear
    <3>2. flag[key] \/ faults > 0 => faults' > 0
      BY <2>1, <3>1 DEF Hear, Fault
    <3>3. ~flag[key] /\ faults = 0
            => \A m \in Managers : mon[m].holds => mon[m].key # key \/ m \in undone
      BY <1>1, <3>1 DEF Holding, HeldIsFlagged
    <3> QED
      BY <3>1, <3>2, <3>3
  <2>2. turn \in Turn /\ NoTurn.at = "idle"
    BY <1>1 DEF Shapes, NoTurn
  <2>3. ASSUME ~Hear PROVE turn.at = "idle" => turn'.at # "wait"
    <3>1. CASE SessionStep \/ UNCHANGED vars
      BY <2>2, <3>1 DEF SessionStep, Start, EndCall, CleanupCall, vars
    <3>2. ASSUME NEW m \in Managers, ManagerStep(m) PROVE turn.at = "idle" => turn'.at # "wait"
      BY <2>2, <3>2 DEF ManagerStep, Attach, TakeOver, ReleaseTakeover, Disconnect, ClearOnLeave,
                        PushWhisper, Touched, Turn
    <3>3. CASE TurnStep
      BY <2>2, <2>3, <3>3 DEF TurnStep, ReadWhispers, PopWhispers, Deliver, EndTurn, Say, Said,
                              LiveReply
    <3> QED
      BY <1>1, <3>1, <3>2, <3>3, Steps
  <2> QED
    BY <2>1, <2>3
<1> QED
  BY <1>1, Typed, HoldingAlways, PTL DEF Spec, TakeoverStopsTurns

-----------------------------------------------------------------------------
(* How often a hint is given. *)

Once(w) == given[w] > 0
Twice(w) == given[w] > 1

\* A hint waits under one key; one that waits although it was given, or that was
\* given twice, was read by a pop that another push disturbed.
OneQueue == \A w \in Whispers, k, l \in Keys : w \in queue[k] /\ w \in queue[l] => k = l
WaitsAgain == \A w \in Whispers, k \in Keys : Once(w) /\ w \in queue[k] => w \in collided
TwiceCollided == \A w \in Whispers : Twice(w) => w \in collided

\* What a pop read is still queued, and nothing else if the list was not touched.
PopReads ==
  /\ turn.at # "idle" => session = "open"
  /\ turn.at = "pop" => /\ turn.read \subseteq queue[turn.key]
                        /\ turn.watched => queue[turn.key] \subseteq turn.read

Hints == OneQueue /\ WaitsAgain /\ TwiceCollided /\ PopReads

\* What a step says of one hint.
HintStep ==
  \A w \in Whispers :
    /\ Twice(w)' => w \in collided'
    /\ \A k \in Keys : w \in queue[k] /\ w \notin queue'[k] => Once(w)' \/ session' = "cleaned"

LEMMA HintsKept == Shapes /\ Counts /\ Hints /\ [Next]_vars => Hints' /\ HintStep
<1> SUFFICES ASSUME Shapes, Counts, Hints, [Next]_vars PROVE Hints' /\ HintStep
  OBVIOUS
<1> USE DEF call, store, voice, hints
<1>0. /\ turn \in Turn /\ turn.key \in Keys /\ turn.read \subseteq Whispers
      /\ turn.watched \in BOOLEAN /\ queue \in [Keys -> SUBSET Whispers] /\ key \in Keys
      /\ collided \subseteq Whispers
  BY DEF Shapes, Turn
<1>1. ASSUME UNCHANGED <<queue, hints>>, PopReads' PROVE Hints' /\ HintStep
  <2>1. \A w \in Whispers : (Once(w)' <=> Once(w)) /\ (Twice(w)' <=> Twice(w))
    BY <1>1 DEF Once, Twice
  <2> QED
    BY <1>1, <2>1, Zenon DEF Hints, OneQueue, WaitsAgain, TwiceCollided, HintStep
<1>2. CASE SessionStep
  <2>1. CASE Start \/ EndCall
    <3>1. PopReads'
      BY <2>1 DEF Start, EndCall, Hints, PopReads, NoTurn
    <3> QED
      BY <1>1, <2>1, <3>1 DEF Start, EndCall
  <2>2. CASE CleanupCall
    <3>1. UNCHANGED hints /\ session' = "cleaned" /\ UNCHANGED turn /\ session = "ended"
      BY <2>2 DEF CleanupCall
    <3>2. \A w \in Whispers : (Once(w)' <=> Once(w)) /\ (Twice(w)' <=> Twice(w))
      BY <3>1 DEF Once, Twice
    <3>3. \A k \in Keys : queue'[k] \subseteq queue[k]
      BY <1>0, <2>2 DEF CleanupCall
    <3>4. PopReads'
      BY <3>1 DEF Hints, PopReads
    <3> QED
      BY <3>1, <3>2, <3>3, <3>4, Zenon
         DEF Hints, OneQueue, WaitsAgain, TwiceCollided, HintStep
  <2> QED
    BY <1>2, <2>1, <2>2 DEF SessionStep
<1>3. ASSUME NEW m \in Managers, ManagerStep(m) PROVE Hints' /\ HintStep
  <2>1. ASSUME NEW w \in Whispers, PushWhisper(m, w) PROVE Hints' /\ HintStep
    <3>1. UNCHANGED hints /\ UNCHANGED session /\ ~Once(w) /\ mon[m].key \in Keys
      BY <2>1 DEF PushWhisper, Once, Shapes, Counts, Monitor
    <3>2. \A v \in Whispers : (Once(v)' <=> Once(v)) /\ (Twice(v)' <=> Twice(v))
      BY <3>1 DEF Once, Twice
    <3>3. /\ \A k \in Keys : w \notin queue[k]
          /\ \A k \in Keys : queue'[k] = IF k = mon[m].key THEN queue[k] \cup {w} ELSE queue[k]
      BY <1>0, <2>1 DEF PushWhisper
    <3>4. ASSUME NEW v \in Whispers, NEW k \in Keys, NEW l \in Keys,
                 v \in queue'[k], v \in queue'[l]
          PROVE  k = l
      <4>1. CASE v = w
        BY <3>3, <3>4, <4>1
      <4>2. CASE v # w
        <5>1. v \in queue[k] /\ v \in queue[l]
          BY <3>3, <3>4, <4>2
        <5> QED
          BY <5>1, Zenon DEF Hints, OneQueue
      <4> QED
        BY <4>1, <4>2
    <3>5. WaitsAgain' /\ TwiceCollided' /\ HintStep
      BY <3>1, <3>2, <3>3 DEF Hints, WaitsAgain, TwiceCollided, HintStep
    <3>6. PopReads'
      BY <1>0, <2>1, <3>1, <3>3 DEF PushWhisper, Touched, Hints, PopReads, Turn
    <3> QED
      BY <3>4, <3>5, <3>6, Zenon DEF Hints, OneQueue
  <2>2. ASSUME UNCHANGED <<queue, hints, session, turn>> PROVE Hints' /\ HintStep
    <3>1. PopReads'
      BY <2>2 DEF Hints, PopReads
    <3> QED
      BY <1>1, <2>2, <3>1
  <2> QED
    BY <1>3, <2>1, <2>2 DEF ManagerStep, Attach, TakeOver, ReleaseTakeover, Disconnect,
                            ClearOnLeave
<1>4. CASE PopWhispers
  <2>1. \A w \in Whispers : /\ Once(w)' <=> Once(w) \/ w \in turn.read
                            /\ Twice(w)' => Twice(w) \/ (Once(w) /\ w \in turn.read)
    BY <1>4 DEF PopWhispers, Once, Twice, Counts, Most
  <2>2. /\ turn.at = "pop" /\ turn'.at = "stream" /\ session' = session
        /\ turn.watched => /\ queue' = [queue EXCEPT ![turn.key] = {}]
                           /\ collided' = collided
        /\ ~turn.watched => queue' = queue /\ collided' = collided \cup turn.read
    BY <1>4 DEF PopWhispers, NoTurn
  <2>3. /\ turn.read \subseteq queue[turn.key]
        /\ turn.watched => queue[turn.key] \subseteq turn.read
    BY <2>2 DEF Hints, PopReads
  <2>4. \A k \in Keys : /\ queue'[k] \subseteq queue[k]
                        /\ turn.watched => queue'[k] = IF k = turn.key THEN {} ELSE queue[k]
                        /\ ~turn.watched => queue'[k] = queue[k]
    BY <1>0, <2>2
  <2>5. collided \subseteq collided' /\ (~turn.watched => turn.read \subseteq collided')
    BY <2>2
  <2>6. OneQueue' /\ PopReads'
    BY <2>2, <2>4 DEF Hints, OneQueue, PopReads
  <2>7. WaitsAgain'
    BY <1>0, <2>1, <2>3, <2>4, <2>5 DEF Hints, OneQueue, WaitsAgain
  <2>8. \A w \in Whispers : Twice(w)' => w \in collided'
    BY <1>0, <2>1, <2>3, <2>5 DEF Hints, WaitsAgain, TwiceCollided
  <2>9. HintStep
    BY <1>0, <2>1, <2>3, <2>4, <2>8 DEF HintStep
  <2> QED
    BY <2>6, <2>7, <2>8, <2>9, Zenon DEF Hints, TwiceCollided
<1>5. CASE TurnStep /\ ~PopWhispers
  <2>1. UNCHANGED <<queue, hints, session>>
    BY <1>5 DEF TurnStep, Hear, ReadWhispers, Deliver, EndTurn, Say, Said, LiveReply
  <2>2. CASE UNCHANGED turn
    <3>1. PopReads'
      BY <2>1, <2>2 DEF Hints, PopReads
    <3> QED
      BY <1>1, <2>1, <3>1
  <2>3. CASE Hear \/ EndTurn
    <3>1. PopReads'
      BY <1>0, <2>1, <2>3 DEF Hear, EndTurn, NoTurn, Hints, PopReads, Turn
    <3> QED
      BY <1>1, <2>1, <3>1
  <2>4. CASE ReadWhispers
    <3>1. turn.at = "wait"
      BY <2>4 DEF ReadWhispers
    <3>2. \/ turn'.at = "stream"
          \/ turn'.at = "pop" /\ turn'.key = key /\ turn'.read = queue[key]
      BY <1>0, <2>4 DEF ReadWhispers, Turn
    <3>3. PopReads'
      BY <2>1, <3>1, <3>2 DEF Hints, PopReads
    <3> QED
      BY <1>1, <2>1, <3>3
  <2> QED
    BY <1>5, <2>2, <2>3, <2>4 DEF TurnStep, Deliver, Say, Said, LiveReply
<1>6. CASE UNCHANGED vars
  <2>1. PopReads'
    BY <1>6 DEF vars, Hints, PopReads
  <2> QED
    BY <1>1, <1>6, <2>1 DEF vars
<1> QED
  BY <1>2, <1>3, <1>4, <1>5, <1>6, Steps DEF TurnStep

\* For any number of hints and managers, a hint is lost only with the call and
\* given to a second turn only after a collision.
THEOREM HintsGivenOnce == Spec => HintGivenOnce
<1>1. Init => Hints
  <2>1. ASSUME Init PROVE (\A w \in Whispers : ~Once(w) /\ ~Twice(w))
    BY <2>1 DEF Init, Once, Twice
  <2>2. ASSUME Init PROVE OneQueue /\ PopReads /\ \A w \in Whispers, k \in Keys : w \notin queue[k]
    BY <2>2 DEF Init, NoTurn, OneQueue, PopReads
  <2> QED
    BY <2>1, <2>2, Zenon DEF Hints, WaitsAgain, TwiceCollided
<1>2. HintStep => \A w \in Whispers :
                    /\ given'[w] > 1 => w \in collided'
                    /\ \A k \in Keys : w \in queue[k] /\ w \notin queue'[k]
                                      => given'[w] > 0 \/ session' = "cleaned"
  BY DEF HintStep, Once, Twice
<1> QED
  BY <1>1, <1>2, HintsKept, Typed, PTL DEF Spec, HintGivenOnce

-----------------------------------------------------------------------------
(* CallSession. *)

USE TranscriptCapAssumption, SentenceCapAssumption, TimerCapAssumption

\* The parts of the type invariant.
FlagTypes ==
  /\ pending \in BOOLEAN /\ active \in BOOLEAN /\ hangupReq \in BOOLEAN
  /\ finalReq \in BOOLEAN /\ mdWait \in BOOLEAN /\ mdClosing \in BOOLEAN
  /\ open \in BOOLEAN /\ lost \in BOOLEAN /\ tookBack \in BOOLEAN

TimerTypes == deadlines \in 0..TimerCap /\ clears \in 0..TimerCap

QueueTypes ==
  /\ transcripts \in 0..TranscriptCap
  /\ ttsQ \in Seq(Speaking \cup {End}) /\ Len(ttsQ) <= SentenceCap

ProcTypes ==
  /\ stt \in [at : {"idle", "confirm", "recover", "unhang", "send"},
              text : {Final, Partial}]
  /\ pipe \in {"idle", "gate", "turn", "sentence", "spoke", "bye", "inferred", "end"}
  /\ worker \in {"idle", "draining", "gone"} \cup Speaking
  /\ limit \in {"none", "armed", "waiting", "bye", "end", "force"}

\* They make up the type invariant.
LEMMA CallTypeParts == CallTypeOK <=> FlagTypes /\ TimerTypes /\ QueueTypes /\ ProcTypes
BY DEF CallTypeOK, FlagTypes, TimerTypes, QueueTypes, ProcTypes, flags

\* The atomic flags stay Boolean.
LEMMA FlagsKept == FlagTypes /\ [CallNext]_callVars => FlagTypes'
<1> SUFFICES ASSUME FlagTypes, [CallNext]_callVars PROVE FlagTypes'
  OBVIOUS
<1> USE DEF FlagTypes, flags, history
<1>1. CASE DeadlinePasses \/ ClearPasses
  BY <1>1 DEF DeadlinePasses, ClearPasses
<1>2. CASE Customer
  BY <1>2 DEF Customer, SpeechStarts, HearNoise, HearPartial, HearFinal, CallEnds, Close
<1>3. CASE Stt
  BY <1>3 DEF Stt, Interrupt, ClearHangup, SendTranscript, Queued, IsFinalClosing
<1>4. CASE Pipe
  BY <1>4 DEF Pipe, TakeTranscript, EnterTurn, QueueSentence, InferClose, QueueBye, QueueEnd,
              RequestFinalClose, RequestMaxDurationClose
<1>5. CASE Reply
  BY <1>5 DEF Reply, StreamSentence, CompleteCall, Farewell, EndReply, RequestFinalClose
<1>6. CASE Worker
  BY <1>6 DEF Worker, TakeSentence, FinishSentence, HangUp, AbortHangUp, Close
<1>7. CASE Limit
  BY <1>7 DEF Limit, HardLimit, NoReply, LimitBye, ForceHangUp, Close, RequestMaxDurationClose
<1>8. CASE UNCHANGED callVars
  BY <1>8 DEF callVars
<1> QED
  BY <1>1, <1>2, <1>3, <1>4, <1>5, <1>6, <1>7, <1>8 DEF CallNext

\* A step that silences the agent, or sets a barge-in pending, starts the
\* goroutine that will lift it, and each goroutine lifts it when it wakes.
LEMMA TimersKept ==
  TimerTypes /\ FlagTypes /\ BargeInExpires /\ [CallNext]_callVars => TimerTypes' /\ BargeInExpires'
<1> SUFFICES ASSUME TimerTypes, FlagTypes, BargeInExpires, [CallNext]_callVars
             PROVE  TimerTypes' /\ BargeInExpires'
  OBVIOUS
<1> USE DEF TimerTypes, FlagTypes, BargeInExpires, flags, timers
<1>1. CASE DeadlinePasses \/ ClearPasses
  BY <1>1 DEF DeadlinePasses, ClearPasses
<1>2. CASE Customer
  BY <1>2 DEF Customer, SpeechStarts, HearNoise, HearPartial, HearFinal, CallEnds, Close
<1>3. CASE Stt
  BY <1>3 DEF Stt, Interrupt, ClearHangup, SendTranscript
<1>4. CASE Pipe
  BY <1>4 DEF Pipe, TakeTranscript, EnterTurn, QueueSentence, InferClose, QueueBye, QueueEnd,
              RequestFinalClose, RequestMaxDurationClose
<1>5. CASE Reply
  BY <1>5 DEF Reply, StreamSentence, CompleteCall, Farewell, EndReply, RequestFinalClose
<1>6. CASE Worker
  BY <1>6 DEF Worker, TakeSentence, FinishSentence, HangUp, AbortHangUp, Close
<1>7. CASE Limit
  BY <1>7 DEF Limit, HardLimit, NoReply, LimitBye, ForceHangUp, Close, RequestMaxDurationClose
<1>8. CASE UNCHANGED callVars
  BY <1>8 DEF callVars
<1> QED
  BY <1>1, <1>2, <1>3, <1>4, <1>5, <1>6, <1>7, <1>8 DEF CallNext

\* What a send to TTSSentences does to the queue.
LEMMA Sent ==
  ASSUME QueueTypes, NEW x \in Speaking \cup {End}, Send(x) \/ SendOrDrop(x)
  PROVE  /\ ttsQ' \in Seq(Speaking \cup {End}) /\ Len(ttsQ') <= SentenceCap
         /\ Queued(End) => Queued(End)'
         /\ Queued(End)' => Queued(End) \/ x = End
<1>1. ttsQ' = ttsQ \/ (Len(ttsQ) < SentenceCap /\ ttsQ' = Append(ttsQ, x))
  BY DEF Send, SendOrDrop
<1>2. CASE ttsQ' = ttsQ
  BY <1>2 DEF QueueTypes, Queued
<1>3. CASE Len(ttsQ) < SentenceCap /\ ttsQ' = Append(ttsQ, x)
  <2>1. /\ ttsQ' \in Seq(Speaking \cup {End}) /\ Len(ttsQ') = Len(ttsQ) + 1
        /\ \A i \in DOMAIN ttsQ : i \in DOMAIN ttsQ' /\ ttsQ'[i] = ttsQ[i]
        /\ \A i \in DOMAIN ttsQ' : i \in DOMAIN ttsQ \/ ttsQ'[i] = x
    BY <1>3 DEF QueueTypes
  <2> QED
    BY <1>3, <2>1 DEF QueueTypes, Queued
<1> QED
  BY <1>1, <1>2, <1>3

\* A blocking send of the sentinel puts it there.
LEMMA EndSent ==
  ASSUME QueueTypes, Send(End) PROVE Queued(End)'
<1>1. Len(ttsQ) \in Nat /\ ttsQ' = Append(ttsQ, End)
  BY DEF QueueTypes, Send
<1>2. Len(ttsQ) + 1 \in DOMAIN ttsQ' /\ ttsQ'[Len(ttsQ) + 1] = End
  BY <1>1 DEF QueueTypes
<1> QED
  BY <1>2 DEF Queued

\* The worker takes the sentinel, or leaves it in the queue.
LEMMA Taken ==
  ASSUME QueueTypes, ttsQ # <<>>, ttsQ' = Tail(ttsQ)
  PROVE  /\ Head(ttsQ) \in Speaking \cup {End}
         /\ ttsQ' \in Seq(Speaking \cup {End}) /\ Len(ttsQ') <= SentenceCap
         /\ Queued(End) <=> Head(ttsQ) = End \/ Queued(End)'
<1>1. /\ Len(ttsQ) \in Nat \ {0} /\ Head(ttsQ) = ttsQ[1] /\ Head(ttsQ) \in Speaking \cup {End}
      /\ ttsQ' \in Seq(Speaking \cup {End}) /\ Len(ttsQ') = Len(ttsQ) - 1
      /\ \A i \in 1..Len(ttsQ) - 1 : ttsQ'[i] = ttsQ[i + 1]
  BY DEF QueueTypes
<1>2. ASSUME NEW i \in DOMAIN ttsQ, ttsQ[i] = End, Head(ttsQ) # End PROVE Queued(End)'
  <2>1. i - 1 \in DOMAIN ttsQ' /\ ttsQ'[i - 1] = End
    BY <1>1, <1>2 DEF QueueTypes
  <2> QED
    BY <2>1 DEF Queued
<1>3. ASSUME NEW i \in DOMAIN ttsQ', ttsQ'[i] = End PROVE Queued(End)
  <2>1. i + 1 \in DOMAIN ttsQ /\ ttsQ[i + 1] = End
    BY <1>1, <1>3 DEF QueueTypes
  <2> QED
    BY <2>1 DEF Queued
<1>4. 1 \in DOMAIN ttsQ
  BY <1>1 DEF QueueTypes
<1> QED
  BY <1>1, <1>2, <1>3, <1>4 DEF QueueTypes, Queued

\* The channels stay within their room.
LEMMA QueuesKept == QueueTypes /\ [CallNext]_callVars => QueueTypes'
<1> SUFFICES ASSUME QueueTypes, [CallNext]_callVars PROVE QueueTypes'
  OBVIOUS
<1> USE DEF queues
<1>1. CASE \/ QueueSentence \/ Farewell \/ QueueBye \/ QueueEnd \/ LimitBye
  <2>1. UNCHANGED transcripts
    BY <1>1 DEF QueueSentence, Farewell, QueueBye, QueueEnd, LimitBye
  <2>2. \E x \in Speaking \cup {End} : Send(x) \/ SendOrDrop(x)
    BY <1>1 DEF QueueSentence, Farewell, QueueBye, QueueEnd, LimitBye, Speaking
  <2> QED
    BY <2>1, <2>2, Sent DEF QueueTypes
<1>2. CASE TakeSentence
  BY <1>2, Taken DEF TakeSentence, QueueTypes
<1>3. CASE ttsQ' = <<>> /\ transcripts' \in {transcripts, 0}
  BY <1>3 DEF QueueTypes
<1>4. CASE ttsQ' = ttsQ /\ transcripts' \in 0..TranscriptCap
  BY <1>4 DEF QueueTypes
<1>5. CASE SendTranscript
  BY <1>5, <1>4 DEF SendTranscript, QueueTypes
<1>6. CASE TakeTranscript
  BY <1>6, <1>4 DEF TakeTranscript, QueueTypes
<1>7. \/ QueueSentence \/ Farewell \/ QueueBye \/ QueueEnd \/ LimitBye \/ TakeSentence
      \/ SendTranscript \/ TakeTranscript
      \/ ttsQ' = <<>> /\ transcripts' \in {transcripts, 0}
      \/ ttsQ' = ttsQ /\ transcripts' = transcripts
  BY DEF CallNext, DeadlinePasses, ClearPasses,
     Customer, SpeechStarts, HearNoise, HearPartial, HearFinal, CallEnds, Close,
     Stt, Interrupt, ClearHangup, Pipe, EnterTurn, InferClose, Reply, StreamSentence, CompleteCall,
     EndReply, Worker, FinishSentence, HangUp, AbortHangUp, Limit, HardLimit, NoReply, ForceHangUp,
     callVars
<1> QED
  BY <1>1, <1>2, <1>3, <1>4, <1>5, <1>6, <1>7 DEF QueueTypes

\* Each goroutine stays at one of its places.
LEMMA ProcsKept == QueueTypes /\ ProcTypes /\ [CallNext]_callVars => ProcTypes'
<1> SUFFICES ASSUME QueueTypes, ProcTypes, [CallNext]_callVars PROVE ProcTypes'
  OBVIOUS
<1> USE DEF ProcTypes, procs, Speaking, Listening, CancelActiveTTS
<1>1. CASE DeadlinePasses \/ ClearPasses
  BY <1>1 DEF DeadlinePasses, ClearPasses
<1>2. CASE Customer
  BY <1>2 DEF Customer, SpeechStarts, HearNoise, HearPartial, HearFinal, CallEnds, Close
<1>3. CASE Stt
  BY <1>3 DEF Stt, Interrupt, ClearHangup, SendTranscript
<1>4. CASE Pipe
  BY <1>4 DEF Pipe, TakeTranscript, EnterTurn, QueueSentence, InferClose, QueueBye, QueueEnd
<1>5. CASE Reply
  BY <1>5 DEF Reply, StreamSentence, CompleteCall, Farewell, EndReply
<1>6. CASE Worker
  <2>1. CASE TakeSentence
    <3>1. Head(ttsQ) \in Speaking \cup {End}
      BY <2>1, Taken DEF TakeSentence
    <3> QED
      BY <2>1, <3>1 DEF TakeSentence
  <2> QED
    BY <1>6, <2>1 DEF Worker, FinishSentence, HangUp, AbortHangUp, Close
<1>7. CASE Limit
  BY <1>7 DEF Limit, HardLimit, NoReply, LimitBye, ForceHangUp, Close
<1>8. CASE UNCHANGED callVars
  BY <1>8 DEF callVars
<1> QED
  BY <1>1, <1>2, <1>3, <1>4, <1>5, <1>6, <1>7, <1>8 DEF CallNext

\* What is kept together: the types and the barge-in goroutines.
TypedInv == FlagTypes /\ TimerTypes /\ QueueTypes /\ ProcTypes /\ BargeInExpires

LEMMA CallTyped == CallSpec => []TypedInv
<1>1. CallInit => TypedInv
  <2> SUFFICES ASSUME CallInit PROVE TypedInv
    OBVIOUS
  <2>1. FlagTypes
    BY DEF CallInit, FlagTypes
  <2>2. TimerTypes /\ QueueTypes
    BY DEF CallInit, TimerTypes, QueueTypes
  <2>3. ProcTypes
    BY DEF CallInit, ProcTypes, Listening
  <2>4. BargeInExpires
    BY DEF CallInit, BargeInExpires
  <2> QED
    BY <2>1, <2>2, <2>3, <2>4 DEF TypedInv
<1>2. TypedInv /\ [CallNext]_callVars => TypedInv'
  BY FlagsKept, TimersKept, QueuesKept, ProcsKept DEF TypedInv
<1> QED
  BY <1>1, <1>2, PTL DEF CallSpec

\* The flags, timers, channels and goroutines of a session have their types,
\* and the channels their bounds, in every reachable state.
THEOREM CallTypeCorrect == CallSpec => []CallTypeOK
<1>1. TypedInv => CallTypeOK
  BY CallTypeParts DEF TypedInv
<1> QED
  BY <1>1, CallTyped, PTL

\* interruptActiveTTS and TentativeTriggerBargeIn: while a barge-in silences
\* the agent or is pending, a goroutine that will lift it is asleep.
THEOREM BargeInAlwaysExpires == CallSpec => []BargeInExpires
<1>1. TypedInv => BargeInExpires
  BY DEF TypedInv
<1> QED
  BY <1>1, CallTyped, PTL

-----------------------------------------------------------------------------
\* A close is on its way to the socket.
ClosePending ==
  \/ worker = "draining" \/ Queued(End) \/ pipe \in {"bye", "end"}
  \/ limit \in {"bye", "end", "force"}

\* It was requested, and if it is not any more an interruption took it back;
\* only then does the worker leave a call that is open.
EndIsRequested ==
  /\ ClosePending => hangupReq \/ IsFinalClosing \/ tookBack
  /\ open /\ worker = "gone" => tookBack

\* While the worker is there, a requested close has somebody who will end the
\* call, or its sentinel was discarded.  Between its drain of the queue and
\* its ClearHangup a confirmed interruption owes only a final close.
CloserStays ==
  open /\ worker # "gone" /\ (IsFinalClosing \/ (hangupReq /\ stt.at # "unhang"))
    => Closer \/ lost

CloseInv == TypedInv /\ EndIsRequested /\ CloserStays

LEMMA CloseKept == CloseInv /\ [CallNext]_callVars => EndIsRequested' /\ CloserStays'
<1> SUFFICES ASSUME CloseInv, [CallNext]_callVars PROVE EndIsRequested' /\ CloserStays'
  OBVIOUS
<1> USE DEF CloseInv, TypedInv, EndIsRequested, CloserStays, ClosePending, Closer, IsFinalClosing,
            FlagTypes, ProcTypes, Speaking, Listening, Line, Bye, End, Final, Partial
<1>q. ttsQ' = ttsQ => (Queued(End)' <=> Queued(End))
  BY DEF Queued
<1>n. ttsQ' = <<>> => ~Queued(End)'
  BY DEF Queued
<1>1. CASE DeadlinePasses \/ ClearPasses
  BY <1>q, <1>1 DEF DeadlinePasses, ClearPasses, queues, procs, history
<1>2. CASE SpeechStarts \/ HearNoise \/ HearPartial \/ HearFinal
  BY <1>q, <1>2 DEF SpeechStarts, HearNoise, HearPartial, HearFinal, queues, procs, history, timers
<1>3. CASE Close
  BY <1>n, <1>3 DEF Close, flags, history
<1>4. CASE Interrupt
  <2>1. /\ UNCHANGED <<hangupReq, finalReq, mdClosing, pipe, limit, open, tookBack>>
        /\ worker' = "gone" <=> worker = "gone"
        /\ worker' = "draining" <=> worker = "draining"
        /\ stt'.at # "unhang" => stt.at = "recover"
        /\ ttsQ' = <<>>
        /\ lost' = (lost \/ (Queued(End) /\ (stt.at = "recover" \/ IsFinalClosing)))
    BY <1>4 DEF Interrupt, CancelActiveTTS
  <2>2. EndIsRequested'
    BY <2>1, <1>n
  <2>3. ASSUME open, worker # "gone", IsFinalClosing \/ (hangupReq /\ stt'.at # "unhang")
        PROVE  Closer' \/ lost'
    <3>1. Closer \/ lost
      BY <2>1, <2>3
    <3>2. Queued(End) => lost'
      BY <2>1, <2>3
    <3> QED
      BY <2>1, <2>3, <3>1, <3>2
  <2> QED
    BY <2>1, <2>2, <2>3
<1>5. CASE ClearHangup
  BY <1>q, <1>5 DEF ClearHangup, queues
<1>6. CASE SendTranscript
  BY <1>q, <1>6 DEF SendTranscript, flags, history
<1>7. CASE TakeTranscript
  BY <1>q, <1>7 DEF TakeTranscript, history, CancelActiveTTS
<1>8. CASE EnterTurn \/ InferClose
  BY <1>q, <1>8 DEF EnterTurn, InferClose, flags, queues, history, RequestFinalClose, RequestMaxDurationClose
<1>9. CASE StreamSentence \/ CompleteCall \/ EndReply
  BY <1>q, <1>9 DEF StreamSentence, CompleteCall, EndReply, flags, queues, history, RequestFinalClose
<1>10. CASE QueueSentence \/ Farewell \/ QueueBye \/ LimitBye
  <2>1. Queued(End) => Queued(End)'
    BY <1>10, Sent DEF QueueSentence, Farewell, QueueBye, LimitBye
  <2>2. Queued(End)' => Queued(End) \/ limit = "end"
    BY <1>10, Sent DEF QueueSentence, Farewell, QueueBye, LimitBye
  <2> QED
    BY <1>10, <2>1, <2>2 DEF QueueSentence, Farewell, QueueBye, LimitBye, flags, history
<1>11. CASE QueueEnd
  BY <1>11, EndSent DEF QueueEnd, flags, history
<1>12. CASE TakeSentence
  <2>1. Queued(End) <=> Head(ttsQ) = End \/ Queued(End)'
    BY <1>12, Taken DEF TakeSentence
  <2>2. Head(ttsQ) \in {Line, Bye, End}
    BY <1>12, Taken DEF TakeSentence
  <2> QED
    BY <1>12, <2>1, <2>2 DEF TakeSentence, flags, history
<1>13. CASE FinishSentence \/ AbortHangUp
  BY <1>q, <1>13 DEF FinishSentence, AbortHangUp, flags, queues, history
<1>14. CASE HardLimit \/ NoReply
  BY <1>q, <1>14 DEF HardLimit, NoReply, flags, queues, history, RequestMaxDurationClose
<1>15. CASE UNCHANGED callVars
  BY <1>q, <1>15 DEF callVars, flags, queues, procs, history
<1> QED
  BY <1>1, <1>2, <1>3, <1>4, <1>5, <1>6, <1>7, <1>8, <1>9, <1>10, <1>11, <1>12, <1>13, <1>14, <1>15
  DEF CallNext, Customer, CallEnds, Stt, Pipe, Reply, Worker, HangUp, Limit, ForceHangUp

LEMMA CloseInvariant == CallSpec => []CloseInv
<1>1. CallInit => EndIsRequested /\ CloserStays
  BY DEF CallInit, EndIsRequested, CloserStays, ClosePending, Queued, IsFinalClosing
<1> QED
  BY <1>1, CloseKept, CallTyped, PTL DEF CallSpec, CloseInv

\* runTTSWorker, ConfirmBargeIn and the duration limit: a requested hang-up or
\* final close is stranded only when an interruption discarded its sentinel, or
\* took a hang-up back and the worker left.
THEOREM StrandedOnlyWhenInterrupted == CallSpec => []StrandedOnlyByInterruption
<1>1. CloseInv => StrandedOnlyByInterruption
  BY DEF CloseInv, EndIsRequested, CloserStays, StrandedOnlyByInterruption
<1> QED
  BY <1>1, CloseInvariant, PTL
=============================================================================
