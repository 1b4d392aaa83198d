--------------------------- MODULE PostCallProofs ---------------------------
(***************************************************************************)
(* Proofs about PostCall: its types, that a call gets a second row only in *)
(* a race, and that what was said and recorded is on a row in the end.     *)
(*                                                                         *)
(* The effects of the statements on the rows are stated once, pointwise    *)
(* (FillEffect ... InsertUploadEffect), then a step as one finalizer       *)
(* (OwnStep) and one upload (OwnUpload) sees it.  The parts of the         *)
(* inductive invariant are proved from these.                              *)
(***************************************************************************)
EXTENDS PostCall, TLAPS

USE BoundsAssumption

\* The typing of the variables that are no function and no sequence.
ScalarTypes ==
  /\ sim \in BOOLEAN /\ turns \in 0..MaxTurns /\ buffer \in BOOLEAN
  /\ socket \in BOOLEAN /\ listed \in BOOLEAN /\ faults \in 0..MaxFaults /\ heard \in BOOLEAN

\* Before its look at the table a finalizer knows of no row; after "url" or
\* "conclude" what it had to write is written.
Early == {"none", "sleep", "loop", "wait", "drain", "wav", "lookup"}
Written == {"url", "conclude", "end"}

\* A request names only rows that exist; the row to fill is known from the look
\* to the write, and an upload that still polls has looks left.
RowsKnown ==
  /\ \A f \in Finalizers :
       /\ fin[f].row \in 0..Len(rows) /\ fin[f].seen \in 0..Len(rows)
       /\ fin[f].at \in Early => fin[f].row = NoRow
       /\ fin[f].at \in {"fill", "url"} => fin[f].row # NoRow
  /\ \A u \in Uploads :
       /\ upl[u].at = "attach" => upl[u].row \in 1..Len(rows)
       /\ upl[u].at \in {"none", "poll"} => upl[u].polls < MaxPolls
       /\ upl[u].seen \in 0..Len(rows)

\* The handler and the forced closes are the finalizers; none is a mark of a row.
LEMMA Actors ==
  /\ Handler \in Finalizers /\ Forced \subseteq Finalizers
  /\ "none" \notin Finalizers /\ "webm" \notin Finalizers
BY ActorsAssumption DEF Finalizers

\* Every step keeps the types of the plain variables.
LEMMA ScalarsKept == TypeOK /\ [Next]_vars => ScalarTypes'
<1> SUFFICES ASSUME TypeOK, [Next]_vars PROVE ScalarTypes'
  OBVIOUS
<1>t. ScalarTypes
  BY DEF TypeOK, ScalarTypes
<1>f. Fault => faults' \in 0..MaxFaults
  BY <1>t DEF Fault, ScalarTypes
<1> USE <1>t, <1>f DEF ScalarTypes
<1>c. CASE Converse
  BY <1>c DEF Converse
<1>1. CASE Record \/ LoopEnds \/ Waited \/ Leave
  BY <1>1 DEF Record, LoopEnds, Waited, Leave
<1>2. ASSUME NEW f \in Forced, CloseCall(f) \/ Wake(f) PROVE ScalarTypes'
  BY <1>2 DEF CloseCall, Wake
<1>3. ASSUME NEW f \in Finalizers, Finalize(f) PROVE ScalarTypes'
  BY <1>3 DEF Finalize, Drain, SaveWav, LookUp, Fill, FillUrl, Insert, Conclude
<1>4. ASSUME NEW u \in Uploads, Attaching(u) PROVE ScalarTypes'
  BY <1>4 DEF Attaching, StartUpload, PollFound, PollNone, Attach, InsertUpload, Abandon
<1>5. CASE UNCHANGED vars
  BY <1>5 DEF vars
<1> QED
  BY <1>c, <1>1, <1>2, <1>3, <1>4, <1>5 DEF Next

\* UPDATE ... SET transcript: one field of one row changes.
LEMMA TurnsWritten ==
  ASSUME NEW s \in Seq(Row), NEW n \in 1..Len(s), NEW t \in 0..MaxTurns
  PROVE  LET r == [s EXCEPT ![n].turns = t]
         IN /\ r \in Seq(Row) /\ Len(r) = Len(s)
            /\ r[n].turns = t /\ r[n].rec = s[n].rec /\ r[n].by = s[n].by /\ r[n].seen = s[n].seen
            /\ \A i \in 1..Len(s) : i # n => r[i] = s[i]
<1> DEFINE e == [s[n] EXCEPT !.turns = t]
<1>1. s[n] \in Row
  OBVIOUS
<1>2. e \in Row /\ e.turns = t /\ e.rec = s[n].rec /\ e.by = s[n].by /\ e.seen = s[n].seen
  BY <1>1 DEF Row
<1>3. [s EXCEPT ![n].turns = t] = [s EXCEPT ![n] = e]
  OBVIOUS
<1> HIDE DEF e
<1> QED
  BY <1>2, <1>3

\* What can be attached to a row.
Recordings == {"webm"} \cup Finalizers

\* UPDATE ... SET recording_url: one field of one row changes.
LEMMA RecordingWritten ==
  ASSUME NEW s \in Seq(Row), NEW n \in 1..Len(s), NEW c \in Recordings,
         NEW r, r = [s EXCEPT ![n].rec = c]
  PROVE  /\ r \in Seq(Row) /\ Len(r) = Len(s)
         /\ r[n].rec = c /\ r[n].turns = s[n].turns /\ r[n].by = s[n].by /\ r[n].seen = s[n].seen
         /\ \A i \in 1..Len(s) : i # n => r[i] = s[i]
<1> DEFINE e == [s[n] EXCEPT !.rec = c]
<1>1. s[n] \in Row
  OBVIOUS
<1>2. e \in Row /\ e.turns = s[n].turns /\ e.rec = c /\ e.by = s[n].by /\ e.seen = s[n].seen
  BY <1>1 DEF Row, Recordings
<1>3. r = [s EXCEPT ![n] = e]
  OBVIOUS
<1> HIDE DEF e
<1> QED
  BY <1>2, <1>3

\* INSERT: the earlier rows stay as they are.
LEMMA RowAdded ==
  ASSUME NEW s \in Seq(Row), NEW e \in Row
  PROVE  LET r == Append(s, e)
         IN /\ r \in Seq(Row) /\ Len(r) = Len(s) + 1 /\ r[Len(s) + 1] = e
            /\ \A i \in 1..Len(s) : r[i] = s[i]
OBVIOUS

\* What the effects of the steps are stated under.
Base == TypeOK /\ RowsKnown

\* f alone goes from one place to another, with its request as it was.
Only(f) == \A g \in Finalizers : g # f => fin'[g] = fin[g]
Moved(f, from, to) ==
  /\ fin[f].at = from /\ fin'[f].at = to /\ Only(f)
  /\ fin'[f].turns = fin[f].turns /\ fin'[f].audio = fin[f].audio
  /\ fin'[f].row = fin[f].row /\ fin'[f].seen = fin[f].seen

\* The same of an upload.
OnlyUpl(u) == \A v \in Uploads : v # u => upl'[v] = upl[v]
UplMoved(u, from, to) ==
  /\ upl[u].at = from /\ upl'[u].at = to /\ OnlyUpl(u)
  /\ upl'[u].polls = upl[u].polls /\ upl'[u].row = upl[u].row /\ upl'[u].seen = upl[u].seen

\* An upload that only goes on keeps its fields.
LEMMA UplMoves ==
  ASSUME TypeOK, NEW u \in Uploads, NEW from, NEW to, upl[u].at = from,
         upl' = [upl EXCEPT ![u].at = to]
  PROVE  UplMoved(u, from, to)
<1>1. upl \in [Uploads -> Upload]
  BY DEF TypeOK
<1> QED
  BY <1>1 DEF UplMoved, OnlyUpl, Upload

\* Goto moves one finalizer and leaves its request alone.
LEMMA GotoMoves ==
  ASSUME TypeOK, NEW f \in Finalizers, NEW from, NEW to, fin[f].at = from, Goto(f, to)
  PROVE  Moved(f, from, to)
<1>1. fin \in [Finalizers -> Request]
  BY DEF TypeOK
<1> QED
  BY <1>1 DEF Goto, Moved, Only, Request

\* What a row keeps when turns, or its recording, are written into it.
Edited(n) ==
  /\ n \in 1..Len(rows)
  /\ rows' \in Seq(Row) /\ Len(rows') = Len(rows)
  /\ rows'[n].seen = rows[n].seen /\ rows'[n].by = rows[n].by
  /\ \A i \in 1..Len(rows) : i # n => rows'[i] = rows[i]

\* What the rows keep when one is added.
Added ==
  /\ rows' \in Seq(Row) /\ Len(rows') = Len(rows) + 1
  /\ \A i \in 1..Len(rows) : rows'[i] = rows[i]

\* The effect of each write, on the writer and on the rows.
FillEffect(f) ==
  \/ rows' = rows /\ faults' > 0 /\ Moved(f, "fill", "insert")
  \/ /\ Moved(f, "fill", IF fin[f].audio THEN "url" ELSE "conclude")
     /\ Edited(fin[f].row)
     /\ rows'[fin[f].row].turns = fin[f].turns /\ rows'[fin[f].row].rec = rows[fin[f].row].rec

FillUrlEffect(f) ==
  /\ Moved(f, "url", "conclude")
  /\ \/ rows' = rows /\ faults' > 0
     \/ /\ Edited(fin[f].row)
        /\ rows'[fin[f].row].rec = f /\ rows'[fin[f].row].turns = rows[fin[f].row].turns

InsertEffect(f) ==
  \/ rows' = rows /\ faults' > 0 /\ Moved(f, "insert", "end")
  \/ /\ Moved(f, "insert", "conclude") /\ Added
     /\ rows'[Len(rows')].turns = fin[f].turns /\ rows'[Len(rows')].seen = fin[f].seen
     /\ rows'[Len(rows')].by = f
     /\ rows'[Len(rows')].rec = (IF fin[f].audio THEN f ELSE "none")

AttachEffect(u) ==
  /\ UplMoved(u, "attach", "end")
  /\ \/ rows' = rows /\ faults' > 0
     \/ /\ Edited(upl[u].row)
        /\ rows'[upl[u].row].rec = "webm" /\ rows'[upl[u].row].turns = rows[upl[u].row].turns

InsertUploadEffect(u) ==
  /\ UplMoved(u, "insert", "end")
  /\ \/ rows' = rows /\ faults' > 0
     \/ /\ Added
        /\ rows'[Len(rows')].turns = 0 /\ rows'[Len(rows')].seen = upl[u].seen
        /\ rows'[Len(rows')].rec = "webm" /\ rows'[Len(rows')].by = u

\* A failure is counted.
LEMMA FaultCounts == TypeOK /\ Fault => faults' > 0 /\ faults' \in 0..MaxFaults
BY DEF TypeOK, Fault

\* The UPDATE of an empty row: the row the look found exists, and of it only the
\* transcript changes.
LEMMA FillWrites == ASSUME Base, NEW f \in Finalizers, Fill(f) PROVE FillEffect(f)
<1>t. fin[f] \in Request /\ rows \in Seq(Row)
  BY DEF Base, TypeOK
<1>0. fin[f].at = "fill"
  BY DEF Fill
<1>2. CASE Goto(f, "insert") /\ Fault /\ UNCHANGED rows
  BY <1>0, <1>2, FaultCounts, GotoMoves DEF Base, FillEffect
<1>3. CASE rows' = [rows EXCEPT ![fin[f].row].turns = fin[f].turns]
           /\ Goto(f, IF fin[f].audio THEN "url" ELSE "conclude")
  <2>1. fin[f].row \in 1..Len(rows) /\ fin[f].turns \in 0..MaxTurns
    BY <1>0, <1>t DEF Base, RowsKnown, NoRow, Request
  <2>2. Edited(fin[f].row) /\ rows'[fin[f].row].turns = fin[f].turns
        /\ rows'[fin[f].row].rec = rows[fin[f].row].rec
    BY <2>1, <1>3, <1>t, TurnsWritten DEF Edited
  <2>3. Moved(f, "fill", IF fin[f].audio THEN "url" ELSE "conclude")
    BY <1>0, <1>3, GotoMoves DEF Base
  <2> QED
    BY <2>2, <2>3 DEF FillEffect
<1> QED
  BY <1>2, <1>3 DEF Fill

\* The UPDATE of the recording in a row that was filled.
LEMMA FillUrlWrites == ASSUME Base, NEW f \in Finalizers, FillUrl(f) PROVE FillUrlEffect(f)
<1>t. fin[f] \in Request /\ rows \in Seq(Row)
  BY DEF Base, TypeOK
<1>0. fin[f].at = "url" /\ Moved(f, "url", "conclude")
  BY GotoMoves DEF Base, FillUrl
<1>2. CASE Fault /\ UNCHANGED rows
  BY <1>0, <1>2, FaultCounts DEF Base, FillUrlEffect
<1>3. CASE rows' = [rows EXCEPT ![fin[f].row].rec = f]
  <2>1. fin[f].row \in 1..Len(rows)
    BY <1>0, <1>t DEF Base, RowsKnown, NoRow, Request
  <2>2. Edited(fin[f].row) /\ rows'[fin[f].row].rec = f
        /\ rows'[fin[f].row].turns = rows[fin[f].row].turns
    <3> DEFINE n == fin[f].row
    <3>1. /\ rows' \in Seq(Row) /\ Len(rows') = Len(rows)
          /\ rows'[n].rec = f /\ rows'[n].turns = rows[n].turns
          /\ rows'[n].by = rows[n].by /\ rows'[n].seen = rows[n].seen
          /\ \A i \in 1..Len(rows) : i # n => rows'[i] = rows[i]
      <4>1. f \in Recordings
        BY DEF Recordings
      <4> QED
        BY <2>1, <4>1, <1>3, <1>t, RecordingWritten
    <3> QED
      BY <2>1, <3>1 DEF Edited
  <2> QED
    BY <1>0, <2>2 DEF FillUrlEffect
<1> QED
  BY <1>2, <1>3 DEF FillUrl

\* The INSERT of the pipeline.
LEMMA InsertWrites == ASSUME Base, NEW f \in Finalizers, Insert(f) PROVE InsertEffect(f)
<1> DEFINE e == [turns |-> fin[f].turns, by |-> f, seen |-> fin[f].seen,
                 rec |-> IF fin[f].audio THEN f ELSE "none"]
<1>t. fin[f] \in Request /\ rows \in Seq(Row)
  BY DEF Base, TypeOK
<1>0. fin[f].at = "insert"
  BY DEF Insert
<1>2. CASE Goto(f, "end") /\ Fault /\ UNCHANGED rows
  <2>1. Moved(f, "insert", "end") /\ faults' > 0
    BY <1>0, <1>2, FaultCounts, GotoMoves DEF Base
  <2>2. rows' = rows
    BY <1>2
  <2> QED
    BY <2>1, <2>2 DEF InsertEffect
<1>3. CASE rows' = Append(rows, e) /\ Goto(f, "conclude")
  <2>1. e \in Row
    BY <1>t DEF Request, Row
  <2>2. Added /\ rows'[Len(rows')] = e
    <3> HIDE DEF e
    <3> QED
      BY <2>1, <1>3, <1>t, RowAdded DEF Added
  <2>3. Moved(f, "insert", "conclude")
    BY <1>0, <1>3, GotoMoves DEF Base
  <2> QED
    BY <2>2, <2>3 DEF InsertEffect
<1> QED
  BY <1>2, <1>3 DEF Insert

\* The UPDATE of an upload reaches a row that exists.
LEMMA AttachWrites == ASSUME Base, NEW u \in Uploads, Attach(u) PROVE AttachEffect(u)
<1>t. rows \in Seq(Row)
  BY DEF Base, TypeOK
<1>0. upl[u].at = "attach" /\ UplMoved(u, "attach", "end")
  BY UplMoves DEF Base, Attach
<1>2. CASE Fault /\ UNCHANGED rows
  BY <1>0, <1>2, FaultCounts DEF Base, AttachEffect
<1>3. CASE rows' = [rows EXCEPT ![upl[u].row].rec = "webm"]
  <2>1. upl[u].row \in 1..Len(rows)
    BY <1>0 DEF Base, RowsKnown
  <2>2. Edited(upl[u].row) /\ rows'[upl[u].row].rec = "webm"
        /\ rows'[upl[u].row].turns = rows[upl[u].row].turns
    <3>1. PICK n \in 1..Len(rows) : n = upl[u].row
      BY <2>1
    <3>2. PICK c \in Recordings : c = "webm"
      BY DEF Recordings
    <3>3. rows' = [rows EXCEPT ![n].rec = c]
      BY <1>3, <3>1, <3>2
    <3>4. /\ rows' \in Seq(Row) /\ Len(rows') = Len(rows)
          /\ rows'[n].rec = c /\ rows'[n].turns = rows[n].turns
          /\ rows'[n].by = rows[n].by /\ rows'[n].seen = rows[n].seen
          /\ \A i \in 1..Len(rows) : i # n => rows'[i] = rows[i]
      BY <1>t, <3>3, RecordingWritten
    <3> QED
      BY <3>1, <3>2, <3>4 DEF Edited
  <2> QED
    BY <1>0, <2>2 DEF AttachEffect
<1> QED
  BY <1>2, <1>3 DEF Attach

\* The INSERT of an upload that found no row.
LEMMA InsertUploadWrites ==
  ASSUME Base, NEW u \in Uploads, InsertUpload(u) PROVE InsertUploadEffect(u)
<1> DEFINE e == [turns |-> 0, rec |-> "webm", by |-> u, seen |-> upl[u].seen]
<1>t. upl[u] \in Upload /\ rows \in Seq(Row)
  BY DEF Base, TypeOK
<1>0. upl[u].at = "insert" /\ UplMoved(u, "insert", "end")
  BY UplMoves DEF Base, InsertUpload
<1>2. CASE Fault /\ UNCHANGED rows
  BY <1>0, <1>2, FaultCounts DEF Base, InsertUploadEffect
<1>3. CASE rows' = Append(rows, e)
  <2>1. e \in Row
    BY <1>t DEF Upload, Row
  <2>2. Added /\ rows'[Len(rows')] = e
    <3> HIDE DEF e
    <3> QED
      BY <2>1, <1>3, <1>t, RowAdded DEF Added
  <2> QED
    BY <1>0, <2>2 DEF InsertUploadEffect
<1> QED
  BY <1>2, <1>3 DEF InsertUpload

\* The steps that write no row.
Quiet ==
  \/ Converse \/ Record \/ LoopEnds \/ Waited \/ Leave \/ UNCHANGED vars
  \/ \E f \in Forced : CloseCall(f) \/ Wake(f)
  \/ \E f \in Finalizers : Drain(f) \/ SaveWav(f) \/ LookUp(f) \/ Conclude(f)
  \/ \E u \in Uploads : StartUpload(u) \/ PollFound(u) \/ PollNone(u) \/ Abandon(u)

\* The other steps leave the rows alone.
LEMMA QuietKeepsRows == Quiet => rows' = rows
BY DEF Quiet, Converse, Record, LoopEnds, Waited, Leave, vars, CloseCall, Wake, Drain, SaveWav, LookUp,
       Conclude, StartUpload, PollFound, PollNone, Abandon

\* A step writes rows or is one of those.
LEMMA StepKinds ==
  [Next]_vars => \/ Quiet
                 \/ \E f \in Finalizers : Fill(f) \/ FillUrl(f) \/ Insert(f)
                 \/ \E u \in Uploads : Attach(u) \/ InsertUpload(u)
BY DEF Next, Finalize, Attaching, Quiet

\* Rows are never removed, and what the creator of a row had seen stays.
LEMMA RowsKept ==
  Base /\ [Next]_vars =>
    /\ rows' \in Seq(Row) /\ Len(rows') >= Len(rows)
    /\ \A i \in 1..Len(rows) : rows'[i].seen = rows[i].seen
<1> SUFFICES ASSUME Base, [Next]_vars
             PROVE  /\ rows' \in Seq(Row) /\ Len(rows') >= Len(rows)
                    /\ \A i \in 1..Len(rows) : rows'[i].seen = rows[i].seen
  OBVIOUS
<1>t. rows \in Seq(Row)
  BY DEF Base, TypeOK
<1>1. CASE rows' = rows
  BY <1>1, <1>t
<1>2. CASE Added
  BY <1>2, <1>t DEF Added
<1>3. ASSUME NEW n, Edited(n)
      PROVE  /\ rows' \in Seq(Row) /\ Len(rows') >= Len(rows)
             /\ \A i \in 1..Len(rows) : rows'[i].seen = rows[i].seen
  BY <1>3, <1>t DEF Edited
<1>4. \/ rows' = rows \/ Added \/ \E n : Edited(n)
  BY StepKinds, QuietKeepsRows, FillWrites, FillUrlWrites, InsertWrites, AttachWrites, InsertUploadWrites
  DEF FillEffect, FillUrlEffect, InsertEffect, AttachEffect, InsertUploadEffect
<1> QED
  BY <1>1, <1>2, <1>3, <1>4

\* Every step keeps the types of the finalizers.
LEMMA FinKept == TypeOK /\ [Next]_vars => fin' \in [Finalizers -> Request]
<1> SUFFICES ASSUME TypeOK, [Next]_vars PROVE fin' \in [Finalizers -> Request]
  OBVIOUS
<1>t. /\ fin \in [Finalizers -> Request] /\ Len(rows) \in Nat /\ turns \in 0..MaxTurns
      /\ buffer \in BOOLEAN
  BY DEF TypeOK
<1>g. ASSUME NEW f, NEW l \in FinState, Goto(f, l) PROVE fin' \in [Finalizers -> Request]
  BY <1>t, <1>g DEF Goto, Request
<1>1. CASE Converse \/ Record \/ LoopEnds \/ Waited \/ Leave
  BY <1>t, <1>1, <1>g DEF Converse, Record, LoopEnds, Waited, Leave, FinState
<1>2. ASSUME NEW f \in Forced, CloseCall(f) \/ Wake(f) PROVE fin' \in [Finalizers -> Request]
  BY <1>2, <1>g DEF CloseCall, Wake, FinState
<1>3. ASSUME NEW f \in Finalizers, Finalize(f) PROVE fin' \in [Finalizers -> Request]
  <2>1. CASE Drain(f)
    <3>1. [fin[f] EXCEPT !.at = "wav", !.turns = turns, !.audio = buffer] \in Request
      BY <1>t DEF Request, FinState
    <3>2. fin' = [fin EXCEPT ![f] = [fin[f] EXCEPT !.at = "wav", !.turns = turns, !.audio = buffer]]
      BY <2>1 DEF Drain
    <3> QED
      BY <1>t, <3>1, <3>2
  <2>2. CASE SaveWav(f)
    <3>1. PICK a \in BOOLEAN, l \in FinState : fin' = [fin EXCEPT ![f].audio = a, ![f].at = l]
      BY <1>t, <2>2 DEF SaveWav, Request, FinState
    <3>2. [fin[f] EXCEPT !.audio = a, !.at = l] \in Request
      BY <1>t DEF Request
    <3>3. fin' = [fin EXCEPT ![f] = [fin[f] EXCEPT !.audio = a, !.at = l]]
      BY <3>1
    <3> QED
      BY <1>t, <3>2, <3>3
  <2>3. CASE LookUp(f)
    <3>1. [fin[f] EXCEPT !.at = "fill", !.seen = Len(rows), !.row = Len(rows)] \in Request
          /\ [fin[f] EXCEPT !.at = "insert", !.seen = Len(rows)] \in Request
      BY <1>t DEF Request, FinState
    <3>2. \/ fin' = [fin EXCEPT ![f] = [fin[f] EXCEPT !.at = "fill", !.seen = Len(rows), !.row = Len(rows)]]
          \/ fin' = [fin EXCEPT ![f] = [fin[f] EXCEPT !.at = "insert", !.seen = Len(rows)]]
          \/ Goto(f, "insert")
      BY <2>3 DEF LookUp
    <3> QED
      BY <1>t, <1>g, <3>1, <3>2 DEF FinState
  <2> QED
    BY <1>3, <1>g, <2>1, <2>2, <2>3 DEF Finalize, Fill, FillUrl, Insert, Conclude, FinState
<1>4. ASSUME NEW u \in Uploads, Attaching(u) PROVE fin' = fin
  BY <1>4 DEF Attaching, StartUpload, PollFound, PollNone, Attach, InsertUpload, Abandon
<1>5. CASE UNCHANGED vars
  BY <1>t, <1>5 DEF vars
<1> QED
  BY <1>1, <1>2, <1>3, <1>4, <1>5, <1>t DEF Next

\* Every step keeps the types of the uploads; the looks never exceed MaxPolls.
LEMMA UplKept == TypeOK /\ RowsKnown /\ [Next]_vars => upl' \in [Uploads -> Upload]
<1> SUFFICES ASSUME TypeOK, RowsKnown, [Next]_vars PROVE upl' \in [Uploads -> Upload]
  OBVIOUS
<1>t. upl \in [Uploads -> Upload] /\ Len(rows) \in Nat
  BY DEF TypeOK
<1>1. ASSUME NEW u \in Uploads, Attaching(u) PROVE upl' \in [Uploads -> Upload]
  <2>1. upl[u].at = "poll" => upl[u].polls < MaxPolls
    BY DEF RowsKnown
  <2> QED
    <3>a. ASSUME NEW l \in {"none", "poll", "attach", "insert", "end"}, upl' = [upl EXCEPT ![u].at = l]
          PROVE  upl' \in [Uploads -> Upload]
      BY <1>t, <3>a DEF Upload
    <3>1. CASE PollFound(u)
      <4>1. PICK l \in {"attach", "end"} : upl' = [upl EXCEPT ![u].at = l, ![u].row = Len(rows)]
        BY <3>1 DEF PollFound
      <4>2. [upl[u] EXCEPT !.at = l, !.row = Len(rows)] \in Upload
        BY <1>t DEF Upload
      <4>3. upl' = [upl EXCEPT ![u] = [upl[u] EXCEPT !.at = l, !.row = Len(rows)]]
        BY <4>1
      <4> QED
        BY <1>t, <4>2, <4>3
    <3>2. CASE PollNone(u)
      <4>p. upl[u].polls + 1 \in 0..MaxPolls /\ upl[u] \in Upload
        <5>1. upl[u] \in Upload
          BY <1>t
        <5>2. upl[u].polls \in 0..MaxPolls
          BY <5>1 DEF Upload
        <5>3. upl[u].polls < MaxPolls
          BY <2>1, <3>2 DEF PollNone
        <5> QED
          BY <5>1, <5>2, <5>3
      <4>1. PICK l \in {"insert", "poll"} :
              upl' = [upl EXCEPT ![u].polls = upl[u].polls + 1, ![u].seen = Len(rows), ![u].at = l]
        BY <3>2 DEF PollNone
      <4>2. ASSUME NEW p \in 0..MaxPolls
            PROVE  [upl[u] EXCEPT !.polls = p, !.seen = Len(rows), !.at = l] \in Upload
        BY <1>t, <4>p DEF Upload
      <4>3. upl' = [upl EXCEPT ![u] = [upl[u] EXCEPT !.polls = upl[u].polls + 1, !.seen = Len(rows), !.at = l]]
        BY <4>1
      <4> QED
        BY <1>t, <4>2, <4>3, <4>p
    <3> QED
      BY <1>1, <3>a, <3>1, <3>2 DEF Attaching, StartUpload, Attach, InsertUpload, Abandon
<1>2. ~(\E u \in Uploads : Attaching(u)) => upl' = upl
  BY DEF Next, Converse, Record, LoopEnds, Waited, Leave, CloseCall, Wake, Finalize, Drain, SaveWav, LookUp, Fill,
         FillUrl, Insert, Conclude, vars
<1> QED
  BY <1>t, <1>1, <1>2

\* The effects of the steps that read: the drain takes the history and the audio,
\* a failed store loses the recording, the look remembers an empty newest row.
DrainEffect(f) ==
  /\ fin[f].at = "drain" /\ fin'[f].at = "wav" /\ Only(f) /\ rows' = rows
  /\ fin'[f].turns = turns /\ fin'[f].audio = buffer
  /\ fin'[f].row = fin[f].row /\ fin'[f].seen = fin[f].seen

SaveWavEffect(f) ==
  /\ fin[f].at = "wav" /\ Only(f) /\ rows' = rows
  /\ \/ fin'[f].audio = fin[f].audio
     \/ fin'[f].audio = FALSE /\ faults' > 0
  /\ fin'[f].turns = fin[f].turns /\ fin'[f].row = fin[f].row /\ fin'[f].seen = fin[f].seen
  /\ \/ fin'[f].at = "end" /\ fin[f].turns = 0 /\ ~fin'[f].audio
     \/ fin'[f].at = "lookup"

LookUpEffect(f) ==
  /\ fin[f].at = "lookup" /\ Only(f) /\ rows' = rows
  /\ fin'[f].turns = fin[f].turns /\ fin'[f].audio = fin[f].audio
  /\ \/ /\ fin'[f].at = "fill" /\ fin'[f].row = Len(rows) /\ fin'[f].seen = Len(rows)
        /\ Len(rows) > 0 /\ rows[Len(rows)].turns = 0
     \/ /\ fin'[f].at = "insert" /\ fin'[f].row = fin[f].row /\ fin'[f].seen = Len(rows)
        /\ Len(rows) = 0 \/ rows[Len(rows)].turns > 0
     \/ /\ fin'[f].at = "insert" /\ fin'[f].row = fin[f].row /\ fin'[f].seen = fin[f].seen
        /\ faults' > 0

\* Drain has the effect stated.
LEMMA Drains == ASSUME Base, NEW f \in Finalizers, Drain(f) PROVE DrainEffect(f)
<1>1. fin \in [Finalizers -> Request]
  BY DEF Base, TypeOK
<1> QED
  BY <1>1 DEF Drain, DrainEffect, Only, Request

\* SaveWav drops the recording only by a failure, and skips only a request
\* with neither turns nor recording.
LEMMA SavesWav == ASSUME Base, NEW f \in Finalizers, SaveWav(f) PROVE SaveWavEffect(f)
<1>1. fin \in [Finalizers -> Request]
  BY DEF Base, TypeOK
<1>2. PICK stored \in BOOLEAN :
       /\ IF stored \/ ~fin[f].audio THEN UNCHANGED faults ELSE Fault
       /\ fin' = [fin EXCEPT ![f].audio = @ /\ stored,
                    ![f].at = IF fin[f].turns = 0 /\ ~(fin[f].audio /\ stored) /\ ~sim
                              THEN "end" ELSE "lookup"]
  BY DEF SaveWav
<1>3. fin[f].at = "wav" /\ rows' = rows
  BY DEF SaveWav
<1>4. fin'[f].audio = (fin[f].audio /\ stored)
  BY <1>1, <1>2 DEF Request
<1>5. fin'[f].at = IF fin[f].turns = 0 /\ ~(fin[f].audio /\ stored) /\ ~sim
                   THEN "end" ELSE "lookup"
  BY <1>1, <1>2 DEF Request
<1>6. Only(f) /\ fin'[f].turns = fin[f].turns /\ fin'[f].row = fin[f].row /\ fin'[f].seen = fin[f].seen
  BY <1>1, <1>2 DEF Request, Only
<1>7. fin[f].audio \in BOOLEAN
  BY <1>1 DEF Request
<1>8. ~stored /\ fin[f].audio => faults' > 0
  BY <1>2, FaultCounts DEF Base
<1>9. \/ fin'[f].audio = fin[f].audio
      \/ fin'[f].audio = FALSE /\ faults' > 0
  BY <1>4, <1>7, <1>8
<1>10. \/ fin'[f].at = "end" /\ fin[f].turns = 0 /\ ~fin'[f].audio
       \/ fin'[f].at = "lookup"
  BY <1>4, <1>5
<1> QED
  BY <1>3, <1>6, <1>9, <1>10 DEF SaveWavEffect

\* LookUp returns the newest row if it is empty.
LEMMA LooksUp == ASSUME Base, NEW f \in Finalizers, LookUp(f) PROVE LookUpEffect(f)
<1>1. fin \in [Finalizers -> Request] /\ rows \in Seq(Row)
  BY DEF Base, TypeOK
<1>3. fin[f].at = "lookup" /\ rows' = rows
  BY DEF LookUp
<1>4. CASE Goto(f, "insert") /\ Fault
  BY <1>3, <1>4, FaultCounts, GotoMoves DEF Base, Moved, LookUpEffect
<1>5. CASE /\ rows # <<>> /\ rows[Len(rows)].turns = 0
           /\ fin' = [fin EXCEPT ![f].at = "fill", ![f].seen = Len(rows), ![f].row = Len(rows)]
  <2>1. Len(rows) > 0
    BY <1>1, <1>5
  <2> QED
    BY <1>1, <1>3, <1>5, <2>1 DEF LookUpEffect, Only, Request
<1>6. CASE /\ ~(rows # <<>> /\ rows[Len(rows)].turns = 0)
           /\ fin' = [fin EXCEPT ![f].at = "insert", ![f].seen = Len(rows)]
  <2>1. Len(rows) = 0 \/ rows[Len(rows)].turns > 0
    <3>1. CASE rows = <<>>
      BY <3>1
    <3>2. CASE rows # <<>>
      <4>1. Len(rows) \in 1..Len(rows)
        BY <1>1, <3>2
      <4>2. rows[Len(rows)] \in Row
        BY <1>1, <4>1
      <4> QED
        BY <1>6, <3>2, <4>2 DEF Row
    <3> QED
      BY <3>1, <3>2
  <2> QED
    BY <1>1, <1>3, <1>6, <2>1 DEF LookUpEffect, Only, Request
<1> QED
  BY <1>4, <1>5, <1>6 DEF LookUp

\* Every way in which a finalizer moves.
FinSteps ==
  \/ fin' = fin
  \/ \E f \in Forced : Moved(f, "none", "sleep") \/ Moved(f, "sleep", "drain")
  \/ Moved(Handler, "loop", "wait") \/ Moved(Handler, "wait", "drain")
  \/ \E f \in Finalizers :
       \/ DrainEffect(f) \/ SaveWavEffect(f) \/ LookUpEffect(f)
       \/ FillEffect(f) \/ FillUrlEffect(f) \/ InsertEffect(f)
       \/ Moved(f, "conclude", "end")

\* Every step moves at most one finalizer, in one of these ways.
LEMMA FinMoves == Base /\ [Next]_vars => FinSteps
<1> SUFFICES ASSUME Base, [Next]_vars PROVE FinSteps
  OBVIOUS
<1>b. TypeOK
  BY DEF Base
<1>1. CASE Converse \/ Record \/ Leave \/ (\E u \in Uploads : Attaching(u)) \/ UNCHANGED vars
  BY <1>1 DEF FinSteps, Converse, Record, Leave, Attaching, StartUpload, PollFound, PollNone, Attach, InsertUpload,
              Abandon, vars
<1>2. CASE LoopEnds \/ Waited
  BY <1>2, <1>b, GotoMoves, Actors DEF FinSteps, LoopEnds, Waited
<1>3. ASSUME NEW f \in Forced, CloseCall(f) \/ Wake(f) PROVE FinSteps
  <2>1. f \in Finalizers
    BY Actors
  <2>2. Moved(f, "none", "sleep") \/ Moved(f, "sleep", "drain")
    BY <1>3, <1>b, <2>1, GotoMoves DEF CloseCall, Wake
  <2> QED
    BY <2>2 DEF FinSteps
<1>4. ASSUME NEW f \in Finalizers, Finalize(f) PROVE FinSteps
  <2>1. Conclude(f) => Moved(f, "conclude", "end")
    BY <1>b, GotoMoves DEF Conclude
  <2> QED
    BY <1>4, <2>1, Drains, SavesWav, LooksUp, FillWrites, FillUrlWrites, InsertWrites DEF FinSteps, Finalize
<1> QED
  BY <1>1, <1>2, <1>3, <1>4 DEF Next

\* The effects of the two looks of an upload.
FoundEffect(u) ==
  /\ upl[u].at = "poll" /\ OnlyUpl(u) /\ Len(rows) > 0 /\ rows' = rows
  /\ upl'[u].polls = upl[u].polls /\ upl'[u].row = Len(rows) /\ upl'[u].seen = upl[u].seen
  /\ \/ upl'[u].at = "attach" /\ rows[Len(rows)].rec = "none"
     \/ upl'[u].at = "end"

NoneEffect(u) ==
  /\ upl[u].at = "poll" /\ OnlyUpl(u) /\ rows' = rows
  /\ upl'[u].row = upl[u].row /\ upl'[u].seen = Len(rows)
  /\ Len(rows) = 0 \/ faults' > 0
  /\ \/ upl'[u].at = "insert"
     \/ upl'[u].at = "poll" /\ upl'[u].polls < MaxPolls

\* PollFound has the effect stated.
LEMMA Finds == ASSUME Base, NEW u \in Uploads, PollFound(u) PROVE FoundEffect(u)
<1>1. upl \in [Uploads -> Upload] /\ rows \in Seq(Row)
  BY DEF Base, TypeOK
<1>2. Len(rows) > 0
  BY <1>1 DEF PollFound
<1> QED
  BY <1>1, <1>2 DEF PollFound, FoundEffect, OnlyUpl, Upload

\* PollNone sees no row unless it fails, and gives up at MaxPolls.
LEMMA FindsNone == ASSUME Base, NEW u \in Uploads, PollNone(u) PROVE NoneEffect(u)
<1>1. upl \in [Uploads -> Upload] /\ rows \in Seq(Row)
  BY DEF Base, TypeOK
<1>2. Len(rows) = 0 \/ faults' > 0
  <2>1. CASE rows = <<>>
    BY <2>1
  <2>2. CASE rows # <<>>
    BY <2>2, FaultCounts DEF PollNone, Base
  <2> QED
    BY <2>1, <2>2
<1>3. upl[u].at = "poll" /\ OnlyUpl(u) /\ rows' = rows /\ upl'[u].row = upl[u].row /\ upl'[u].seen = Len(rows)
  BY <1>1 DEF PollNone, OnlyUpl, Upload
<1>4. upl[u].polls < MaxPolls /\ upl[u].polls \in Nat
  BY <1>1, <1>3 DEF Base, RowsKnown, Upload
<1>5. upl'[u].polls = upl[u].polls + 1
  BY <1>1 DEF PollNone, Upload
<1>6. upl'[u].at = IF upl[u].polls + 1 = MaxPolls THEN "insert" ELSE "poll"
  BY <1>1 DEF PollNone, Upload
<1> QED
  BY <1>2, <1>3, <1>4, <1>5, <1>6 DEF NoneEffect

\* Every way in which an upload moves.
UplSteps ==
  \/ upl' = upl
  \/ \E u \in Uploads :
       \/ sim /\ UplMoved(u, "none", "poll")
       \/ FoundEffect(u) \/ NoneEffect(u) \/ AttachEffect(u) \/ InsertUploadEffect(u)
       \/ \E l \in {"poll", "insert"} : UplMoved(u, l, "end")

\* Every step moves at most one upload, in one of these ways.
LEMMA UplMovesOn == Base /\ [Next]_vars => UplSteps
<1> SUFFICES ASSUME Base, [Next]_vars PROVE UplSteps
  OBVIOUS
<1>b. TypeOK
  BY DEF Base
<1>1. CASE UNCHANGED upl
  BY <1>1 DEF UplSteps
<1>2. ASSUME NEW u \in Uploads, Attaching(u) PROVE UplSteps
  <2>1. CASE StartUpload(u)
    BY <2>1, <1>b, UplMoves DEF StartUpload, UplSteps
  <2>2. CASE Abandon(u)
    <3>1. PICK l \in {"poll", "insert"} : upl[u].at = l
      BY <2>2 DEF Abandon
    <3>2. UplMoved(u, l, "end")
      BY <2>2, <3>1, <1>b, UplMoves DEF Abandon
    <3> QED
      BY <3>2 DEF UplSteps
  <2> QED
    BY <1>2, <2>1, <2>2, Finds, FindsNone, AttachWrites, InsertUploadWrites DEF Attaching, UplSteps
<1>3. ASSUME NEW f \in Finalizers, Finalize(f) PROVE UNCHANGED upl
  BY <1>3 DEF Finalize, Drain, SaveWav, LookUp, Fill, FillUrl, Insert, Conclude
<1>4. ASSUME NEW f \in Forced, CloseCall(f) \/ Wake(f) PROVE UNCHANGED upl
  BY <1>4 DEF CloseCall, Wake
<1>5. CASE Converse \/ Record \/ LoopEnds \/ Waited \/ Leave \/ UNCHANGED vars
  BY <1>5, <1>1 DEF Converse, Record, LoopEnds, Waited, Leave, vars
<1> QED
  BY <1>1, <1>2, <1>3, <1>4, <1>5 DEF Next

\* Requests go on naming rows that exist, because rows are never removed.
LEMMA RowsKnownKept == Base /\ [Next]_vars => RowsKnown'
<1> SUFFICES ASSUME Base, [Next]_vars PROVE RowsKnown'
  OBVIOUS
<1>r. rows' \in Seq(Row) /\ rows \in Seq(Row) /\ Len(rows') >= Len(rows)
  BY RowsKept DEF Base, TypeOK
<1>t. Len(rows) \in Nat /\ Len(rows') \in Nat /\ Len(rows') >= Len(rows)
  BY <1>r
<1>k. RowsKnown
  BY DEF Base
<1>1. ASSUME NEW g \in Finalizers
      PROVE  /\ fin'[g].row \in 0..Len(rows') /\ fin'[g].seen \in 0..Len(rows')
             /\ fin'[g].at \in Early => fin'[g].row = NoRow
             /\ fin'[g].at \in {"fill", "url"} => fin'[g].row # NoRow
  <2>k. /\ fin[g].row \in 0..Len(rows) /\ fin[g].seen \in 0..Len(rows)
        /\ fin[g].at \in Early => fin[g].row = NoRow
        /\ fin[g].at \in {"fill", "url"} => fin[g].row # NoRow
    BY <1>k DEF RowsKnown
  <2>m. ASSUME NEW f \in Finalizers, NEW from, NEW to, Moved(f, from, to),
               to \in Early => from \in Early,
               to \in {"fill", "url"} => from \in {"fill", "url"}
        PROVE  /\ fin'[g].row \in 0..Len(rows') /\ fin'[g].seen \in 0..Len(rows')
               /\ fin'[g].at \in Early => fin'[g].row = NoRow
               /\ fin'[g].at \in {"fill", "url"} => fin'[g].row # NoRow
    <3>1. CASE g = f
      BY <2>m, <2>k, <1>t, <3>1 DEF Moved
    <3>2. CASE g # f
      BY <2>m, <2>k, <1>t, <3>2 DEF Moved, Only
    <3> QED
      BY <3>1, <3>2
  <2>1. CASE fin' = fin
    BY <2>1, <2>k, <1>t
  <2>2. CASE \E f \in Forced : Moved(f, "none", "sleep") \/ Moved(f, "sleep", "drain")
    BY <2>2, <2>m, Actors DEF Early
  <2>3. CASE Moved(Handler, "loop", "wait") \/ Moved(Handler, "wait", "drain")
    BY <2>3, <2>m, Actors DEF Early
  <2>4. ASSUME NEW f \in Finalizers, DrainEffect(f) \/ SaveWavEffect(f) \/ LookUpEffect(f)
        PROVE  /\ fin'[g].row \in 0..Len(rows') /\ fin'[g].seen \in 0..Len(rows')
               /\ fin'[g].at \in Early => fin'[g].row = NoRow
               /\ fin'[g].at \in {"fill", "url"} => fin'[g].row # NoRow
    <3>1. CASE g = f
      BY <2>4, <2>k, <1>t, <3>1 DEF DrainEffect, SaveWavEffect, LookUpEffect, Early, NoRow
    <3>2. CASE g # f
      BY <2>4, <2>k, <1>t, <3>2 DEF DrainEffect, SaveWavEffect, LookUpEffect, Only
    <3> QED
      BY <3>1, <3>2
  <2>5. ASSUME NEW f \in Finalizers, FillEffect(f) \/ FillUrlEffect(f) \/ InsertEffect(f) \/ Moved(f, "conclude", "end")
        PROVE  /\ fin'[g].row \in 0..Len(rows') /\ fin'[g].seen \in 0..Len(rows')
               /\ fin'[g].at \in Early => fin'[g].row = NoRow
               /\ fin'[g].at \in {"fill", "url"} => fin'[g].row # NoRow
    <3>1. \/ Moved(f, "fill", "insert") \/ Moved(f, "fill", "url") \/ Moved(f, "fill", "conclude")
          \/ Moved(f, "url", "conclude") \/ Moved(f, "insert", "conclude") \/ Moved(f, "insert", "end")
          \/ Moved(f, "conclude", "end")
      BY <2>5 DEF FillEffect, FillUrlEffect, InsertEffect
    <3> QED
      BY <3>1, <2>m DEF Early
  <2> QED
    BY <2>1, <2>2, <2>3, <2>4, <2>5, FinMoves DEF FinSteps
<1>2. ASSUME NEW v \in Uploads
      PROVE  /\ upl'[v].at = "attach" => upl'[v].row \in 1..Len(rows')
             /\ upl'[v].at \in {"none", "poll"} => upl'[v].polls < MaxPolls
             /\ upl'[v].seen \in 0..Len(rows')
  <2>k. /\ upl[v].at = "attach" => upl[v].row \in 1..Len(rows)
        /\ upl[v].at \in {"none", "poll"} => upl[v].polls < MaxPolls
        /\ upl[v].seen \in 0..Len(rows)
    BY <1>k DEF RowsKnown
  <2>1. CASE upl' = upl
    BY <2>1, <2>k, <1>t
  <2>2. ASSUME NEW u \in Uploads,
               \/ UplMoved(u, "none", "poll") \/ FoundEffect(u) \/ NoneEffect(u) \/ AttachEffect(u)
               \/ InsertUploadEffect(u) \/ \E l \in {"poll", "insert"} : UplMoved(u, l, "end")
        PROVE  /\ upl'[v].at = "attach" => upl'[v].row \in 1..Len(rows')
               /\ upl'[v].at \in {"none", "poll"} => upl'[v].polls < MaxPolls
               /\ upl'[v].seen \in 0..Len(rows')
    <3>1. CASE v = u
      BY <2>2, <2>k, <1>t, <3>1 DEF UplMoved, FoundEffect, NoneEffect, AttachEffect, InsertUploadEffect
    <3>2. CASE v # u
      BY <2>2, <2>k, <1>t, <3>2
      DEF UplMoved, OnlyUpl, FoundEffect, NoneEffect, AttachEffect, InsertUploadEffect
    <3> QED
      BY <3>1, <3>2
  <2> QED
    BY <2>1, <2>2, UplMovesOn DEF UplSteps
<1> QED
  BY <1>1, <1>2 DEF RowsKnown

\* Types and known rows together are inductive.
LEMMA BaseKept == Base /\ [Next]_vars => Base'
<1> SUFFICES ASSUME Base, [Next]_vars PROVE Base'
  OBVIOUS
<1>1. TypeOK'
  BY ScalarsKept, RowsKept, FinKept, UplKept DEF Base, TypeOK, ScalarTypes
<1> QED
  BY <1>1, RowsKnownKept DEF Base

\* A step as one finalizer sees it.
OwnStep(f) ==
  \/ fin'[f] = fin[f]
  \/ f \in Forced /\ (Moved(f, "none", "sleep") \/ Moved(f, "sleep", "drain"))
  \/ f = Handler /\ (Moved(f, "loop", "wait") \/ Moved(f, "wait", "drain"))
  \/ DrainEffect(f) \/ SaveWavEffect(f) \/ LookUpEffect(f)
  \/ FillEffect(f) \/ FillUrlEffect(f) \/ InsertEffect(f)
  \/ Moved(f, "conclude", "end")

\* Each finalizer sees its own step or none.
LEMMA OwnSteps == ASSUME Base, [Next]_vars, NEW f \in Finalizers PROVE OwnStep(f)
<1>1. FinSteps
  BY FinMoves
<1>2. ASSUME NEW g \in Finalizers, Only(g), g # f PROVE OwnStep(f)
  BY <1>2 DEF Only, OwnStep
<1>3. CASE fin' = fin
  BY <1>3 DEF OwnStep
<1>4. ASSUME NEW g \in Forced, Moved(g, "none", "sleep") \/ Moved(g, "sleep", "drain") PROVE OwnStep(f)
  <2>1. g \in Finalizers /\ Only(g)
    BY <1>4, Actors DEF Moved
  <2> QED
    BY <1>2, <1>4, <2>1 DEF OwnStep
<1>5. CASE Moved(Handler, "loop", "wait") \/ Moved(Handler, "wait", "drain")
  <2>1. Handler \in Finalizers /\ Only(Handler)
    BY <1>5, Actors DEF Moved
  <2> QED
    BY <1>2, <1>5, <2>1 DEF OwnStep
<1>6. ASSUME NEW g \in Finalizers,
             \/ DrainEffect(g) \/ SaveWavEffect(g) \/ LookUpEffect(g)
             \/ FillEffect(g) \/ FillUrlEffect(g) \/ InsertEffect(g) \/ Moved(g, "conclude", "end")
      PROVE  OwnStep(f)
  <2>1. Only(g)
    BY <1>6 DEF DrainEffect, SaveWavEffect, LookUpEffect, FillEffect, FillUrlEffect, InsertEffect, Moved
  <2> QED
    BY <1>2, <1>6, <2>1 DEF OwnStep
<1> QED
  BY <1>1, <1>3, <1>4, <1>5, <1>6 DEF FinSteps

\* A step as one upload sees it.
OwnUpload(u) ==
  \/ upl'[u] = upl[u]
  \/ sim /\ UplMoved(u, "none", "poll")
  \/ FoundEffect(u) \/ NoneEffect(u) \/ AttachEffect(u) \/ InsertUploadEffect(u)
  \/ \E l \in {"poll", "insert"} : UplMoved(u, l, "end")

\* Each upload sees its own step or none.
LEMMA OwnUploads == ASSUME Base, [Next]_vars, NEW u \in Uploads PROVE OwnUpload(u)
<1>1. UplSteps
  BY UplMovesOn
<1>2. ASSUME NEW v \in Uploads, OnlyUpl(v), v # u PROVE OwnUpload(u)
  BY <1>2 DEF OnlyUpl, OwnUpload
<1>3. CASE upl' = upl
  BY <1>3 DEF OwnUpload
<1>4. ASSUME NEW v \in Uploads,
             \/ sim /\ UplMoved(v, "none", "poll")
             \/ FoundEffect(v) \/ NoneEffect(v) \/ AttachEffect(v) \/ InsertUploadEffect(v)
             \/ \E l \in {"poll", "insert"} : UplMoved(v, l, "end")
      PROVE  OwnUpload(u)
  <2>1. OnlyUpl(v)
    BY <1>4 DEF UplMoved, FoundEffect, NoneEffect, AttachEffect, InsertUploadEffect
  <2> QED
    BY <1>2, <1>4, <2>1 DEF OwnUpload
<1> QED
  BY <1>1, <1>3, <1>4 DEF UplSteps

\* What writes the rows.
RowSteps ==
  \/ rows' = rows
  \/ \E f \in Finalizers : FillEffect(f) \/ FillUrlEffect(f) \/ InsertEffect(f)
  \/ \E u \in Uploads : AttachEffect(u) \/ InsertUploadEffect(u)

\* Five statements write rows.
LEMMA RowWrites == Base /\ [Next]_vars => RowSteps
BY StepKinds, QuietKeepsRows, FillWrites, FillUrlWrites, InsertWrites, AttachWrites, InsertUploadWrites
DEF RowSteps

\* What happens to the rest of the state.
RestSteps ==
  /\ sim' = sim
  /\ faults' = 0 => faults = 0
  /\ turns' = turns \/ (turns' > 0 /\ fin' = fin /\ fin[Handler].at \in {"loop", "wait"})
  /\ heard' = heard \/ buffer'
  /\ \/ buffer' = buffer
     \/ buffer' /\ fin' = fin /\ fin[Handler].at \in {"loop", "wait"}
     \/ ~buffer' /\ \E f \in Finalizers : DrainEffect(f)
  /\ listed' => listed
  /\ \A f \in Forced : listed \/ (fin[f].at = "none" => fin'[f] = fin[f])

\* Failures are never forgotten.
LEMMA FaultsGrow == TypeOK /\ Fault => (faults' = 0 => faults = 0)
BY DEF TypeOK, Fault

\* The conversation and the audio change only while the handler is in its loop
\* or waits, and a forced close needs a listed session.
LEMMA RestMoves == Base /\ [Next]_vars => RestSteps
<1> SUFFICES ASSUME Base, [Next]_vars PROVE RestSteps
  OBVIOUS
<1>b. TypeOK /\ fin \in [Finalizers -> Request] /\ turns \in Nat
  BY DEF Base, TypeOK
<1>0. sim' = sim
  BY DEF Next, Converse, Record, LoopEnds, Waited, Leave, CloseCall, Wake, Finalize, Drain, SaveWav, LookUp,
         Fill, FillUrl, Insert, Conclude, Attaching, StartUpload, PollFound, PollNone, Attach, InsertUpload,
         Abandon, vars
<1>1. listed' => listed
  <2>1. listed' = listed \/ listed' = FALSE
    BY DEF Next, Converse, Record, LoopEnds, Waited, Leave, CloseCall, Wake, Finalize, Drain, SaveWav, LookUp,
         Fill, FillUrl, Insert, Conclude, Attaching, StartUpload, PollFound, PollNone, Attach, InsertUpload,
         Abandon, vars
  <2> QED
    BY <2>1
<1>2. faults' = 0 => faults = 0
  BY <1>b, FaultsGrow
  DEF Next, Converse, Record, LoopEnds, Waited, Leave, CloseCall, Wake, Finalize, Drain, SaveWav, LookUp,
         Fill, FillUrl, Insert, Conclude, Attaching, StartUpload, PollFound, PollNone, Attach, InsertUpload,
         Abandon, vars
<1>3. turns' = turns \/ (turns' > 0 /\ fin' = fin /\ fin[Handler].at \in {"loop", "wait"})
  <2>1. Converse => turns' > 0 /\ fin' = fin /\ fin[Handler].at \in {"loop", "wait"}
    BY <1>b DEF Converse, Talking
  <2> QED
    BY <2>1
    DEF Next, Record, LoopEnds, Waited, Leave, CloseCall, Wake, Finalize, Drain, SaveWav, LookUp,
         Fill, FillUrl, Insert, Conclude, Attaching, StartUpload, PollFound, PollNone, Attach, InsertUpload,
         Abandon, vars
<1>4. heard' = heard \/ buffer'
  BY DEF Next, Converse, Record, LoopEnds, Waited, Leave, CloseCall, Wake, Finalize, Drain, SaveWav, LookUp,
         Fill, FillUrl, Insert, Conclude, Attaching, StartUpload, PollFound, PollNone, Attach, InsertUpload,
         Abandon, vars
<1>5. \/ buffer' = buffer
      \/ buffer' /\ fin' = fin /\ fin[Handler].at \in {"loop", "wait"}
      \/ ~buffer' /\ \E f \in Finalizers : DrainEffect(f)
  <2>1. ASSUME NEW f \in Finalizers, Drain(f) PROVE ~buffer' /\ DrainEffect(f)
    BY <2>1, Drains DEF Drain
  <2>2. ASSUME NEW f \in Finalizers, Finalize(f), ~Drain(f) PROVE buffer' = buffer
    BY <2>2 DEF Finalize, SaveWav, LookUp, Fill, FillUrl, Insert, Conclude
  <2>3. Record => buffer' /\ fin' = fin /\ fin[Handler].at \in {"loop", "wait"}
    BY DEF Record, Talking
  <2>4. ~Record /\ ~(\E f \in Finalizers : Finalize(f)) => buffer' = buffer
    BY DEF Next, Converse, LoopEnds, Waited, Leave, CloseCall, Wake, Attaching, StartUpload, PollFound, PollNone, Attach,
           InsertUpload, Abandon, vars
  <2> QED
    BY <2>1, <2>2, <2>3, <2>4
<1>6. ASSUME NEW f \in Forced, fin[f].at = "none", fin'[f] # fin[f] PROVE listed
  <2>1. f \in Finalizers /\ f # Handler
    BY Actors, ActorsAssumption
  <2>2. ~(\E g \in Finalizers : Finalize(g))
    <3>1. ASSUME NEW g \in Finalizers, Finalize(g) PROVE FALSE
      <4>1. fin[g].at \notin {"none"} /\ (fin'[f] = fin[f] \/ f = g)
        BY <3>1, <1>b, <2>1
        DEF Finalize, Drain, SaveWav, LookUp, Fill, FillUrl, Insert, Conclude, Goto
      <4> QED
        BY <4>1, <1>6
    <3> QED
      BY <3>1
  <2>3. ~(\E u \in Uploads : Attaching(u)) /\ ~Converse /\ ~Record /\ ~Leave /\ ~(UNCHANGED vars)
    BY <1>6 DEF Attaching, StartUpload, PollFound, PollNone, Attach, InsertUpload, Abandon, Converse, Record, Leave, vars
  <2>4. ~LoopEnds /\ ~Waited
    BY <1>6, <2>1, <1>b DEF LoopEnds, Waited, Goto
  <2>5. PICK g \in Forced : CloseCall(g) \/ Wake(g)
    BY <2>2, <2>3, <2>4 DEF Next
  <2>6. g = f
    BY <1>6, <1>b, <2>1, <2>5 DEF CloseCall, Wake, Goto
  <2> QED
    BY <1>6, <2>5, <2>6 DEF CloseCall, Wake
<1> QED
  BY <1>0, <1>1, <1>2, <1>3, <1>4, <1>5, <1>6 DEF RestSteps

\* The row a finalizer is about to fill is still empty, unless another finalizer
\* had found it as well.
FilledOnce ==
  \A f \in Finalizers : fin[f].at = "fill" => Shared \/ rows[fin[f].row].turns = 0

\* The n-th row was full for whoever looked and then made a further one.
Seen(n) == n = 0 \/ Shared \/ rows[n].turns > 0

\* Without a failure a row is added only by a creator to whom the newest row it saw
\* was full; uploads add one only when they saw none.
SeenFull ==
  faults = 0 =>
    /\ \A f \in Finalizers : fin[f].at = "insert" => Seen(fin[f].seen)
    /\ \A u \in Uploads : upl[u].at = "insert" => upl[u].seen = 0
    /\ \A j \in 1..Len(rows) : rows[j].seen < j /\ Seen(rows[j].seen)

\* A request keeps the row it found.
LEMMA RowOfRequestKept ==
  ASSUME Base, [Next]_vars, NEW f \in Finalizers, fin[f].row # NoRow PROVE fin'[f].row = fin[f].row
<1>1. fin[f].at \notin Early
  BY DEF Base, RowsKnown
<1> QED
  BY <1>1, OwnSteps
  DEF OwnStep, Moved, DrainEffect, SaveWavEffect, LookUpEffect, FillEffect, FillUrlEffect, InsertEffect, Early

\* Two finalizers that share a row go on sharing it.
LEMMA SharedKept == Base /\ [Next]_vars /\ Shared => Shared'
<1> SUFFICES ASSUME Base, [Next]_vars, Shared PROVE Shared'
  OBVIOUS
<1>1. PICK f \in Finalizers, g \in Finalizers : f # g /\ fin[f].row # NoRow /\ fin[f].row = fin[g].row
  BY DEF Shared
<1>2. fin'[f].row = fin[f].row /\ fin'[g].row = fin[g].row
  BY <1>1, RowOfRequestKept
<1> QED
  BY <1>1, <1>2 DEF Shared

\* A transcript is overwritten only by a finalizer that shares the row.
LEMMA FilledKept ==
  ASSUME Base, FilledOnce, [Next]_vars, NEW i \in 1..Len(rows), rows[i].turns > 0
  PROVE  Shared \/ rows'[i].turns = rows[i].turns
<1>1. CASE rows' = rows
  BY <1>1
<1>2. ASSUME NEW f \in Finalizers, FillEffect(f) PROVE Shared \/ rows'[i].turns = rows[i].turns
  BY <1>2 DEF FillEffect, Moved, Edited, FilledOnce
<1>3. ASSUME NEW f \in Finalizers, FillUrlEffect(f) \/ InsertEffect(f) PROVE rows'[i].turns = rows[i].turns
  BY <1>3 DEF FillUrlEffect, InsertEffect, Edited, Added
<1>4. ASSUME NEW u \in Uploads, AttachEffect(u) \/ InsertUploadEffect(u) PROVE rows'[i].turns = rows[i].turns
  BY <1>4 DEF AttachEffect, InsertUploadEffect, Edited, Added
<1> QED
  BY <1>1, <1>2, <1>3, <1>4, RowWrites DEF RowSteps

\* A row that was full when it was seen stays full, or is shared.
LEMMA SeenKept ==
  ASSUME Base, FilledOnce, [Next]_vars, NEW n \in 0..Len(rows), Seen(n) PROVE Seen(n)'
<1>0. Len(rows) \in Nat
  BY DEF Base, TypeOK
<1>1. CASE n = 0
  BY <1>1 DEF Seen
<1>2. CASE Shared
  BY <1>2, SharedKept DEF Seen
<1>3. CASE n # 0 /\ rows[n].turns > 0
  <2>1. n \in 1..Len(rows)
    BY <1>0, <1>3
  <2>2. Shared \/ rows'[n].turns > 0
    BY <1>3, <2>1, FilledKept
  <2> QED
    BY <2>2, SharedKept DEF Seen
<1> QED
  BY <1>1, <1>2, <1>3 DEF Seen

\* FilledOnce is inductive: the write of another finalizer to the same row means
\* that the two share it.
LEMMA FilledOnceKept == Base /\ FilledOnce /\ [Next]_vars => FilledOnce'
<1> SUFFICES ASSUME Base, FilledOnce, [Next]_vars, NEW f \in Finalizers, fin'[f].at = "fill"
             PROVE  Shared' \/ rows'[fin'[f].row].turns = 0
  BY DEF FilledOnce
<1>t. rows \in Seq(Row) /\ Len(rows) \in Nat
  BY DEF Base, TypeOK
<1>1. fin'[f] = fin[f] \/ LookUpEffect(f)
  BY OwnSteps DEF OwnStep, Moved, DrainEffect, SaveWavEffect, FillEffect, FillUrlEffect, InsertEffect
<1>2. CASE LookUpEffect(f)
  BY <1>2 DEF LookUpEffect
<1>3. CASE fin'[f] = fin[f] /\ Shared
  BY <1>3, SharedKept
<1>4. CASE fin'[f] = fin[f] /\ ~Shared
  <2> DEFINE n == fin[f].row
  <2>1. n \in 1..Len(rows) /\ rows[n].turns = 0 /\ n # NoRow
    BY <1>4, <1>t DEF FilledOnce, Base, RowsKnown, NoRow
  <2>2. CASE rows' = rows
    BY <1>4, <2>1, <2>2
  <2>3. ASSUME NEW g \in Finalizers, FillEffect(g) PROVE rows'[n].turns = 0
    <3>1. g # f
      BY <2>3, <1>4 DEF FillEffect, Moved
    <3>2. fin[g].row # n
      BY <3>1, <2>1, <1>4 DEF Shared
    <3> QED
      BY <2>1, <2>3, <3>2 DEF FillEffect, Edited
  <2>4. ASSUME NEW g \in Finalizers, FillUrlEffect(g) \/ InsertEffect(g) PROVE rows'[n].turns = 0
    BY <2>1, <2>4 DEF FillUrlEffect, InsertEffect, Edited, Added
  <2>5. ASSUME NEW u \in Uploads, AttachEffect(u) \/ InsertUploadEffect(u) PROVE rows'[n].turns = 0
    BY <2>1, <2>5 DEF AttachEffect, InsertUploadEffect, Edited, Added
  <2>6. rows'[n].turns = 0
    BY <2>1, <2>2, <2>3, <2>4, <2>5, RowWrites DEF RowSteps
  <2> QED
    BY <1>4, <2>6
<1> QED
  BY <1>1, <1>2, <1>3, <1>4

\* SeenFull is inductive.
LEMMA SeenFullKept == Base /\ FilledOnce /\ SeenFull /\ [Next]_vars => SeenFull'
<1> SUFFICES ASSUME Base, FilledOnce, SeenFull, [Next]_vars, faults' = 0
             PROVE  /\ \A f \in Finalizers : fin'[f].at = "insert" => Seen(fin[f].seen)'
                    /\ \A u \in Uploads : upl'[u].at = "insert" => upl'[u].seen = 0
                    /\ \A j \in 1..Len(rows') : rows'[j].seen < j /\ Seen(rows[j].seen)'
  BY DEF SeenFull
<1>0. faults = 0
  BY RestMoves DEF RestSteps
<1>t. rows \in Seq(Row) /\ Len(rows) \in Nat
  BY DEF Base, TypeOK
<1>s. /\ \A f \in Finalizers : fin[f].at = "insert" => Seen(fin[f].seen)
      /\ \A u \in Uploads : upl[u].at = "insert" => upl[u].seen = 0
      /\ \A j \in 1..Len(rows) : rows[j].seen < j /\ Seen(rows[j].seen)
  BY <1>0 DEF SeenFull
<1>k. \A f \in Finalizers : fin[f].seen \in 0..Len(rows)
  BY DEF Base, RowsKnown
<1>1. ASSUME NEW f \in Finalizers, fin'[f].at = "insert" PROVE Seen(fin[f].seen)'
  <2>1. PICK n \in 0..Len(rows) : n = fin'[f].seen /\ Seen(n)
    <3>1. CASE fin'[f] = fin[f]
      BY <3>1, <1>1, <1>s, <1>k
    <3>2. CASE LookUpEffect(f)
      BY <3>2, <1>1, <1>t DEF LookUpEffect, Seen
    <3> QED
      BY <3>1, <3>2, <1>1, OwnSteps
      DEF OwnStep, Moved, DrainEffect, SaveWavEffect, FillEffect, FillUrlEffect, InsertEffect
  <2>2. Seen(n)'
    BY <2>1, SeenKept
  <2> QED
    BY <2>1, <2>2 DEF Seen
<1>2. ASSUME NEW u \in Uploads, upl'[u].at = "insert" PROVE upl'[u].seen = 0
  BY <1>2, <1>s, OwnUploads
  DEF OwnUpload, UplMoved, FoundEffect, NoneEffect, AttachEffect, InsertUploadEffect
<1>3. ASSUME NEW j \in 1..Len(rows') PROVE rows'[j].seen < j /\ Seen(rows[j].seen)'
  <2>1. ASSUME j \in 1..Len(rows), rows'[j].seen = rows[j].seen
        PROVE  \E n \in 0..Len(rows) : n = rows'[j].seen /\ Seen(n) /\ n < j
    <3>1. rows[j] \in Row
      BY <2>1, <1>t
    <3> QED
      BY <2>1, <3>1, <1>s, <1>t DEF Row
  <2>2. ASSUME NEW f \in Finalizers, InsertEffect(f), j \notin 1..Len(rows)
        PROVE  \E n \in 0..Len(rows) : n = rows'[j].seen /\ Seen(n) /\ n < j
    <3>1. j = Len(rows') /\ j = Len(rows) + 1 /\ fin[f].at = "insert" /\ rows'[j].seen = fin[f].seen
      BY <2>2, <1>t DEF InsertEffect, Moved, Added
    <3> QED
      BY <3>1, <1>t, <1>s, <1>k
  <2>3. ASSUME NEW u \in Uploads, InsertUploadEffect(u), j \notin 1..Len(rows)
        PROVE  \E n \in 0..Len(rows) : n = rows'[j].seen /\ Seen(n) /\ n < j
    <3>1. j = Len(rows') /\ j = Len(rows) + 1 /\ upl[u].at = "insert" /\ rows'[j].seen = upl[u].seen
      BY <2>3, <1>t DEF InsertUploadEffect, UplMoved, Added
    <3> QED
      BY <3>1, <1>t, <1>s DEF Seen
  <2>4. j \in 1..Len(rows) => rows'[j].seen = rows[j].seen
    BY RowsKept
  <2>5. \/ j \in 1..Len(rows)
        \/ \E f \in Finalizers : InsertEffect(f)
        \/ \E u \in Uploads : InsertUploadEffect(u)
    BY <1>t, RowWrites DEF RowSteps, FillEffect, FillUrlEffect, AttachEffect, Edited
  <2>6. PICK n \in 0..Len(rows) : n = rows'[j].seen /\ Seen(n) /\ n < j
    BY <2>1, <2>2, <2>3, <2>4, <2>5
  <2>7. Seen(n)'
    BY <2>6, SeenKept
  <2> QED
    BY <2>6, <2>7 DEF Seen
<1> QED
  BY <1>1, <1>2, <1>3

\* No callback and no hang-up has closed the call.
Alone == \A f \in Forced : fin[f].at = "none"

\* While the handler is the only finalizer a transcript means that it has
\* written, so that whoever adds a row had seen none.
HandlerAlone ==
  Alone =>
    /\ (\E i \in 1..Len(rows) : rows[i].turns > 0) => fin[Handler].at \in Written
    /\ faults = 0 => /\ fin[Handler].at = "insert" => fin[Handler].seen = 0
                     /\ \A j \in 1..Len(rows) : rows[j].seen = 0

\* A simulation has no other finalizer, and its uploads attach only after the
\* handler has written, to a row that has no recording of the server.
SimAlone ==
  /\ sim => ~listed /\ Alone
  /\ \A u \in Uploads : upl[u].at # "none" => sim
  /\ sim /\ (\E i \in 1..Len(rows) : rows[i].rec = "none") => fin[Handler].at \in {"conclude", "end"}
  /\ \A u \in Uploads :
       upl[u].at = "attach" => rows[upl[u].row].rec \notin Finalizers /\ fin[Handler].at \in {"conclude", "end"}

\* A forced close does not undo itself.
LEMMA AloneBefore == Base /\ [Next]_vars /\ Alone' => Alone
<1> SUFFICES ASSUME Base, [Next]_vars, Alone', NEW f \in Forced PROVE fin[f].at = "none"
  BY DEF Alone
<1>1. fin'[f].at = "none" /\ f \in Finalizers
  BY Actors DEF Alone
<1> QED
  BY <1>1, OwnSteps
  DEF OwnStep, Moved, DrainEffect, SaveWavEffect, LookUpEffect, FillEffect, FillUrlEffect, InsertEffect

\* Alone, the handler is the finalizer that acts.
LEMMA OnlyHandler ==
  ASSUME Base, Alone, NEW f \in Finalizers, fin[f].at # "none" PROVE f = Handler
BY DEF Alone, Finalizers

\* HandlerAlone is inductive.
LEMMA HandlerAloneKept ==
  Base /\ SeenFull /\ HandlerAlone /\ [Next]_vars => HandlerAlone'
<1> SUFFICES ASSUME Base, SeenFull, HandlerAlone, [Next]_vars, Alone'
             PROVE  /\ (\E i \in 1..Len(rows') : rows'[i].turns > 0) => fin'[Handler].at \in Written
                    /\ faults' = 0 => /\ fin'[Handler].at = "insert" => fin'[Handler].seen = 0
                                      /\ \A j \in 1..Len(rows') : rows'[j].seen = 0
  BY DEF HandlerAlone
<1>a. Alone
  BY AloneBefore
<1>h. Handler \in Finalizers
  BY Actors
<1>k. /\ (\E i \in 1..Len(rows) : rows[i].turns > 0) => fin[Handler].at \in Written
      /\ faults = 0 => /\ fin[Handler].at = "insert" => fin[Handler].seen = 0
                       /\ \A j \in 1..Len(rows) : rows[j].seen = 0
  BY <1>a DEF HandlerAlone
<1>t. Len(rows) \in Nat /\ rows \in Seq(Row)
  BY DEF Base, TypeOK
<1>o. OwnStep(Handler)
  BY <1>h, OwnSteps
<1>w. fin[Handler].at \in Written => fin'[Handler].at \in Written
  BY <1>o
  DEF OwnStep, Moved, DrainEffect, SaveWavEffect, LookUpEffect, FillEffect, FillUrlEffect, InsertEffect, Written
<1>1. ASSUME NEW i \in 1..Len(rows'), rows'[i].turns > 0 PROVE fin'[Handler].at \in Written
  <2>0. ASSUME i \in 1..Len(rows), rows'[i].turns = rows[i].turns PROVE fin'[Handler].at \in Written
    BY <2>0, <1>1, <1>k, <1>w
  <2>1. CASE rows' = rows
    BY <2>0, <2>1
  <2>2. ASSUME NEW f \in Finalizers, FillEffect(f), rows' # rows PROVE fin'[Handler].at \in Written
    <3>1. f = Handler
      BY <2>2, <1>a, OnlyHandler DEF FillEffect, Moved
    <3> QED
      BY <3>1, <2>2 DEF FillEffect, Moved, Written
  <2>3. ASSUME NEW f \in Finalizers, FillUrlEffect(f) PROVE fin'[Handler].at \in Written
    BY <2>3, <1>1, <2>0 DEF FillUrlEffect, Edited
  <2>4. ASSUME NEW f \in Finalizers, InsertEffect(f) PROVE fin'[Handler].at \in Written
    <3>1. f = Handler
      BY <2>4, <1>a, OnlyHandler DEF InsertEffect, Moved
    <3> QED
      BY <3>1, <2>4 DEF InsertEffect, Moved, Written
  <2>5. ASSUME NEW u \in Uploads, AttachEffect(u) PROVE fin'[Handler].at \in Written
    BY <2>5, <1>1, <2>0 DEF AttachEffect, Edited
  <2>6. ASSUME NEW u \in Uploads, InsertUploadEffect(u), rows' # rows PROVE fin'[Handler].at \in Written
    <3>1. CASE i \in 1..Len(rows)
      BY <3>1, <2>6, <2>0 DEF InsertUploadEffect, Added
    <3>2. CASE i \notin 1..Len(rows)
      BY <3>2, <2>6, <1>1, <1>t DEF InsertUploadEffect, Added
    <3> QED
      BY <3>1, <3>2
  <2> QED
    BY <2>1, <2>2, <2>3, <2>4, <2>5, <2>6, RowWrites DEF RowSteps
<1>2. ASSUME faults' = 0, fin'[Handler].at = "insert" PROVE fin'[Handler].seen = 0
  <2>0. faults = 0
    BY <1>2, RestMoves DEF RestSteps
  <2>1. CASE fin'[Handler] = fin[Handler]
    BY <2>0, <2>1, <1>2, <1>k
  <2>2. CASE LookUpEffect(Handler)
    <3>1. Len(rows) = 0 \/ rows[Len(rows)].turns > 0
      BY <2>2, <1>2 DEF LookUpEffect
    <3>2. fin[Handler].at \notin Written
      BY <2>2 DEF LookUpEffect, Written
    <3>3. Len(rows) = 0
      BY <3>1, <3>2, <1>k, <1>t
    <3> QED
      BY <3>3, <2>2, <1>2 DEF LookUpEffect
  <2> QED
    BY <2>1, <2>2, <1>2, <1>o
    DEF OwnStep, Moved, DrainEffect, SaveWavEffect, FillEffect, FillUrlEffect, InsertEffect
<1>3. ASSUME faults' = 0, NEW j \in 1..Len(rows') PROVE rows'[j].seen = 0
  <2>0. faults = 0
    BY <1>3, RestMoves DEF RestSteps
  <2>1. CASE j \in 1..Len(rows)
    BY <2>0, <2>1, <1>k, RowsKept
  <2>2. CASE j \notin 1..Len(rows)
    <3>1. ASSUME NEW f \in Finalizers, InsertEffect(f) PROVE rows'[j].seen = 0
      <4>1. f = Handler
        BY <3>1, <1>a, OnlyHandler DEF InsertEffect, Moved
      <4> QED
        BY <4>1, <3>1, <2>2, <2>0, <1>k, <1>t DEF InsertEffect, Moved, Added
    <3>2. ASSUME NEW u \in Uploads, InsertUploadEffect(u) PROVE rows'[j].seen = 0
      BY <3>2, <2>2, <2>0, <1>t DEF InsertUploadEffect, UplMoved, Added, SeenFull
    <3> QED
      BY <3>1, <3>2, <2>2, <1>t, RowWrites DEF RowSteps, FillEffect, FillUrlEffect, AttachEffect, Edited
  <2> QED
    BY <2>1, <2>2
<1> QED
  BY <1>1, <1>2, <1>3

\* SimAlone is inductive.
LEMMA SimAloneKept == Base /\ SimAlone /\ [Next]_vars => SimAlone'
<1> SUFFICES ASSUME Base, SimAlone, [Next]_vars PROVE SimAlone'
  OBVIOUS
<1>h. Handler \in Finalizers
  BY Actors
<1>t. Len(rows) \in Nat /\ rows \in Seq(Row) /\ sim \in BOOLEAN /\ listed \in BOOLEAN
  BY DEF Base, TypeOK
<1>s. sim' = sim
  BY RestMoves DEF RestSteps
<1>o. OwnStep(Handler)
  BY <1>h, OwnSteps
<1>w. fin[Handler].at \in {"conclude", "end"} => fin'[Handler].at \in {"conclude", "end"}
  BY <1>o
  DEF OwnStep, Moved, DrainEffect, SaveWavEffect, LookUpEffect, FillEffect, FillUrlEffect, InsertEffect
<1>1. ASSUME sim' PROVE ~listed' /\ Alone'
  <2>1. ~listed /\ Alone
    BY <1>1, <1>s DEF SimAlone
  <2>2. ~listed'
    BY <2>1, RestMoves DEF RestSteps
  <2>3. ASSUME NEW f \in Forced PROVE fin'[f].at = "none"
    BY <2>1, RestMoves DEF RestSteps, Alone
  <2> QED
    BY <2>2, <2>3 DEF Alone
<1>2. ASSUME NEW u \in Uploads, upl'[u].at # "none" PROVE sim'
  <2>1. upl[u].at # "none" \/ sim
    BY <1>2, OwnUploads
    DEF OwnUpload, UplMoved, FoundEffect, NoneEffect, AttachEffect, InsertUploadEffect
  <2> QED
    BY <2>1, <1>s DEF SimAlone
<1>3. ASSUME sim', NEW i \in 1..Len(rows'), rows'[i].rec = "none" PROVE fin'[Handler].at \in {"conclude", "end"}
  <2>a. Alone /\ sim
    BY <1>3, <1>s DEF SimAlone
  <2>0. ASSUME i \in 1..Len(rows), rows'[i].rec = rows[i].rec PROVE fin'[Handler].at \in {"conclude", "end"}
    BY <2>0, <2>a, <1>3, <1>w DEF SimAlone
  <2>1. CASE rows' = rows
    BY <2>0, <2>1
  <2>2. ASSUME NEW f \in Finalizers, FillEffect(f) PROVE fin'[Handler].at \in {"conclude", "end"}
    BY <2>2, <1>3, <2>0 DEF FillEffect, Edited
  <2>3. ASSUME NEW f \in Finalizers, FillUrlEffect(f) \/ InsertEffect(f)
        PROVE  fin'[Handler].at \in {"conclude", "end"}
    <3>1. f = Handler
      BY <2>3, <2>a, OnlyHandler DEF FillUrlEffect, InsertEffect, Moved
    <3> QED
      BY <3>1, <2>3 DEF FillUrlEffect, InsertEffect, Moved
  <2>4. ASSUME NEW u \in Uploads, AttachEffect(u) PROVE fin'[Handler].at \in {"conclude", "end"}
    BY <2>4, <1>3, <2>0 DEF AttachEffect, Edited
  <2>5. ASSUME NEW u \in Uploads, InsertUploadEffect(u) PROVE fin'[Handler].at \in {"conclude", "end"}
    <3>1. CASE i \in 1..Len(rows)
      BY <3>1, <2>5, <2>0 DEF InsertUploadEffect, Added
    <3>2. CASE i \notin 1..Len(rows)
      BY <3>2, <2>5, <1>3, <1>t DEF InsertUploadEffect, Added
    <3> QED
      BY <3>1, <3>2
  <2> QED
    BY <2>1, <2>2, <2>3, <2>4, <2>5, RowWrites DEF RowSteps
<1>4. ASSUME NEW u \in Uploads, upl'[u].at = "attach"
      PROVE  rows'[upl'[u].row].rec \notin Finalizers /\ fin'[Handler].at \in {"conclude", "end"}
  <2>1. upl'[u] = upl[u] \/ FoundEffect(u)
    BY <1>4, OwnUploads DEF OwnUpload, UplMoved, NoneEffect, AttachEffect, InsertUploadEffect
  <2>2. CASE FoundEffect(u)
    <3>1. /\ upl'[u].row = Len(rows) /\ rows' = rows /\ rows[Len(rows)].rec = "none"
          /\ Len(rows) \in 1..Len(rows) /\ upl[u].at = "poll"
      BY <2>2, <1>4, <1>t DEF FoundEffect
    <3>2. sim
      BY <3>1 DEF SimAlone
    <3>3. fin[Handler].at \in {"conclude", "end"}
      BY <3>1, <3>2 DEF SimAlone
    <3> QED
      BY <3>1, <3>3, <1>w, Actors
  <2>3. CASE upl'[u] = upl[u]
    <3> DEFINE n == upl[u].row
    <3>1. n \in 1..Len(rows) /\ rows[n].rec \notin Finalizers /\ fin[Handler].at \in {"conclude", "end"} /\ sim
      BY <2>3, <1>4 DEF SimAlone, Base, RowsKnown
    <3>2. ASSUME NEW f \in Finalizers, FillUrlEffect(f) PROVE FALSE
      <4>1. f = Handler
        BY <3>1, <3>2, OnlyHandler DEF FillUrlEffect, Moved, SimAlone
      <4> QED
        BY <4>1, <3>1, <3>2 DEF FillUrlEffect, Moved
    <3>3. ASSUME NEW f \in Finalizers, FillEffect(f) \/ InsertEffect(f) PROVE rows'[n].rec \notin Finalizers
      BY <3>1, <3>3 DEF FillEffect, InsertEffect, Edited, Added
    <3>4. ASSUME NEW v \in Uploads, AttachEffect(v) \/ InsertUploadEffect(v) PROVE rows'[n].rec \notin Finalizers
      BY <3>1, <3>4, Actors DEF AttachEffect, InsertUploadEffect, Edited, Added
    <3>5. rows'[n].rec \notin Finalizers
      BY <3>1, <3>2, <3>3, <3>4, RowWrites DEF RowSteps
    <3> QED
      BY <2>3, <3>1, <3>5, <1>w
  <2> QED
    BY <2>1, <2>2, <2>3
<1> QED
  BY <1>1, <1>2, <1>3, <1>4 DEF SimAlone

\* Once the handler has drained, the buffers are empty for good and its request holds
\* the whole history.
Copied ==
  /\ fin[Handler].at \notin {"none", "sleep"}
  /\ buffer => fin[Handler].at \in {"loop", "wait", "drain"}
  /\ fin[Handler].at \notin {"loop", "wait", "drain"} => fin[Handler].turns = turns

\* The recording of the server is on a row; a finalizer still has it in hand.
OnARow == \E i \in 1..Len(rows) : rows[i].rec \in Finalizers
InHand(f) == fin[f].audio /\ fin[f].at \in {"wav", "lookup", "fill", "url", "insert"}

\* Audio is in the buffers, in the hands of a finalizer or on a row.
AudioKept == faults = 0 /\ heard => buffer \/ OnARow \/ \E f \in Finalizers : InHand(f)

\* Before its drain a finalizer has no audio, and it stores a WAV only if it has.
\* A WAV is on a row that its finalizer made or found.
WavOwned ==
  /\ \A f \in Finalizers :
       /\ fin[f].at = "url" => fin[f].audio
       /\ fin[f].at \in {"none", "sleep", "loop", "wait", "drain"} => ~fin[f].audio
  /\ \A f \in Finalizers, i \in 1..Len(rows) :
       rows[i].rec = f => rows[i].by = f \/ fin[f].row = i

\* The WAV of f is on a row.  What f drained is there, in its hand or overwritten.
Placed(f) == \E i \in 1..Len(rows) : rows[i].rec = f
WavKept ==
  faults = 0 =>
    \A f \in Finalizers : fin[f].audio => InHand(f) \/ Placed(f) \/ Overwritten(f)

\* Once the handler has written, a row that no other finalizer found empty has the
\* whole conversation, or another found the handler's.
HistoryKept ==
  faults = 0 /\ fin[Handler].at \in Written /\ turns > 0 =>
    \/ SharesRow(Handler)
    \/ \E i \in 1..Len(rows) :
         rows[i].turns = turns /\ \A g \in Finalizers \ {Handler} : fin[g].row # i

\* Copied is inductive: only a drain takes what is buffered.
LEMMA CopiedKept == Base /\ Copied /\ [Next]_vars => Copied'
<1> SUFFICES ASSUME Base, Copied, [Next]_vars PROVE Copied'
  OBVIOUS
<1>o. OwnStep(Handler) /\ RestSteps
  BY Actors, OwnSteps, RestMoves
<1>1. fin'[Handler].at \notin {"none", "sleep"}
  BY <1>o, ActorsAssumption
  DEF Copied, OwnStep, Moved, DrainEffect, SaveWavEffect, LookUpEffect, FillEffect, FillUrlEffect, InsertEffect
<1>d. fin'[Handler].at \in {"loop", "wait", "drain"} \/ DrainEffect(Handler)
      \/ fin[Handler].at \notin {"loop", "wait", "drain"}
  BY <1>o
  DEF Copied, OwnStep, Moved, SaveWavEffect, LookUpEffect, FillEffect, FillUrlEffect, InsertEffect
<1>2. ASSUME buffer', fin'[Handler].at \notin {"loop", "wait", "drain"} PROVE FALSE
  <2>1. buffer' = buffer \/ (fin' = fin /\ fin[Handler].at \in {"loop", "wait"})
    BY <1>2, <1>o DEF RestSteps
  <2>2. buffer' = buffer
    BY <2>1, <1>2
  <2>3. fin[Handler].at \in {"loop", "wait", "drain"}
    BY <2>2, <1>2 DEF Copied
  <2>4. Drain(Handler)
    <3>1. DrainEffect(Handler)
      BY <2>3, <1>2, <1>d
    <3>2. fin'[Handler] # fin[Handler] /\ fin[Handler].at = "drain" /\ fin'[Handler].at = "wav"
      BY <3>1 DEF DrainEffect
    <3>3. ~(\E g \in Forced : CloseCall(g) \/ Wake(g))
      <4>1. ASSUME NEW g \in Forced, CloseCall(g) \/ Wake(g) PROVE FALSE
        BY <4>1, <3>2, ActorsAssumption, Actors DEF CloseCall, Wake, Goto, Base, TypeOK
      <4> QED
        BY <4>1
    <3>4. ~(\E u \in Uploads : Attaching(u)) /\ ~Converse /\ ~Record /\ ~Leave /\ ~LoopEnds /\ ~Waited /\ ~(UNCHANGED vars)
      BY <3>2 DEF Attaching, StartUpload, PollFound, PollNone, Attach, InsertUpload, Abandon, Converse, Record, Leave,
                  LoopEnds, Waited, vars
    <3>5. PICK g \in Finalizers : Finalize(g)
      BY <3>3, <3>4 DEF Next
    <3>6. g = Handler
      BY <3>2, <3>5, Actors
      DEF Base, TypeOK, Finalize, Drain, SaveWav, LookUp, Fill, FillUrl, Insert, Conclude, Goto
    <3> QED
      BY <3>2, <3>5, <3>6 DEF Finalize, SaveWav, LookUp, Fill, FillUrl, Insert, Conclude
  <2> QED
    BY <2>4, <1>2 DEF Drain
<1>3. ASSUME fin'[Handler].at \notin {"loop", "wait", "drain"} PROVE fin'[Handler].turns = turns'
  <2>1. turns' = turns
    BY <1>3, <1>o DEF RestSteps
  <2>2. CASE DrainEffect(Handler)
    BY <2>1, <2>2 DEF DrainEffect
  <2>3. CASE fin[Handler].at \notin {"loop", "wait", "drain"}
    BY <2>1, <2>3, <1>o
    DEF Copied, OwnStep, Moved, DrainEffect, SaveWavEffect, LookUpEffect, FillEffect, FillUrlEffect, InsertEffect
  <2> QED
    BY <2>2, <2>3, <1>3, <1>d
<1> QED
  BY <1>1, <1>2, <1>3 DEF Copied

\* No step takes the recording of the server off a row.
LEMMA OnARowKept == Base /\ SimAlone /\ [Next]_vars /\ OnARow => OnARow'
<1> SUFFICES ASSUME Base, SimAlone, [Next]_vars, NEW i \in 1..Len(rows), rows[i].rec \in Finalizers
             PROVE  \E j \in 1..Len(rows') : rows'[j].rec \in Finalizers
  BY DEF OnARow
<1>t. Len(rows) \in Nat /\ Len(rows') \in Nat /\ Len(rows') >= Len(rows)
  BY RowsKept DEF Base, TypeOK
<1>1. ASSUME NEW f \in Finalizers, FillEffect(f) \/ FillUrlEffect(f) \/ InsertEffect(f) PROVE rows'[i].rec \in Finalizers
  BY <1>1 DEF FillEffect, FillUrlEffect, InsertEffect, Edited, Added
<1>2. ASSUME NEW u \in Uploads, AttachEffect(u) \/ InsertUploadEffect(u) PROVE rows'[i].rec \in Finalizers
  BY <1>2 DEF AttachEffect, InsertUploadEffect, UplMoved, Edited, Added, SimAlone
<1>3. rows'[i].rec \in Finalizers
  BY <1>1, <1>2, RowWrites DEF RowSteps
<1> QED
  BY <1>t, <1>3

\* A recording is not forgotten by a finalizer that has found a row.
LEMMA AudioOfRequestKept ==
  ASSUME Base, [Next]_vars, NEW f \in Finalizers, fin[f].row # NoRow PROVE fin'[f].audio = fin[f].audio
<1>1. fin[f].at \notin Early
  BY DEF Base, RowsKnown
<1> QED
  BY <1>1, OwnSteps
  DEF OwnStep, Moved, DrainEffect, SaveWavEffect, LookUpEffect, FillEffect, FillUrlEffect, InsertEffect, Early

\* A row keeps its maker.
LEMMA MakerKept ==
  ASSUME Base, [Next]_vars, NEW i \in 1..Len(rows) PROVE rows'[i].by = rows[i].by
<1>1. CASE rows' = rows
  BY <1>1
<1>2. CASE Added
  BY <1>2 DEF Added
<1>3. ASSUME NEW n, Edited(n) PROVE rows'[i].by = rows[i].by
  BY <1>3 DEF Edited
<1>4. \/ rows' = rows \/ Added \/ \E n : Edited(n)
  BY RowWrites
  DEF RowSteps, FillEffect, FillUrlEffect, InsertEffect, AttachEffect, InsertUploadEffect
<1> QED
  BY <1>1, <1>2, <1>3, <1>4

\* WavOwned is inductive: a WAV is written with the INSERT of a row or into the row
\* its finalizer found.
LEMMA WavOwnedKept == Base /\ WavOwned /\ [Next]_vars => WavOwned'
<1> SUFFICES ASSUME Base, WavOwned, [Next]_vars PROVE WavOwned'
  OBVIOUS
<1>t. rows \in Seq(Row) /\ Len(rows) \in Nat /\ fin \in [Finalizers -> Request]
  BY DEF Base, TypeOK
<1>1. ASSUME NEW f \in Finalizers
      PROVE  /\ fin'[f].at = "url" => fin'[f].audio
             /\ fin'[f].at \in {"none", "sleep", "loop", "wait", "drain"} => ~fin'[f].audio
  <2>o. OwnStep(f) /\ fin[f] \in Request
    BY <1>t, OwnSteps
  <2>w. /\ fin[f].at = "url" => fin[f].audio
        /\ fin[f].at \in {"none", "sleep", "loop", "wait", "drain"} => ~fin[f].audio
    BY DEF WavOwned
  <2>1. CASE FillEffect(f)
    <3>1. fin[f].audio \in BOOLEAN
      BY <2>o DEF Request
    <3>2. fin'[f].audio = fin[f].audio /\ (fin'[f].at = "url" => fin[f].audio)
          /\ fin'[f].at \in {"url", "conclude", "insert"}
      BY <2>1, <3>1 DEF FillEffect, Moved
    <3> QED
      BY <3>2
  <2>2. CASE ~FillEffect(f)
    BY <2>2, <2>o, <2>w
    DEF OwnStep, Moved, DrainEffect, SaveWavEffect, LookUpEffect, FillUrlEffect, InsertEffect
  <2> QED
    BY <2>1, <2>2
<1>2. ASSUME NEW f \in Finalizers, NEW i \in 1..Len(rows'), rows'[i].rec = f
      PROVE  rows'[i].by = f \/ fin'[f].row = i
  <2>0. ASSUME i \in 1..Len(rows), rows[i].rec = f PROVE rows'[i].by = f \/ fin'[f].row = i
    <3>1. rows[i].by = f \/ (fin[f].row = i /\ fin[f].row # NoRow)
      BY <2>0, <1>t DEF WavOwned, NoRow
    <3> QED
      BY <2>0, <3>1, MakerKept, RowOfRequestKept
  <2>1. CASE rows' = rows
    BY <1>2, <2>0, <2>1
  <2>2. ASSUME NEW g \in Finalizers, FillEffect(g) PROVE rows'[i].by = f \/ fin'[f].row = i
    BY <1>2, <2>0, <2>2 DEF FillEffect, Edited
  <2>3. ASSUME NEW g \in Finalizers, FillUrlEffect(g) PROVE rows'[i].by = f \/ fin'[f].row = i
    BY <1>2, <2>0, <2>3 DEF FillUrlEffect, Edited, Moved
  <2>4. ASSUME NEW g \in Finalizers, InsertEffect(g) PROVE rows'[i].by = f \/ fin'[f].row = i
    <3>1. CASE i \in 1..Len(rows)
      BY <1>2, <2>0, <2>4, <3>1 DEF InsertEffect, Added
    <3>2. CASE i \notin 1..Len(rows) /\ rows' # rows
      <4>1. i = Len(rows') /\ rows'[i].by = g /\ rows'[i].rec \in {g, "none"}
        BY <1>t, <2>4, <3>2 DEF InsertEffect, Added
      <4> QED
        BY <1>2, <4>1, Actors
    <3> QED
      BY <2>1, <3>1, <3>2
  <2>5. ASSUME NEW u \in Uploads, AttachEffect(u) PROVE rows'[i].by = f \/ fin'[f].row = i
    BY <1>2, <2>0, <2>5, Actors DEF AttachEffect, Edited
  <2>6. ASSUME NEW u \in Uploads, InsertUploadEffect(u) PROVE rows'[i].by = f \/ fin'[f].row = i
    BY <1>2, <1>t, <2>0, <2>6, Actors DEF InsertUploadEffect, Added
  <2> QED
    BY <2>1, <2>2, <2>3, <2>4, <2>5, <2>6, RowWrites DEF RowSteps
<1> QED
  BY <1>1, <1>2 DEF WavOwned

\* What was overwritten stays overwritten.
LEMMA OverwrittenKept ==
  ASSUME Base, [Next]_vars, NEW f \in Finalizers, Overwritten(f) PROVE Overwritten(f)'
<1>1. PICK g \in Finalizers \ {f} : /\ fin[g].audio /\ fin[g].row # NoRow
                                    /\ fin[g].row = fin[f].row \/ rows[fin[g].row].by = f
  BY DEF Overwritten
<1>2. fin'[g].audio /\ fin'[g].row = fin[g].row
  BY <1>1, AudioOfRequestKept, RowOfRequestKept
<1>3. fin[g].row \in 1..Len(rows)
  BY <1>1 DEF Base, TypeOK, RowsKnown, NoRow
<1>4. fin'[g].row = fin'[f].row \/ rows'[fin'[g].row].by = f
  BY <1>1, <1>2, <1>3, RowOfRequestKept, MakerKept
<1> QED
  BY <1>1, <1>2, <1>4 DEF Overwritten

\* A WAV leaves its row only when another finalizer that has one found the row empty.
LEMMA PlacedKept ==
  ASSUME Base, SimAlone, WavOwned, [Next]_vars, NEW f \in Finalizers, Placed(f)
  PROVE  Placed(f)' \/ Overwritten(f)
<1>1. PICK i \in 1..Len(rows) : rows[i].rec = f
  BY DEF Placed
<1>t. Len(rows) \in Nat /\ Len(rows') \in Nat /\ i \in 1..Len(rows')
  BY <1>1, RowsKept DEF Base, TypeOK
<1>2. CASE rows'[i].rec = f
  BY <1>t, <1>2 DEF Placed
<1>3. ASSUME NEW g \in Finalizers, FillUrlEffect(g), rows'[i].rec # f PROVE Overwritten(f)
  <2>1. fin[g].row = i /\ g # f
    BY <1>1, <1>3 DEF FillUrlEffect, Edited
  <2>2. fin[g].audio /\ fin[g].row # NoRow
    BY <1>3, <2>1 DEF FillUrlEffect, Moved, WavOwned, NoRow
  <2>3. rows[i].by = f \/ fin[f].row = i
    BY <1>1 DEF WavOwned
  <2> QED
    BY <2>1, <2>2, <2>3 DEF Overwritten
<1>4. ASSUME NEW g \in Finalizers, FillEffect(g) \/ InsertEffect(g) PROVE rows'[i].rec = f
  BY <1>1, <1>4 DEF FillEffect, InsertEffect, Edited, Added
<1>5. ASSUME NEW u \in Uploads, AttachEffect(u) \/ InsertUploadEffect(u) PROVE rows'[i].rec = f
  BY <1>1, <1>5 DEF AttachEffect, InsertUploadEffect, UplMoved, Edited, Added, SimAlone
<1>6. CASE rows' = rows
  BY <1>1, <1>2, <1>6
<1> QED
  BY <1>2, <1>3, <1>4, <1>5, <1>6, RowWrites DEF RowSteps

\* Who has a WAV in hand still has it after a step, or has put it on a row.
LEMMA InHandKept ==
  ASSUME Base, [Next]_vars, NEW f \in Finalizers, InHand(f), faults' = 0
  PROVE  InHand(f)' \/ Placed(f)'
<1>t. rows \in Seq(Row)
  BY DEF Base, TypeOK
<1>o. OwnStep(f)
  BY OwnSteps
<1>1. CASE fin'[f] = fin[f]
  BY <1>1 DEF InHand
<1>2. CASE SaveWavEffect(f)
  <2>1. fin'[f].audio = fin[f].audio
    BY <1>2 DEF SaveWavEffect
  <2>2. fin'[f].at = "lookup"
    BY <1>2, <2>1 DEF SaveWavEffect, InHand
  <2> QED
    BY <2>1, <2>2 DEF InHand
<1>3. CASE LookUpEffect(f)
  <2>1. fin'[f].audio = fin[f].audio /\ fin'[f].at \in {"fill", "insert"}
    BY <1>3 DEF LookUpEffect
  <2> QED
    BY <2>1 DEF InHand
<1>4. CASE FillEffect(f)
  <2>0. ~(faults' > 0)
    OBVIOUS
  <2>1. Moved(f, "fill", IF fin[f].audio THEN "url" ELSE "conclude")
    BY <1>4, <2>0, Zenon DEF FillEffect
  <2>2. fin'[f].audio = fin[f].audio /\ fin'[f].at = "url"
    BY <2>1, Zenon DEF Moved, InHand
  <2> QED
    BY <2>2 DEF InHand
<1>5. CASE FillUrlEffect(f)
  BY <1>5 DEF FillUrlEffect, Edited, Placed
<1>6. CASE InsertEffect(f)
  <2>1. Added /\ rows'[Len(rows')].rec = f
    BY <1>6 DEF InsertEffect, InHand
  <2>2. Len(rows') \in 1..Len(rows')
    BY <2>1, <1>t DEF Added
  <2> QED
    BY <2>1, <2>2 DEF Placed
<1>7. fin[f].at \notin {"none", "sleep", "loop", "wait", "drain", "conclude"}
  BY DEF InHand
<1> QED
  BY <1>o, <1>1, <1>2, <1>3, <1>4, <1>5, <1>6, <1>7 DEF OwnStep, Moved, DrainEffect

\* WavKept is inductive.
LEMMA WavKeptOn == Base /\ SimAlone /\ WavOwned /\ WavKept /\ [Next]_vars => WavKept'
<1> SUFFICES ASSUME Base, SimAlone, WavOwned, WavKept, [Next]_vars, faults' = 0,
                    NEW f \in Finalizers, fin'[f].audio
             PROVE  InHand(f)' \/ Placed(f)' \/ Overwritten(f)'
  BY DEF WavKept
<1>r. faults = 0
  BY RestMoves DEF RestSteps
<1>1. CASE DrainEffect(f)
  BY <1>1 DEF DrainEffect, InHand
<1>2. CASE ~DrainEffect(f)
  <2>1. fin[f].audio
    BY <1>2, OwnSteps
    DEF OwnStep, Moved, SaveWavEffect, LookUpEffect, FillEffect, FillUrlEffect, InsertEffect
  <2>2. InHand(f) \/ Placed(f) \/ Overwritten(f)
    BY <1>r, <2>1 DEF WavKept
  <2> QED
    BY <2>2, InHandKept, PlacedKept, OverwrittenKept
<1> QED
  BY <1>1, <1>2

\* AudioKept is inductive: each statement hands the audio on, or fails.
LEMMA AudioKeptOn == Base /\ SimAlone /\ AudioKept /\ [Next]_vars => AudioKept'
<1> SUFFICES ASSUME Base, SimAlone, AudioKept, [Next]_vars, faults' = 0, heard'
             PROVE  buffer' \/ OnARow' \/ \E f \in Finalizers : InHand(f)'
  BY DEF AudioKept
<1>t. rows \in Seq(Row) /\ buffer \in BOOLEAN /\ heard \in BOOLEAN
  BY DEF Base, TypeOK
<1>r. faults = 0 /\ (heard' = heard \/ buffer')
  BY RestMoves DEF RestSteps
<1>1. CASE heard' # heard
  BY <1>1, <1>r
<1>2. CASE heard /\ buffer
  <2>1. CASE buffer' = buffer
    BY <2>1, <1>2
  <2>2. ASSUME NEW f \in Finalizers, DrainEffect(f) PROVE InHand(f)'
    BY <2>2, <1>2 DEF DrainEffect, InHand
  <2> QED
    BY <2>1, <2>2, RestMoves DEF RestSteps
<1>3. CASE heard /\ OnARow
  BY <1>3, OnARowKept
<1>4. ASSUME NEW f \in Finalizers, InHand(f) PROVE OnARow' \/ InHand(f)'
  BY <1>4, InHandKept DEF Placed, OnARow
<1> QED
  BY <1>1, <1>2, <1>3, <1>4, <1>r, <1>t DEF AudioKept

\* Who shares a row with another goes on sharing it.
LEMMA SharesRowKept ==
  ASSUME Base, [Next]_vars, NEW f \in Finalizers, SharesRow(f) PROVE SharesRow(f)'
<1>1. PICK g \in Finalizers \ {f} : fin[g].row # NoRow /\ fin[g].row = fin[f].row
  BY DEF SharesRow
<1>2. fin'[g].row = fin[g].row /\ fin'[f].row = fin[f].row
  BY <1>1, RowOfRequestKept
<1> QED
  BY <1>1, <1>2 DEF SharesRow

\* Only who looks finds a row, and only the newest one, if it is empty.
LEMMA NotFound ==
  ASSUME Base, [Next]_vars, NEW g \in Finalizers, NEW i \in 1..Len(rows),
         fin[g].row # i, rows[i].turns > 0
  PROVE  fin'[g].row # i
<1>1. CASE LookUpEffect(g)
  BY <1>1 DEF LookUpEffect
<1>2. CASE ~LookUpEffect(g)
  BY <1>2, OwnSteps
  DEF OwnStep, Moved, DrainEffect, SaveWavEffect, FillEffect, FillUrlEffect, InsertEffect
<1> QED
  BY <1>1, <1>2

\* HistoryKept is inductive.
LEMMA HistoryKeptOn == Base /\ Copied /\ HistoryKept /\ [Next]_vars => HistoryKept'
<1> DEFINE Mine(i) == \A g \in Finalizers \ {Handler} : fin[g].row # i
<1> SUFFICES ASSUME Base, Copied, HistoryKept, [Next]_vars,
                    faults' = 0, fin'[Handler].at \in Written, turns' > 0
             PROVE  SharesRow(Handler)' \/ \E i \in 1..Len(rows') : rows'[i].turns = turns' /\ Mine(i)'
  BY DEF HistoryKept
<1>t. Len(rows) \in Nat /\ Len(rows') \in Nat /\ Len(rows') >= Len(rows) /\ rows \in Seq(Row)
  BY RowsKept DEF Base, TypeOK
<1>o. OwnStep(Handler) /\ Handler \in Finalizers
  BY Actors, OwnSteps
<1>r. faults = 0 /\ turns' = turns
  BY RestMoves DEF RestSteps, Written
<1>1. CASE fin[Handler].at \in Written
  <2>1. CASE SharesRow(Handler)
    BY <2>1, <1>o, SharesRowKept
  <2>2. ASSUME NEW i \in 1..Len(rows), rows[i].turns = turns, Mine(i)
        PROVE  rows'[i].turns = turns' /\ Mine(i)'
    <3>1. Mine(i)'
      BY <2>2, <1>r, NotFound
    <3>2. ASSUME NEW g \in Finalizers, FillEffect(g) PROVE rows'[i].turns = turns
      <4>1. fin[g].row # i
        BY <3>2, <2>2, <1>1 DEF FillEffect, Moved, Written
      <4> QED
        BY <4>1, <3>2, <2>2 DEF FillEffect, Edited
    <3>3. ASSUME NEW g \in Finalizers, FillUrlEffect(g) \/ InsertEffect(g) PROVE rows'[i].turns = turns
      BY <3>3, <2>2 DEF FillUrlEffect, InsertEffect, Edited, Added
    <3>4. ASSUME NEW u \in Uploads, AttachEffect(u) \/ InsertUploadEffect(u) PROVE rows'[i].turns = turns
      BY <3>4, <2>2 DEF AttachEffect, InsertUploadEffect, Edited, Added
    <3>5. rows'[i].turns = turns
      BY <2>2, <3>2, <3>3, <3>4, RowWrites DEF RowSteps
    <3> QED
      BY <3>1, <3>5, <1>r
  <2>3. ASSUME NEW i \in 1..Len(rows), rows[i].turns = turns, Mine(i)
        PROVE  \E j \in 1..Len(rows') : rows'[j].turns = turns' /\ Mine(j)'
    BY <2>3, <2>2, <1>t
  <2>4. SharesRow(Handler) \/ \E i \in 1..Len(rows) : rows[i].turns = turns /\ Mine(i)
    BY <1>1, <1>r DEF HistoryKept
  <2> QED
    BY <2>1, <2>3, <2>4
<1>2. CASE fin[Handler].at \notin Written
  <2>1. fin[Handler].at \notin {"loop", "wait", "drain"} => fin[Handler].turns = turns
    BY DEF Copied
  <2>2. CASE FillEffect(Handler)
    <3>0. PICK n \in 1..Len(rows) : n = fin[Handler].row
      BY <2>2, <1>r DEF FillEffect, Edited
    <3>1. Edited(n) /\ rows'[n].turns = turns /\ Only(Handler) /\ fin'[Handler].row = n
      BY <3>0, <2>1, <2>2, <1>r DEF FillEffect, Moved
    <3>2. ASSUME Mine(n) PROVE Mine(n)' /\ n \in 1..Len(rows') /\ rows'[n].turns = turns'
      BY <3>1, <3>2, <1>r DEF Only, Edited
    <3>3. ASSUME ~Mine(n) PROVE SharesRow(Handler)'
      <4>1. PICK g \in Finalizers \ {Handler} : fin[g].row = n
        BY <3>3
      <4>2. fin'[g].row = n /\ n # NoRow
        BY <3>0, <3>1, <4>1, <1>t DEF Only, NoRow
      <4> QED
        BY <3>1, <4>2 DEF SharesRow
    <3> QED
      BY <3>2, <3>3
  <2>3. CASE InsertEffect(Handler)
    <3> DEFINE n == Len(rows')
    <3>1. Added /\ rows'[n].turns = turns /\ Only(Handler)
      BY <2>1, <2>3 DEF InsertEffect, Moved
    <3>2. n \in 1..Len(rows') /\ n = Len(rows) + 1
      BY <3>1, <1>t DEF Added
    <3>3. ASSUME NEW g \in Finalizers \ {Handler} PROVE fin'[g].row # n
      BY <3>1, <3>2, <1>t DEF Only, Base, RowsKnown
    <3> HIDE DEF n
    <3> QED
      BY <3>1, <3>2, <3>3, <1>r
  <2>4. CASE SaveWavEffect(Handler)
    BY <2>1, <2>4, <1>r DEF SaveWavEffect, Written
  <2> QED
    BY <2>2, <2>3, <2>4, <1>2, <1>o DEF OwnStep, Moved, DrainEffect, LookUpEffect, FillUrlEffect, Written
<1> QED
  BY <1>1, <1>2

\* The inductive invariant.
Inv ==
  /\ Base /\ FilledOnce /\ SeenFull /\ HandlerAlone /\ SimAlone /\ Copied
  /\ AudioKept /\ WavOwned /\ WavKept /\ HistoryKept

\* It holds at the start of a call.
LEMMA InvInit == Init => Inv
<1> SUFFICES ASSUME Init PROVE Inv
  OBVIOUS
<1>1. fin \in [Finalizers -> Request] /\ upl \in [Uploads -> Upload]
  BY DEF Init, Request, Upload, FinState, NoRow
<1>2. TypeOK
  <2>1. /\ sim \in BOOLEAN /\ buffer \in BOOLEAN /\ socket \in BOOLEAN /\ listed \in BOOLEAN
        /\ heard \in BOOLEAN
    BY Zenon DEF Init
  <2>2. turns \in 0..MaxTurns /\ faults \in 0..MaxFaults /\ rows \in Seq(Row)
    BY DEF Init
  <2> QED
    BY <1>1, <2>1, <2>2, Zenon DEF TypeOK
<1>3. \A f \in Finalizers : /\ fin[f].at \in {"loop", "none"} /\ fin[f].row = NoRow /\ fin[f].seen = 0
                            /\ ~fin[f].audio
                            /\ f # Handler => fin[f].at = "none"
  BY DEF Init
<1>4. \A u \in Uploads : upl[u].at = "none" /\ upl[u].polls = 0 /\ upl[u].seen = 0
  BY DEF Init
<1>5. Len(rows) = 0 /\ fin[Handler].at = "loop" /\ ~heard /\ ~buffer /\ listed = ~sim
  BY Actors DEF Init
<1>6. RowsKnown
  BY <1>3, <1>4, <1>5 DEF RowsKnown, NoRow
<1>7. FilledOnce /\ SeenFull /\ HandlerAlone /\ AudioKept /\ HistoryKept /\ Copied
  BY <1>3, <1>4, <1>5 DEF FilledOnce, SeenFull, HandlerAlone, AudioKept, HistoryKept, Copied, Written
<1>9. WavOwned /\ WavKept
  BY <1>3, <1>5 DEF WavOwned, WavKept
<1>8. SimAlone
  <2>1. Alone
    BY <1>3, Actors, ActorsAssumption DEF Alone
  <2>2. sim => ~listed
    BY DEF Init
  <2>3. ~(\E i \in 1..Len(rows) : rows[i].rec = "none")
    BY <1>5
  <2> QED
    BY <2>1, <2>2, <2>3, <1>4 DEF SimAlone
<1> QED
  BY <1>2, <1>6, <1>7, <1>8, <1>9 DEF Inv, Base

\* Every step keeps it.
LEMMA InvKept == Inv /\ [Next]_vars => Inv'
BY BaseKept, FilledOnceKept, SeenFullKept, HandlerAloneKept, SimAloneKept, CopiedKept, AudioKeptOn, WavOwnedKept, WavKeptOn,
   HistoryKeptOn
DEF Inv

\* The inductive invariant holds in every reachable state.
THEOREM Invariant == Spec => []Inv
BY InvInit, InvKept, PTL DEF Spec

\* Types: every request, upload and row of a call is well formed in every
\* reachable state, and no upload polls more than MaxPolls times.
THEOREM TypeCorrect == Spec => []TypeOK
<1>1. Inv => TypeOK
  BY DEF Inv, Base
<1> QED
  BY <1>1, Invariant, PTL

\* "instead of creating a second, duplicate row" (service.go:136): a further row is
\* added only in a race, for any number of forced closes, uploads, turns and polls.
THEOREM DuplicatesComeFromRaces == Spec => []DuplicateRowOnlyWhenRacing
<1>1. Inv => DuplicateRowOnlyWhenRacing
  <2> SUFFICES ASSUME Inv PROVE DuplicateRowOnlyWhenRacing
    OBVIOUS
  <2> SUFFICES ASSUME NEW i \in DOMAIN rows, NEW j \in DOMAIN rows, i < j, rows[j].seen >= i, faults = 0
               PROVE  /\ \E f \in Forced : fin[f].at # "none"
                      /\ Shared \/ rows[rows[j].seen].turns > 0
    <3>1. rows \in Seq(Row) /\ faults \in Nat
      BY DEF Inv, Base, TypeOK
    <3>2. ASSUME NEW k \in DOMAIN rows PROVE rows[k].seen \in Nat /\ k \in Nat
      <4>1. rows[k] \in Row /\ k \in 1..Len(rows)
        BY <3>1
      <4> QED
        BY <4>1 DEF Row
    <3> QED
      BY <3>1, <3>2 DEF DuplicateRowOnlyWhenRacing
  <2>1. rows \in Seq(Row) /\ i \in 1..Len(rows) /\ j \in 1..Len(rows)
    BY DEF Inv, Base, TypeOK
  <2>2. rows[j].seen # 0
    <3>1. rows[j] \in Row
      BY <2>1
    <3> QED
      BY <2>1, <3>1 DEF Row
  <2>3. Shared \/ rows[rows[j].seen].turns > 0
    BY <2>1, <2>2 DEF Inv, SeenFull, Seen
  <2>4. ~Alone
    BY <2>1, <2>2 DEF Inv, HandlerAlone
  <2> QED
    BY <2>3, <2>4 DEF Alone
<1> QED
  BY <1>1, Invariant, PTL

\* The server's recording is the canonical one (misc.go:456).  Without a failure,
\* when all finalizers are through, what each of them drained is on a row, or
\* another with audio of its own found that row empty and put its own recording
\* there; and the whole conversation is on a row, or another found the handler's
\* row empty: for any number of forced closes and uploads.
THEOREM EveryCallIsRecorded == Spec => []CallIsRecorded
<1>1. Inv => CallIsRecorded
  <2> SUFFICES ASSUME Inv PROVE CallIsRecorded
    OBVIOUS
  <2> SUFFICES ASSUME Settled, fin[Handler].at = "end", faults = 0
               PROVE  /\ ~buffer /\ (heard => \E i \in DOMAIN rows : rows[i].rec \in Finalizers)
                      /\ \A f \in Finalizers :
                           fin[f].audio => Overwritten(f) \/ \E i \in DOMAIN rows : rows[i].rec = f
                      /\ turns > 0 => SharesRow(Handler) \/ \E i \in DOMAIN rows : rows[i].turns = turns
    BY DEF CallIsRecorded
  <2>0. DOMAIN rows = 1..Len(rows)
    BY DEF Inv, Base, TypeOK
  <2>1. ~buffer
    BY DEF Inv, Copied
  <2>2. \A f \in Finalizers : ~InHand(f)
    BY DEF Settled, InHand
  <2>3. heard => OnARow
    BY <2>1, <2>2 DEF Inv, AudioKept
  <2>4. \A f \in Finalizers : fin[f].audio => Placed(f) \/ Overwritten(f)
    BY <2>2 DEF Inv, WavKept
  <2>5. turns > 0 => SharesRow(Handler) \/ \E i \in 1..Len(rows) : rows[i].turns = turns
    BY DEF Inv, HistoryKept, Written
  <2> QED
    BY <2>0, <2>1, <2>3, <2>4, <2>5 DEF OnARow, Placed
<1> QED
  BY <1>1, Invariant, PTL
=============================================================================
