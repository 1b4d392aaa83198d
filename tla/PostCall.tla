------------------------------ MODULE PostCall ------------------------------
(***************************************************************************)
(* What is kept of one call: the transcript rows of its call_sid and the   *)
(* recording attached to them.  Written by                                 *)
(*                                                                         *)
(*   the media handler's finalizeCall, when its socket has closed          *)
(*   CloseCall's finalizeCall, two seconds after a terminal carrier        *)
(*       callback or a browser hang-up closed the socket; once a callback  *)
(*   the browser's upload of its own recording (web simulation only)       *)
(*                                                                         *)
(* each a sequence of separate statements.  A web simulation has no        *)
(* call_sid of a carrier and is never closed by CloseCall; its rows carry  *)
(* the stream_sid.                                                         *)
(***************************************************************************)
EXTENDS Naturals, Sequences

CONSTANTS
  Handler,    \* finalizeCall at the end of ServeHTTP
  Forced,     \* the goroutines that CloseCall may start
  Uploads,    \* requests that upload a browser recording
  MaxTurns,   \* bound: turns of the conversation
  MaxPolls,   \* looks at the table before an upload makes its own row (10)
  MaxFaults   \* bound: failures of the database or of the file store

ASSUME ActorsAssumption ==
  Handler \notin Forced /\ {"none", "webm"} \cap (Forced \cup {Handler}) = {}
ASSUME BoundsAssumption ==
  MaxTurns \in Nat /\ MaxPolls \in Nat \ {0} /\ MaxFaults \in Nat

Finalizers == {Handler} \cup Forced

VARIABLES
  sim,      \* a web simulation
  turns,    \* turns in ChatHistory
  buffer,   \* the recording buffers hold audio
  socket,   \* the media socket is open
  listed,   \* sessionsByCallSid has the session
  fin,      \* where each finalizer stands, with its SaveRequest
  upl,      \* where each upload stands
  rows,     \* call_transcripts of this call_sid, by id
  faults,   \* failures so far
  heard     \* history: audio was recorded

vars == <<sim, turns, buffer, socket, listed, fin, upl, rows, faults, heard>>

\* A row: turns in its transcript (0 is "[]"), its recording, which is a
\* browser's or the WAV of one finalizer, and who made the row, having seen how
\* many.
Row == [turns : 0..MaxTurns, rec : {"none", "webm"} \cup Finalizers,
        by : Finalizers \cup Uploads, seen : Nat]
FinState == {"none", "sleep", "loop", "wait", "drain", "wav", "lookup", "fill",
             "url", "insert", "conclude", "end"}
Request == [at : FinState, turns : 0..MaxTurns, audio : BOOLEAN, row : Nat, seen : Nat]
Upload == [at : {"none", "poll", "attach", "insert", "end"}, polls : 0..MaxPolls,
           row : Nat, seen : Nat]
NoRow == 0

TypeOK ==
  /\ sim \in BOOLEAN /\ turns \in 0..MaxTurns /\ buffer \in BOOLEAN
  /\ socket \in BOOLEAN /\ listed \in BOOLEAN /\ faults \in 0..MaxFaults /\ heard \in BOOLEAN
  /\ fin \in [Finalizers -> Request]
  /\ upl \in [Uploads -> Upload]
  /\ rows \in Seq(Row)

Init ==
  /\ sim \in BOOLEAN
  /\ turns = 0 /\ buffer = FALSE /\ socket = TRUE /\ listed = ~sim
  /\ fin = [f \in Finalizers |-> [at |-> IF f = Handler THEN "loop" ELSE "none",
                                  turns |-> 0, audio |-> FALSE, row |-> NoRow, seen |-> 0]]
  /\ upl = [u \in Uploads |-> [at |-> "none", polls |-> 0, row |-> NoRow, seen |-> 0]]
  /\ rows = <<>> /\ faults = 0 /\ heard = FALSE

-----------------------------------------------------------------------------
(* The call. *)

\* Goroutines of the call run until wg.Wait has returned.
Talking == fin[Handler].at \in {"loop", "wait"}

Converse ==
  /\ Talking /\ turns < MaxTurns
  /\ turns' = turns + 1
  /\ UNCHANGED <<sim, buffer, socket, listed, fin, upl, rows, faults, heard>>

Record ==
  /\ Talking /\ ~buffer
  /\ buffer' = TRUE /\ heard' = TRUE
  /\ UNCHANGED <<sim, turns, socket, listed, fin, upl, rows, faults>>

Goto(f, at) == fin' = [fin EXCEPT ![f].at = at]

\* CloseCall finds the session until the handler has left it.
CloseCall(f) ==
  /\ listed /\ fin[f].at = "none"
  /\ socket' = FALSE
  /\ Goto(f, "sleep")
  /\ UNCHANGED <<sim, turns, buffer, listed, upl, rows, faults, heard>>

Wake(f) ==
  /\ fin[f].at = "sleep"
  /\ Goto(f, "drain")
  /\ UNCHANGED <<sim, turns, buffer, socket, listed, upl, rows, faults, heard>>

\* The message loop ends: the caller hung up, or the socket was closed.
LoopEnds ==
  /\ fin[Handler].at = "loop"
  /\ socket' = FALSE
  /\ Goto(Handler, "wait")
  /\ UNCHANGED <<sim, turns, buffer, listed, upl, rows, faults, heard>>

Waited ==
  /\ fin[Handler].at = "wait"
  /\ Goto(Handler, "drain")
  /\ UNCHANGED <<sim, turns, buffer, socket, listed, upl, rows, faults, heard>>

-----------------------------------------------------------------------------
(* finalizeCall and SaveAndAnalyze. *)

\* The buffers are drained, so that only one finalizer has a given piece of
\* audio, and the history is copied.
Drain(f) ==
  /\ fin[f].at = "drain"
  /\ fin' = [fin EXCEPT ![f].at = "wav", ![f].turns = turns, ![f].audio = buffer]
  /\ buffer' = FALSE
  /\ UNCHANGED <<sim, turns, socket, listed, upl, rows, faults, heard>>

Fault == faults < MaxFaults /\ faults' = faults + 1

\* Mutant: a call without a recording is skipped, whatever was said.
SaveWavOrSkip(f) ==
  /\ fin[f].at = "wav"
  /\ Goto(f, IF fin[f].audio THEN "lookup" ELSE "end")
  /\ UNCHANGED <<sim, turns, buffer, socket, listed, upl, rows, faults, heard>>
\* The WAV is stored; a carrier call with neither turns nor recording is skipped.
SaveWav(f) ==
  /\ fin[f].at = "wav"
  /\ \E stored \in BOOLEAN :
       /\ IF stored \/ ~fin[f].audio THEN UNCHANGED faults ELSE Fault
       /\ fin' = [fin EXCEPT ![f].audio = @ /\ stored,
                    ![f].at = IF fin[f].turns = 0 /\ ~(fin[f].audio /\ stored) /\ ~sim
                              THEN "end" ELSE "lookup"]
  /\ UNCHANGED <<sim, turns, buffer, socket, listed, upl, rows, heard>>

\* Mutant: the placeholder is not looked for.
NoLookUp(f) ==
  /\ fin[f].at = "lookup"
  /\ fin' = [fin EXCEPT ![f].at = "insert", ![f].seen = Len(rows)]
  /\ UNCHANGED <<sim, turns, buffer, socket, listed, upl, rows, faults, heard>>
\* GetTranscriptByCallSid returns the newest row; its error counts as no row.
LookUp(f) ==
  /\ fin[f].at = "lookup"
  /\ \/ /\ IF rows # <<>> /\ rows[Len(rows)].turns = 0
           THEN fin' = [fin EXCEPT ![f].at = "fill", ![f].seen = Len(rows), ![f].row = Len(rows)]
           ELSE fin' = [fin EXCEPT ![f].at = "insert", ![f].seen = Len(rows)]
        /\ UNCHANGED faults
     \/ Goto(f, "insert") /\ Fault
  /\ UNCHANGED <<sim, turns, buffer, socket, listed, upl, rows, heard>>

\* The row that was empty when it was looked up is filled.
Fill(f) ==
  /\ fin[f].at = "fill"
  /\ \/ /\ rows' = [rows EXCEPT ![fin[f].row].turns = fin[f].turns]
        /\ Goto(f, IF fin[f].audio THEN "url" ELSE "conclude")
        /\ UNCHANGED faults
     \/ Goto(f, "insert") /\ Fault /\ UNCHANGED rows
  /\ UNCHANGED <<sim, turns, buffer, socket, listed, upl, heard>>

\* Its recording takes the place of the one the row has, if any.
FillUrl(f) ==
  /\ fin[f].at = "url"
  /\ \/ rows' = [rows EXCEPT ![fin[f].row].rec = f] /\ UNCHANGED faults
     \/ Fault /\ UNCHANGED rows
  /\ Goto(f, "conclude")
  /\ UNCHANGED <<sim, turns, buffer, socket, listed, upl, heard>>

\* Without a row the rest of the pipeline, billing included, is skipped.
Insert(f) ==
  /\ fin[f].at = "insert"
  /\ \/ /\ rows' = Append(rows, [turns |-> fin[f].turns, by |-> f, seen |-> fin[f].seen,
                                 rec |-> IF fin[f].audio THEN f ELSE "none"])
        /\ Goto(f, "conclude")
        /\ UNCHANGED faults
     \/ Goto(f, "end") /\ Fault /\ UNCHANGED rows
  /\ UNCHANGED <<sim, turns, buffer, socket, listed, upl, heard>>

\* Analysis, disposition, credits and webhook: the transactions of CreditTx.
Conclude(f) ==
  /\ fin[f].at = "conclude"
  /\ Goto(f, "end")
  /\ UNCHANGED <<sim, turns, buffer, socket, listed, upl, rows, faults, heard>>

\* ServeHTTP returns once finalizeCall has started SaveAndAnalyze.
Leave ==
  /\ listed /\ fin[Handler].at \notin {"loop", "wait", "drain"}
  /\ listed' = FALSE
  /\ UNCHANGED <<sim, turns, buffer, socket, fin, upl, rows, faults, heard>>

Finalize(f) ==
  \/ Drain(f) \/ SaveWav(f) \/ LookUp(f) \/ Fill(f) \/ FillUrl(f) \/ Insert(f)
  \/ Conclude(f)

-----------------------------------------------------------------------------
(* attachRecordingToLatestTranscript. *)

StartUpload(u) ==
  /\ sim /\ upl[u].at = "none"
  /\ upl' = [upl EXCEPT ![u].at = "poll"]
  /\ UNCHANGED <<sim, turns, buffer, socket, listed, fin, rows, faults, heard>>

\* A look at the newest row: one without a recording takes this one.
\* Mutant: whatever it has.
PollAny(u) ==
  /\ upl[u].at = "poll" /\ rows # <<>>
  /\ upl' = [upl EXCEPT ![u].at = "attach", ![u].row = Len(rows)]
  /\ UNCHANGED <<sim, turns, buffer, socket, listed, fin, rows, faults, heard>>
PollFound(u) ==
  /\ upl[u].at = "poll" /\ rows # <<>>
  /\ upl' = [upl EXCEPT ![u].at = IF rows[Len(rows)].rec = "none" THEN "attach" ELSE "end",
                        ![u].row = Len(rows)]
  /\ UNCHANGED <<sim, turns, buffer, socket, listed, fin, rows, faults, heard>>

\* Mutant: one look too many.
PollLate(u) ==
  /\ upl[u].at = "poll" /\ rows = <<>>
  /\ upl' = [upl EXCEPT ![u].polls = @ + 1,
                        ![u].at = IF upl[u].polls = MaxPolls THEN "insert" ELSE "poll"]
  /\ UNCHANGED <<sim, turns, buffer, socket, listed, fin, rows, faults, heard>>
\* No row, or a failed look.
PollNone(u) ==
  /\ upl[u].at = "poll"
  /\ IF rows = <<>> THEN UNCHANGED faults ELSE Fault
  /\ upl' = [upl EXCEPT ![u].polls = @ + 1, ![u].seen = Len(rows),
                        ![u].at = IF upl[u].polls + 1 = MaxPolls THEN "insert" ELSE "poll"]
  /\ UNCHANGED <<sim, turns, buffer, socket, listed, fin, rows, heard>>

Attach(u) ==
  /\ upl[u].at = "attach"
  /\ \/ rows' = [rows EXCEPT ![upl[u].row].rec = "webm"] /\ UNCHANGED faults
     \/ Fault /\ UNCHANGED rows
  /\ upl' = [upl EXCEPT ![u].at = "end"]
  /\ UNCHANGED <<sim, turns, buffer, socket, listed, fin, heard>>

InsertUpload(u) ==
  /\ upl[u].at = "insert"
  /\ \/ /\ rows' = Append(rows, [turns |-> 0, rec |-> "webm", by |-> u, seen |-> upl[u].seen])
        /\ UNCHANGED faults
     \/ Fault /\ UNCHANGED rows
  /\ upl' = [upl EXCEPT ![u].at = "end"]
  /\ UNCHANGED <<sim, turns, buffer, socket, listed, fin, heard>>

\* The browser goes away while its upload waits for a row.
Abandon(u) ==
  /\ upl[u].at \in {"poll", "insert"} /\ upl[u].polls > 0
  /\ upl' = [upl EXCEPT ![u].at = "end"]
  /\ UNCHANGED <<sim, turns, buffer, socket, listed, fin, rows, faults, heard>>

Attaching(u) ==
  \/ StartUpload(u) \/ PollFound(u) \/ PollNone(u) \/ Attach(u) \/ InsertUpload(u)
  \/ Abandon(u)

Next ==
  \/ Converse \/ Record \/ LoopEnds \/ Waited \/ Leave
  \/ \E f \in Forced : CloseCall(f) \/ Wake(f)
  \/ \E f \in Finalizers : Finalize(f)
  \/ \E u \in Uploads : Attaching(u)

Spec == Init /\ [][Next]_vars

\* A closed socket ends the message loop, and goroutines run.
FairSpec ==
  /\ Spec
  /\ WF_vars(~socket /\ LoopEnds) /\ WF_vars(Waited)
  /\ \A f \in Finalizers : WF_vars(Finalize(f)) /\ WF_vars(Wake(f))

-----------------------------------------------------------------------------
Settled == \A f \in Finalizers : fin[f].at \in {"none", "end"}

\* Two finalizers had found the same empty row.
Shared == \E f, g \in Finalizers : f # g /\ fin[f].row # NoRow /\ fin[f].row = fin[g].row

\* "... instead of creating a second, duplicate row" (service.go:136): the
\* creator of a further row looked before the earlier one was there, unless a
\* statement failed or, after a forced close, the row it saw held a transcript
\* already.
DuplicateRowOnlyWhenRacing ==
  \A i, j \in DOMAIN rows :
    i < j => \/ rows[j].seen < i
             \/ faults > 0
             \/ /\ \E f \in Forced : fin[f].at # "none"
                /\ Shared \/ rows[rows[j].seen].turns > 0

\* Another finalizer had found the row that f fills empty as well, or, with audio
\* of its own, that row or the one f made.
SharesRow(f) == \E g \in Finalizers \ {f} : fin[g].row # NoRow /\ fin[g].row = fin[f].row
Overwritten(f) ==
  \E g \in Finalizers \ {f} :
    /\ fin[g].audio /\ fin[g].row # NoRow
    /\ fin[g].row = fin[f].row \/ rows[fin[g].row].by = f

\* The server's recording is the canonical one (misc.go:456).  Unless a statement
\* failed, once all finalizers are through:
\*   all audio was drained, and what a finalizer drained is on a row, whatever
\*     the browser uploads, or another finalizer with audio of its own found that
\*     row still without turns and put its recording there (service.go:149-158);
\*   a row has the whole conversation, or another finalizer, whose history may be
\*     shorter, found the handler's row empty as well and may have written last.
CallIsRecorded ==
  Settled /\ fin[Handler].at = "end" /\ faults = 0 =>
    /\ ~buffer /\ (heard => \E i \in DOMAIN rows : rows[i].rec \in Finalizers)
    /\ \A f \in Finalizers :
         fin[f].audio => Overwritten(f) \/ \E i \in DOMAIN rows : rows[i].rec = f
    /\ turns > 0 => SharesRow(Handler) \/ \E i \in DOMAIN rows : rows[i].turns = turns

\* "keeps transcript/recording finalization from being missed"
\* (active_sessions.go:74): a call whose
\* socket is closed gets its row.
ClosedCallIsKept ==
  (~socket /\ turns > 0) ~> (rows # <<>> \/ faults > 0)
=============================================================================
