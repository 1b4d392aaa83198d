---------------------------- MODULE MCCallSession ----------------------------
(* A transcript waits while another is processed; two sentences wait, so that *)
(* a sentinel may stand behind a line and the channel may be full; and one    *)
(* goroutine of each kind sleeps, which may outlive the barge-in it is for.   *)
EXTENDS CallSession

MCTranscriptCap == 1
MCSentenceCap == 2
MCTimerCap == 1
=============================================================================
