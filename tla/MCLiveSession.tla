---------------------------- MODULE MCLiveSession ----------------------------
(* Two packets wait for the carrier, so that the hang-up may stand behind     *)
(* audio; one sentinel fills its channel, and one barge-in goroutine sleeps.  *)
EXTENDS LiveSession
=============================================================================
