-------------------------- MODULE MCScheduledCalls --------------------------
(* ScheduledCalls with one lead, one scheduler and three requests.         *)
EXTENDS ScheduledCalls

CONSTANTS s1, r1, r2, r3, lead

OneScheduler == {s1}
ThreeRequests == {r1, r2, r3}
OneLead == {lead}
=============================================================================
