---------------------------- MODULE MCRetryQueue ----------------------------
(* RetryQueue with one campaign lead, whose organisation may run out of     *)
(* credit, one worker and two webhook handlers.                             *)
EXTENDS RetryQueue

CONSTANTS w1, h1, h2, t1, o1

OneWorker == {w1}
TwoHandlers == {h1, h2}
CampaignTarget == {t1}
MCOrgs == {o1}
MCOrgOf == [t \in Targets |-> o1]
=============================================================================
