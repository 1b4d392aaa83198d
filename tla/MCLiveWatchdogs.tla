--------------------------- MODULE MCLiveWatchdogs ---------------------------
(* LiveWatchdogs with the three reminders of the code.                        *)
EXTENDS LiveWatchdogs
=============================================================================
