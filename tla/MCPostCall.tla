----------------------------- MODULE MCPostCall -----------------------------
(* PostCall with the handler, two forced closes and two browser uploads.    *)
EXTENDS PostCall

CONSTANTS h, f1, f2, u1, u2

TheForced == {f1, f2}
TheUploads == {u1, u2}
=============================================================================
