------------------------ MODULE MCGeminiPreparation -------------------------
(* GeminiPreparation with three media streams of one call.                  *)
EXTENDS GeminiPreparation

CONSTANTS s1, s2, s3

ThreeStreams == {s1, s2, s3}
=============================================================================
