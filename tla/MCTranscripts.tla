--------------------------- MODULE MCTranscripts ---------------------------
(* Model-checking instances of Transcripts.                                  *)
EXTENDS Transcripts, TLC

CONSTANTS c1, c2, s1, s2
=============================================================================
