---------------------------- MODULE MCGraphHolder ----------------------------
(* Model-checking instances of GraphHolder.                                  *)
EXTENDS GraphHolder, TLC
=============================================================================
