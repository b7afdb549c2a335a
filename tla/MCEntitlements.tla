--------------------------- MODULE MCEntitlements ---------------------------
(* Model-checking instances of Entitlements.                                 *)
EXTENDS Entitlements, TLC

CONSTANTS t1, t2, s1, s2
=============================================================================
