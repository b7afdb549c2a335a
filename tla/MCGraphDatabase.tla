-------------------------- MODULE MCGraphDatabase --------------------------
(* Model-checking instances of GraphDatabase.                                *)
EXTENDS GraphDatabase, TLC

CONSTANTS w1, w2, r1, x1, t1

\* A write beside a transaction, a read beside one, and single operations that are
\* enough to open the breaker, send a probe and reject what follows.
Mixes == {{w1, t1}, {t1, r1}, {t1, x1}, {w1, w2, r1}}
=============================================================================
