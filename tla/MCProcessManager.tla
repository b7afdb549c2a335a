------------------------- MODULE MCProcessManager -------------------------
(* Model-checking instance of ProcessManager.                              *)
EXTENDS ProcessManager
=============================================================================
