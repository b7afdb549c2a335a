------------------------------ MODULE MCPidLock ------------------------------
(* Model-checking instance of PidLock.                                       *)
EXTENDS PidLock, TLC
=============================================================================
