---------------------------- MODULE MCDiscovery ----------------------------
(* Model-checking instance of Discovery.                                     *)
EXTENDS Discovery, TLC
=============================================================================
