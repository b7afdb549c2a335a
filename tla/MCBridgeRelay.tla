---------------------------- MODULE MCBridgeRelay ----------------------------
(* Model-checking instance of BridgeRelay.                                   *)
EXTENDS BridgeRelay, TLC
=============================================================================
