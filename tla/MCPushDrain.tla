---------------------------- MODULE MCPushDrain ----------------------------
(* Model-checking instances of PushDrain.                                    *)
EXTENDS PushDrain

CONSTANTS proxy, mcp, loop, removal

\* The first row of the proxy's segment is refused, the second of the bridge's
\* is invalid: each kind meets a good row before or behind it.
Refused == {<<proxy, 1>>}
Drifted == {<<mcp, 2>>}
=============================================================================
