--------------------------- MODULE MCGatewayRequest ---------------------------
(* Instances of GatewayRequest: a deployment that limits, one that is tuned   *)
(* and one that streams chats through handleCodexCLIProxy.                    *)
EXTENDS GatewayRequest

CONSTANTS h1, h2, a1, a2, unset

MCHandlers == {h1, h2}
MCAdmins == {a1, a2}

(* A minute of one tick, a day of two, a month of three: each lets through less *)
(* than the two handlers can send in it.                                        *)
MCLimits == <<1, 2, 2, 3, 3, 5>>

MCEnv == [mode |-> "codex_backend", fallback |-> FALSE]

MCDeployments ==
  {[limited |-> TRUE, handlers |-> MCHandlers, requests |-> 2, ticks |-> 2, edits |-> 0,
    asks |-> {[override |-> "backend_only", stream |-> TRUE, path |-> "responses"]}],
   [limited |-> FALSE, handlers |-> {h1}, requests |-> 1, ticks |-> 0, edits |-> 3,
    asks |-> {[override |-> "inherit", stream |-> FALSE, path |-> "responses"]}],
   [limited |-> FALSE, handlers |-> {h1}, requests |-> 1, ticks |-> 0, edits |-> 1,
    asks |-> {[override |-> "inherit", stream |-> TRUE, path |-> "chat"]}]}
=============================================================================
