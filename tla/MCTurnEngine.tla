--------------------------- MODULE MCTurnEngine ---------------------------
(***************************************************************************)
(* Two passes, two calls: a pass with two calls run together, two passes   *)
(* with a call each, and the pass limit; tools that speak like the turn.   *)
(***************************************************************************)
EXTENDS TurnEngine

MCToolKinds == {"tool_result", "completed"}
=============================================================================
