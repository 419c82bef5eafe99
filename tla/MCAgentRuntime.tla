--------------------------- MODULE MCAgentRuntime ---------------------------
(***************************************************************************)
(* Two callers of Stop, a runner that reports twice and a channel that the *)
(* events of Start alone fill up.                                          *)
(***************************************************************************)
EXTENDS AgentRuntime
=============================================================================
