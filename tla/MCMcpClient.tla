---------------------------- MODULE MCMcpClient ----------------------------
(***************************************************************************)
(* Two calls, two messages of the server, and a Messages channel of one. *)
(* The ids of the server's own requests are either unlike those of the     *)
(* client or, as JSON-RPC lets each side count for itself, the same.       *)
(***************************************************************************)
EXTENDS McpClient, MCToolCatalog

MCOtherIds == {9}
MCSameIds == {1}
=============================================================================
