-------------------------- MODULE MCStdioTransport --------------------------
(***************************************************************************)
(* Pipes and a channel of one message each, so that all of them fill; two  *)
(* calls of Close, and one Send more than fits before the server reads on. *)
(***************************************************************************)
EXTENDS StdioTransport
=============================================================================
