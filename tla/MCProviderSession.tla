-------------------------- MODULE MCProviderSession --------------------------
(***************************************************************************)
(* Two turns at once on one session of each provider, with channels that   *)
(* fill.                                                                   *)
(***************************************************************************)
EXTENDS ProviderSession

\* A reply that calls a tool and one that does not.
RepliesOfBothKinds == {<<"message">>, <<"message", "tool_call">>}

RepliesWithNothing == {<<>>, <<"tool_call">>}
=============================================================================
