---------------------------- MODULE MCTurnMemory ----------------------------
(***************************************************************************)
(* Two turns, of one session, of two or of none, whose compactions overlap,*)
(* and a crash with a restart at any step of either.                       *)
(***************************************************************************)
EXTENDS TurnMemory

TwoSessions == {"a", "b"}
Unnamed == ""
=============================================================================
