---------------------------- MODULE MCTurnRelay ----------------------------
(***************************************************************************)
(* Each way to ask for a turn, with up to three events before the terminal *)
(* one, an event of a tool and channels that fill up.                      *)
(***************************************************************************)
EXTENDS TurnRelay

AllModes == {"stream", "run", "oneshot", "agent"}
=============================================================================
