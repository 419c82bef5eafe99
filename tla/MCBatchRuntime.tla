-------------------------- MODULE MCBatchRuntime --------------------------
(***************************************************************************)
(* Three calls: enough for a concurrent batch of two next to a serial one  *)
(* on either side, and for a batch after the one that fails.               *)
(***************************************************************************)
EXTENDS BatchRuntime

\* A handler may return any of these; they stand for every way to a status.
MCHandlerOutcomes ==
  { [status |-> "unset", err |-> FALSE], [status |-> "unset", err |-> TRUE],
    [status |-> "cancelled", err |-> FALSE] }

MCCommandOutcomes == {CommandOutcome[k] : k \in DOMAIN CommandOutcome}
=============================================================================
