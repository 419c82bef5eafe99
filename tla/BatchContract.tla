--------------------------- MODULE BatchContract ---------------------------
(***************************************************************************)
(* What a batch run of tool calls promises its caller, with no plan, no    *)
(* goroutine and no channel in sight: calls are started in the order the   *)
(* model asked for them, only calls whose tools are declared safe overlap, *)
(* nothing is started past a call that did not succeed, and whatever was   *)
(* not started is reported as discarded.                                   *)
(***************************************************************************)
EXTENDS Naturals

CONSTANT Calls          \* positions of the calls, in the order requested

VARIABLES
  parallel,             \* calls whose tools may overlap with their neighbours
  cancelled,            \* the caller gave up on the run
  fate                  \* what has become of each call

vars == <<parallel, cancelled, fate>>

Fates == {"pending", "running", "succeeded", "failed", "discarded"}

Init ==
  /\ parallel \in SUBSET Calls
  /\ cancelled = FALSE
  /\ fate = [i \in Calls |-> "pending"]

(***************************************************************************)
(* A group of pending calls is started together: it is one call, or calls  *)
(* that may all overlap; nothing else is running and every earlier call    *)
(* succeeded.                                                              *)
(***************************************************************************)
Launch(group) ==
  /\ group # {}
  /\ \A i \in group : fate[i] = "pending"
  /\ \A i, j \in group : i = j \/ group \subseteq parallel
  /\ \A i \in Calls : fate[i] # "running"
  /\ \A i \in group, j \in Calls \ group : j < i => fate[j] = "succeeded"
  /\ fate' = [i \in Calls |-> IF i \in group THEN "running" ELSE fate[i]]
  /\ UNCHANGED <<parallel, cancelled>>

Settle(i, outcome) ==
  /\ fate[i] = "running"
  /\ fate' = [fate EXCEPT ![i] = outcome]
  /\ UNCHANGED <<parallel, cancelled>>

(***************************************************************************)
(* A call is discarded only after a failure or a cancellation, once        *)
(* everything that was started has been collected, and in order.           *)
(***************************************************************************)
Discard(i) ==
  /\ fate[i] = "pending"
  /\ cancelled \/ \E j \in Calls : fate[j] = "failed"
  /\ \A j \in Calls : fate[j] # "running"
  /\ \A j \in Calls : j < i => fate[j] # "pending"
  /\ fate' = [fate EXCEPT ![i] = "discarded"]
  /\ UNCHANGED <<parallel, cancelled>>

Cancel ==
  /\ cancelled' = TRUE
  /\ UNCHANGED <<parallel, fate>>

Next ==
  \/ \E group \in SUBSET Calls : Launch(group)
  \/ \E i \in Calls, outcome \in {"succeeded", "failed"} : Settle(i, outcome)
  \/ \E i \in Calls : Discard(i)
  \/ Cancel

Spec == Init /\ [][Next]_vars
=============================================================================
