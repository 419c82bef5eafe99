---------------------------- MODULE TaskContract ----------------------------
(***************************************************************************)
(* What an agent task promises whoever watches it: one life, one ending,   *)
(* announced once and only after the task was sealed, and a progress that  *)
(* stands still from then on.                                              *)
(***************************************************************************)
EXTENDS Naturals

VARIABLES
  status,       \* as TaskStatus, "" before the task exists
  sealed,
  progress,     \* progress reports that counted
  announced     \* the ending that was published, "" before

vars == <<status, sealed, progress, announced>>

Endings == {"completed", "failed", "stopped"}

Init ==
  /\ status = "" /\ announced = ""
  /\ sealed = FALSE
  /\ progress = 0

Create == status = "" /\ status' = "pending" /\ UNCHANGED <<sealed, progress, announced>>

Run == status = "pending" /\ status' = "running" /\ UNCHANGED <<sealed, progress, announced>>

Report ==
  /\ status # "" /\ ~sealed
  /\ progress' = progress + 1
  /\ UNCHANGED <<status, sealed, announced>>

\* A task that has not run can only be stopped.
End(ending) ==
  /\ status = "running" \/ (status = "pending" /\ ending = "stopped")
  /\ status' = ending
  /\ UNCHANGED <<sealed, progress, announced>>

Seal == status \in Endings /\ sealed' = TRUE /\ UNCHANGED <<status, progress, announced>>

Announce ==
  /\ sealed /\ announced = ""
  /\ announced' = status
  /\ UNCHANGED <<status, sealed, progress>>

Next ==
  \/ Create \/ Run \/ Report \/ Seal \/ Announce
  \/ \E ending \in Endings : End(ending)

Spec == Init /\ [][Next]_vars
=============================================================================
