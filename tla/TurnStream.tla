---------------------------- MODULE TurnStream ----------------------------
(***************************************************************************)
(* What the reader of a turn's event stream is promised: a log that only   *)
(* grows, in which the turn says "started" before anything else, nothing   *)
(* follows the terminal event of the turn, and tools speak only after the  *)
(* turn has announced a call; and an end that comes once, after the turn's *)
(* terminal event or after its context was cancelled.                      *)
(*                                                                         *)
(* Tools emit what they like: an event of theirs may be of any kind, a     *)
(* terminal one as well, and ends nothing.                                 *)
(***************************************************************************)
EXTENDS Naturals, Sequences

VARIABLES
  log,          \* the events: their kinds, and whether they are the turn's own
  closed,       \* the stream is closed
  cancelled     \* the context of the turn is done

vars == <<log, closed, cancelled>>

Terminal == {"completed", "error"}
Kinds == {"started", "memory_read", "message", "tool_call", "tool_result"} \cup Terminal

Ended == log # <<>> /\ log[Len(log)].own /\ log[Len(log)].kind \in Terminal

Announced == \E i \in DOMAIN log : log[i].own /\ log[i].kind = "tool_call"

Init ==
  /\ log = <<>>
  /\ closed = FALSE
  /\ cancelled = FALSE

Publish(kind) ==
  /\ ~closed /\ ~Ended
  /\ log = <<>> <=> kind = "started"
  /\ log' = Append(log, [kind |-> kind, own |-> TRUE])
  /\ UNCHANGED <<closed, cancelled>>

ToolPublish(kind) ==
  /\ ~closed /\ ~Ended
  /\ Announced
  /\ log' = Append(log, [kind |-> kind, own |-> FALSE])
  /\ UNCHANGED <<closed, cancelled>>

Close ==
  /\ ~closed
  /\ Ended \/ cancelled
  /\ closed' = TRUE
  /\ UNCHANGED <<log, cancelled>>

Cancel ==
  /\ cancelled' = TRUE
  /\ UNCHANGED <<log, closed>>

Next == (\E kind \in Kinds : Publish(kind) \/ ToolPublish(kind)) \/ Close \/ Cancel

Spec == Init /\ [][Next]_vars
=============================================================================
