--------------------------- MODULE BatchRuntime ---------------------------
(***************************************************************************)
(* One Run or Stream of executor.BatchRuntimeEngine over a list of tool    *)
(* calls: the plan, the serial and the concurrent batch loops with their   *)
(* goroutines and result channel, the failure cascade, and the bounded     *)
(* event channel of Stream.                                                *)
(*                                                                         *)
(* Calls are numbered from 1; a tool is an environment that returns any of *)
(* ToolOutcomes.                                                           *)
(***************************************************************************)
EXTENDS Naturals, Sequences, FiniteSets

CONSTANTS
  NumCalls,         \* len(calls)
  ToolOutcomes      \* what Execute of a tool may return, see Outcome

Calls == 1..NumCalls

Statuses == {"succeeded", "failed", "cancelled"}

\* (ToolOutcome.Status, execErr # nil); "unset" is the empty status.
Outcome == [status : Statuses \cup {"unset"}, err : BOOLEAN]

ASSUME NumCallsAssumption == NumCalls \in Nat \ {0}
ASSUME OutcomesAssumption == ToolOutcomes \subseteq Outcome

(***************************************************************************)
(* What CommandTool.Execute returns, by what became of the command: the    *)
(* outcome of a command that exits with an error, and of one that could    *)
(* not be started, carries the status "succeeded" beside the error.        *)
(***************************************************************************)
CommandOutcome ==
  [ ok          |-> [status |-> "succeeded", err |-> FALSE],
    exit_error  |-> [status |-> "succeeded", err |-> TRUE],
    not_started |-> [status |-> "succeeded", err |-> TRUE],
    stopped     |-> [status |-> "cancelled", err |-> TRUE],
    bad_input   |-> [status |-> "unset",     err |-> TRUE] ]

\* toolResultFromOutcome: an empty status is decided by the error alone.
ResultStatus(o) ==
  IF o.status # "unset" THEN o.status
  ELSE IF o.err THEN "failed" ELSE "succeeded"

VARIABLES
  safe,             \* calls whose tool says ConcurrencySafe
  serialFallback,   \* WithSerialFallback
  streaming,        \* Stream (TRUE) or Run (FALSE)
  waiting,          \* calls whose tool returns only when its context is done
  ctxDone,          \* the caller's context
  pc,               \* where the goroutine of execute stands
  planned,          \* calls the planning loop has passed
  current,          \* the concurrent batch the planning loop is filling
  plan,             \* the batches, in order
  batch,            \* batchIndex, counted from 1
  items,            \* state of each call: its status once collected
  itemErr,          \* calls whose execution returned an error
  results,          \* the completion channel of the concurrent batch
  batchDone,        \* batchCtx of the concurrent batch is cancelled
  failure,          \* what made the run fail: "none", "item" or "ctx"
  sent,             \* every event emitted so far
  read              \* events the consumer of Stream has received

params == <<safe, serialFallback, streaming, waiting>>
planVars == <<planned, current, plan>>
itemVars == <<items, itemErr, results, batchDone>>
eventVars == <<sent, read>>
vars == <<params, ctxDone, pc, planVars, batch, itemVars, failure, eventVars>>

ItemStates == Statuses \cup {"none", "running", "returned", "discarded"}
Completion == [index : Calls, status : Statuses, err : BOOLEAN]
Batch == [mode : {"serial", "concurrent"}, indexes : SUBSET Calls]

EventKinds == {"batch_started", "item_completed", "item_discarded",
               "batch_completed", "completed"}

EventRecord == [kind : EventKinds, batch : Nat, item : Nat]

Event(kind, b, i) == [kind |-> kind, batch |-> b, item |-> i]

(***************************************************************************)
(* The event channel holds len(calls)+len(plan)+1 events.  Run passes no   *)
(* emit function, so its execution never waits for room.                   *)
(***************************************************************************)
EventCap == NumCalls + Len(plan) + 1

\* Seeded fault: the channel has no bound.
EmitUnbounded(event) ==
  IF streaming THEN sent' = Append(sent, event) /\ UNCHANGED read
               ELSE UNCHANGED eventVars

Emit(event) ==
  IF streaming
    THEN /\ Len(sent) - read < EventCap
         /\ sent' = Append(sent, event)
         /\ UNCHANGED read
    ELSE UNCHANGED eventVars

\* itemFailed: anything but a success, a discard included.
ItemFailed(state) == state # "succeeded"

Init ==
  /\ safe \in SUBSET Calls
  /\ serialFallback \in BOOLEAN
  /\ streaming \in BOOLEAN
  /\ waiting \in SUBSET Calls
  /\ ctxDone = FALSE
  /\ pc = "begin"
  /\ planned = 0
  /\ current = {}
  /\ plan = <<>>
  /\ batch = 1
  /\ items = [i \in Calls |-> "none"]
  /\ itemErr = {}
  /\ results = <<>>
  /\ batchDone = FALSE
  /\ failure = "none"
  /\ sent = <<>>
  /\ read = 0

-----------------------------------------------------------------------------
(* Run and Stream: a context that is already done refuses the whole run.   *)

Begin ==
  /\ pc = "begin"
  /\ pc' = IF ctxDone THEN "refused" ELSE "plan"
  /\ UNCHANGED <<params, ctxDone, planVars, batch, itemVars, failure, eventVars>>

-----------------------------------------------------------------------------
(* Plan: one step per call of planByConcurrencySafe and planSerial.        *)

\* Seeded fault: the open concurrent batch is forgotten.
FlushLost == plan

FlushCurrent ==
  IF current = {} THEN plan
  ELSE Append(plan, [mode |-> "concurrent", indexes |-> current])

PlanCall ==
  LET i == planned + 1 IN
  /\ pc = "plan" /\ planned < NumCalls
  /\ planned' = i
  /\ IF serialFallback \/ i \notin safe
       THEN /\ plan' = Append(FlushCurrent, [mode |-> "serial", indexes |-> {i}])
            /\ current' = {}
       ELSE /\ current' = current \cup {i}
            /\ UNCHANGED plan
  /\ UNCHANGED <<params, ctxDone, pc, batch, itemVars, failure, eventVars>>

PlanDone ==
  /\ pc = "plan" /\ planned = NumCalls
  /\ plan' = FlushCurrent
  /\ current' = {}
  /\ pc' = "head"
  /\ UNCHANGED <<params, ctxDone, planned, batch, itemVars, failure, eventVars>>

-----------------------------------------------------------------------------
(* execute: the loop over the batches.                                     *)

StartBatch ==
  /\ pc = "head" /\ batch <= Len(plan)
  /\ ~ctxDone
  /\ Emit(Event("batch_started", batch, 0))
  /\ pc' = plan[batch].mode
  /\ UNCHANGED <<params, ctxDone, planVars, batch, itemVars, failure>>

\* The context is checked at the head of the loop and again in runSerialBatch.
StopOnContext ==
  /\ \/ pc = "head" /\ batch <= Len(plan)
     \/ pc = "serial"
  /\ ctxDone
  /\ failure' = "ctx"
  /\ pc' = "discard"
  /\ UNCHANGED <<params, ctxDone, planVars, batch, itemVars, eventVars>>

StartSerial ==
  /\ pc = "serial"
  /\ ~ctxDone
  /\ items' = [i \in Calls |->
                 IF i \in plan[batch].indexes THEN "running" ELSE items[i]]
  /\ pc' = "serial_run"
  /\ UNCHANGED <<params, ctxDone, planVars, batch, itemErr, results, batchDone,
                 failure, eventVars>>

Record(i, status, err) ==
  /\ items' = [items EXCEPT ![i] = status]
  /\ itemErr' = IF err THEN itemErr \cup {i} ELSE itemErr
  /\ Emit(Event("item_completed", batch, i))

\* The serial tool runs in this goroutine, under the caller's context.
SerialReturn(i, o) ==
  /\ pc = "serial_run" /\ items[i] = "running"
  /\ i \in waiting => ctxDone
  /\ Record(i, ResultStatus(o), o.err)
  /\ IF ItemFailed(ResultStatus(o))
       THEN failure' = "item" /\ pc' = "discard"
       ELSE UNCHANGED failure /\ pc' = "batch_end"
  /\ UNCHANGED <<params, ctxDone, planVars, batch, results, batchDone>>

\* One goroutine per call, all under batchCtx; completions travel in results.
SpawnConcurrent ==
  /\ pc = "concurrent"
  /\ items' = [i \in Calls |->
                 IF i \in plan[batch].indexes THEN "running" ELSE items[i]]
  /\ batchDone' = FALSE
  /\ pc' = "collect"
  /\ UNCHANGED <<params, ctxDone, planVars, batch, itemErr, results, failure,
                 eventVars>>

ConcurrentReturn(i, o) ==
  /\ pc = "collect" /\ items[i] = "running"
  /\ i \in waiting => ctxDone \/ batchDone
  /\ results' = Append(results, [index |-> i, status |-> ResultStatus(o), err |-> o.err])
  /\ items' = [items EXCEPT ![i] = "returned"]
  /\ UNCHANGED <<params, ctxDone, pc, planVars, batch, itemErr, batchDone,
                 failure, eventVars>>

\* Seeded fault: the failure is noted and batchCtx is not cancelled.
CollectNoCancel ==
  LET done == Head(results) IN
  /\ pc = "collect" /\ results # <<>>
  /\ results' = Tail(results)
  /\ Record(done.index, done.status, done.err)
  /\ failure' = IF ItemFailed(done.status) THEN "item" ELSE failure
  /\ UNCHANGED <<params, ctxDone, pc, planVars, batch, batchDone>>

\* The first failure of the batch cancels batchCtx; collecting goes on.
Collect ==
  LET done == Head(results) IN
  /\ pc = "collect" /\ results # <<>>
  /\ results' = Tail(results)
  /\ Record(done.index, done.status, done.err)
  /\ IF failure = "none" /\ ItemFailed(done.status)
       THEN failure' = "item" /\ batchDone' = TRUE
       ELSE UNCHANGED <<failure, batchDone>>
  /\ UNCHANGED <<params, ctxDone, pc, planVars, batch>>

\* Seeded fault: the batch ends with its first failure, calls still in flight.
CollectEndEarly ==
  /\ pc = "collect" /\ results = <<>>
  /\ \/ \A i \in plan[batch].indexes : items[i] # "running"
     \/ failure # "none"
  /\ batchDone' = TRUE
  /\ pc' = IF failure = "none" THEN "batch_end" ELSE "discard"
  /\ UNCHANGED <<params, ctxDone, planVars, batch, items, itemErr, results,
                 failure, eventVars>>

\* The channel is closed when the wait group is done; range then ends.
CollectEnd ==
  /\ pc = "collect" /\ results = <<>>
  /\ \A i \in plan[batch].indexes : items[i] # "running"
  /\ batchDone' = TRUE
  /\ pc' = IF failure = "none" THEN "batch_end" ELSE "discard"
  /\ UNCHANGED <<params, ctxDone, planVars, batch, items, itemErr, results,
                 failure, eventVars>>

BatchEnd ==
  /\ pc = "batch_end"
  /\ Emit(Event("batch_completed", batch, 0))
  /\ batch' = batch + 1
  /\ pc' = "head"
  /\ UNCHANGED <<params, ctxDone, planVars, itemVars, failure>>

\* Seeded fault: calls that were executed are discarded over.
DiscardOver(i) ==
  /\ pc = "discard" /\ items[i] # "discarded"
  /\ \A j \in 1..(i - 1) : items[j] # "none"
  /\ items' = [items EXCEPT ![i] = "discarded"]
  /\ Emit(Event("item_discarded", 0, i))
  /\ UNCHANGED <<params, ctxDone, pc, planVars, batch, itemErr, results,
                 batchDone, failure>>

\* discardIndexes and discardRemaining: every untouched call, in order.
DiscardNext(i) ==
  /\ pc = "discard" /\ items[i] = "none"
  /\ \A j \in 1..(i - 1) : items[j] # "none"
  /\ items' = [items EXCEPT ![i] = "discarded"]
  /\ Emit(Event("item_discarded", 0, i))
  /\ UNCHANGED <<params, ctxDone, pc, planVars, batch, itemErr, results,
                 batchDone, failure>>

\* Seeded fault: the run ends without discarding what it left out.
FinishNoDiscard ==
  /\ pc = "discard" \/ (pc = "head" /\ batch > Len(plan))
  /\ Emit(Event("completed", 0, 0))
  /\ pc' = "done"
  /\ UNCHANGED <<params, ctxDone, planVars, batch, itemVars, failure>>

Finish ==
  /\ \/ pc = "head" /\ batch > Len(plan)
     \/ pc = "discard" /\ \A i \in Calls : items[i] # "none"
  /\ Emit(Event("completed", 0, 0))
  /\ pc' = "done"
  /\ UNCHANGED <<params, ctxDone, planVars, batch, itemVars, failure>>

-----------------------------------------------------------------------------
(* The caller: it may cancel at any time and reads Stream's events.        *)

CancelContext ==
  /\ ~ctxDone /\ pc \notin {"done", "refused"}
  /\ ctxDone' = TRUE
  /\ UNCHANGED <<params, pc, planVars, batch, itemVars, failure, eventVars>>

ReadEvent ==
  /\ read < Len(sent)
  /\ read' = read + 1
  /\ UNCHANGED <<params, ctxDone, pc, planVars, batch, itemVars, failure, sent>>

\* Steps of the goroutine that runs execute, the tools it calls left out.
Runner ==
  \/ Begin \/ PlanCall \/ PlanDone
  \/ StartBatch \/ StopOnContext \/ StartSerial \/ SpawnConcurrent
  \/ Collect \/ CollectEnd \/ BatchEnd
  \/ \E i \in Calls : DiscardNext(i)
  \/ Finish

ToolReturn(i) ==
  \E o \in ToolOutcomes : SerialReturn(i, o) \/ ConcurrentReturn(i, o)

Terminated ==
  /\ pc \in {"done", "refused"} /\ read = Len(sent)
  /\ UNCHANGED vars

Next ==
  \/ Runner
  \/ \E i \in Calls : ToolReturn(i)
  \/ CancelContext
  \/ ReadEvent
  \/ Terminated

Spec == Init /\ [][Next]_vars

(***************************************************************************)
(* The runtime's goroutine is scheduled, a tool that can return does, and  *)
(* the consumer of Stream drains Events before it waits for Done.  Nobody  *)
(* is obliged to cancel.                                                   *)
(***************************************************************************)
Fairness ==
  /\ WF_vars(Runner)
  /\ \A i \in Calls : WF_vars(ToolReturn(i))
  /\ WF_vars(ReadEvent)

FairSpec == Spec /\ Fairness

-----------------------------------------------------------------------------
(* Properties.                                                             *)

InFlight(i) == items[i] = "running"
Started(i) == items[i] \in Statuses \cup {"running", "returned"}
Settled(i) == items[i] \in Statuses \cup {"discarded"}

\* Types, and the bound of the event channel: a send never overfills it.
TypeOK ==
  /\ safe \in SUBSET Calls /\ waiting \in SUBSET Calls
  /\ serialFallback \in BOOLEAN /\ streaming \in BOOLEAN
  /\ ctxDone \in BOOLEAN /\ batchDone \in BOOLEAN
  /\ pc \in {"begin", "refused", "plan", "head", "serial", "serial_run",
             "concurrent", "collect", "batch_end", "discard", "done"}
  /\ planned \in 0..NumCalls
  /\ current \in SUBSET Calls
  /\ plan \in Seq(Batch)
  /\ batch \in Nat \ {0}
  /\ items \in [Calls -> ItemStates]
  /\ itemErr \in SUBSET Calls
  /\ results \in Seq(Completion)
  /\ failure \in {"none", "item", "ctx"}
  /\ sent \in Seq(EventRecord)
  /\ read \in 0..Len(sent)
  /\ Len(sent) - read <= EventCap

Planned == pc \notin {"begin", "refused", "plan"}

(***************************************************************************)
(* The plan neither loses nor reorders a call: once it is made, each call  *)
(* is in exactly one batch, batches follow the order of the calls, and a   *)
(* call whose tool is not safe is a batch of its own.                      *)
(* Planning loop, batch_runtime.go:431-472.                                *)
(***************************************************************************)
PlanPartitions ==
  Planned =>
    /\ \A i \in Calls : \E b \in DOMAIN plan : i \in plan[b].indexes
    /\ \A b, c \in DOMAIN plan :
         b < c => \A i \in plan[b].indexes, j \in plan[c].indexes : i < j
    /\ \A b \in DOMAIN plan :
         /\ plan[b].mode = "concurrent" => plan[b].indexes \subseteq safe /\ ~serialFallback
         /\ plan[b].mode # "concurrent" => \A i, j \in plan[b].indexes : i = j

(***************************************************************************)
(* The failure cascade: a call is started only when every call of every    *)
(* earlier batch was collected with the status succeeded.                  *)
(***************************************************************************)
NothingPastAFailure ==
  \A b, c \in DOMAIN plan : b < c =>
    \A i \in plan[b].indexes, j \in plan[c].indexes :
      Started(j) => items[i] = "succeeded"

(***************************************************************************)
(* Two calls are in flight together only when the tools of both are        *)
(* declared safe and the serial fallback is off.                           *)
(***************************************************************************)
UnsafeRunsAlone ==
  \A i, j \in Calls :
    i # j /\ InFlight(i) /\ InFlight(j) => {i, j} \subseteq safe /\ ~serialFallback

(***************************************************************************)
(* The report of a finished run has a result for every call, it carries an *)
(* error exactly when some result is not a success, and a run stopped by   *)
(* its context left at least one call out.                                 *)
(***************************************************************************)
ReportComplete ==
  pc = "done" =>
    /\ \A i \in Calls : Settled(i)
    /\ failure # "none" <=> \E i \in Calls : ItemFailed(items[i])
    /\ failure = "ctx" => \E i \in Calls : items[i] = "discarded"

(***************************************************************************)
(* Stream tells the story in order: one event for each call settled and    *)
(* none for the others, a completion only inside its batch, and nothing    *)
(* after the final event.                                                  *)
(***************************************************************************)
EventsTellTheRun ==
  streaming =>
    /\ \A i \in Calls :
         Cardinality({k \in DOMAIN sent : sent[k].item = i})
           = (IF Settled(i) THEN 1 ELSE 0)
    /\ \A k \in DOMAIN sent : sent[k].kind = "item_completed" =>
         /\ \E l \in 1..(k - 1) : sent[l] = Event("batch_started", sent[k].batch, 0)
         /\ Event("batch_completed", sent[k].batch, 0) \notin {sent[l] : l \in 1..k}
         /\ sent[k].item \in plan[sent[k].batch].indexes
    /\ \A k \in DOMAIN sent : sent[k].kind = "completed" <=> (pc = "done" /\ k = Len(sent))

(***************************************************************************)
(* A failure brings the run to its end even when other calls of the batch  *)
(* would wait forever: their context is cancelled.                         *)
(***************************************************************************)
FailureEndsRun ==
  (\E i \in Calls : items[i] \in {"failed", "cancelled"}) ~> pc = "done"

\* The run implements the contract its caller relies on.
Fate(i) ==
  CASE items[i] = "none"                     -> "pending"
    [] items[i] \in {"running", "returned"} -> "running"
    [] items[i] \in {"failed", "cancelled"} -> "failed"
    [] OTHER                                 -> items[i]

Contract == INSTANCE BatchContract
  WITH parallel  <- IF serialFallback THEN {} ELSE safe,
       cancelled <- ctxDone,
       fate      <- [i \in Calls |-> Fate(i)]

ImplementsContract == Contract!Spec

(***************************************************************************)
(* What the comment at batch_runtime.go:192-196 says of a failed item,     *)
(* read of a call whose execution returned an error: calls of later        *)
(* batches are not executed.                                               *)
(***************************************************************************)
FailedExecutionCascades ==
  \A b, c \in DOMAIN plan : b < c =>
    \A i \in plan[b].indexes, j \in plan[c].indexes :
      i \in itemErr => ~Started(j)
=============================================================================
