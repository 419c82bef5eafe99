---------------------------- MODULE AgentRuntime ----------------------------
(***************************************************************************)
(* One task of agent.AgentRuntime, from Start to its end: the caller of    *)
(* Start, the goroutine of runTask with the injected runner, the callers   *)
(* of Stop, and the reader of the event channel Start returns.             *)
(*                                                                         *)
(* Every section under the mutex of the task is one step; a send on the    *)
(* event channel happens outside of it and is a step of its own.           *)
(***************************************************************************)
EXTENDS Naturals, Sequences, FiniteSets

CONSTANTS
  NumStops,         \* callers of Stop
  EventCap,         \* eventBuffer
  MaxReports        \* bound: events the runner emits

ASSUME AgentAssumption ==
  NumStops \in Nat /\ EventCap \in Nat \ {0} /\ MaxReports \in Nat

Starter == 0
Stoppers == 1..NumStops
Runner == NumStops + 1
Procs == 0..(NumStops + 1)

Endings == {"completed", "failed", "stopped"}
Statuses == {"", "pending", "running"} \cup Endings

VARIABLES
  pc, then,         \* where each process stands, and where a send leads it
  outbox,           \* the event each process is sending
  status,           \* "" until the task is registered
  sealed,
  progress,         \* progress events that were counted
  attached,         \* the handle has the cancel function of runCtx
  ctx, runCtx,      \* the caller's context and the one derived from it
  runErr,           \* what the runner returned
  outcome,          \* what runTask will make of it
  reports,          \* events the runner has emitted
  log, taken        \* every event sent, and how many were received

taskVars == <<status, sealed, progress>>
ctxVars == <<attached, ctx, runCtx>>
runVars == <<runErr, outcome, reports>>
chanVars == <<outbox, log>>
vars == <<pc, then, taskVars, ctxVars, runVars, chanVars, taken>>

EventTypes == {"started", "status_changed", "progress"} \cup Endings
Event == [type : EventTypes \cup {"none"}, status : Statuses]
NoEvent == [type |-> "none", status |-> ""]
Ev(type, s) == [type |-> type, status |-> s]

Init ==
  /\ pc = [p \in Procs |-> "idle"] /\ then = [p \in Procs |-> "idle"]
  /\ outbox = [p \in Procs |-> NoEvent]
  /\ status = "" /\ sealed = FALSE /\ progress = 0
  /\ attached = FALSE /\ ctx = "live" /\ runCtx = "live"
  /\ runErr = "none" /\ outcome = "" /\ reports = 0
  /\ log = <<>> /\ taken = 0

Terminal == status \in Endings

Goto(p, place) == pc' = [pc EXCEPT ![p] = place]

-----------------------------------------------------------------------------
(* emitWithMode: the check of the seal under the mutex, then a send that   *)
(* waits for room and for nothing else.                                    *)

\* Seeded fault: an event is dropped after the seal, forced or not.
PublishUnforced(p, event, force, next) ==
  /\ IF sealed
       THEN Goto(p, next) /\ UNCHANGED <<then, outbox>>
       ELSE /\ outbox' = [outbox EXCEPT ![p] = event]
            /\ then' = [then EXCEPT ![p] = next]
            /\ Goto(p, "send")
  /\ UNCHANGED log

\* Seeded fault: the seal is not looked at.
PublishSealed(p, event, force, next) ==
  /\ outbox' = [outbox EXCEPT ![p] = event]
  /\ then' = [then EXCEPT ![p] = next]
  /\ Goto(p, "send")
  /\ UNCHANGED log

Publish(p, event, force, next) ==
  /\ IF sealed /\ ~force
       THEN Goto(p, next) /\ UNCHANGED <<then, outbox>>
       ELSE /\ outbox' = [outbox EXCEPT ![p] = event]
            /\ then' = [then EXCEPT ![p] = next]
            /\ Goto(p, "send")
  /\ UNCHANGED log

\* Seeded fault: the channel has no bound.
RoomAlways == TRUE

Room == Len(log) - taken < EventCap

Send(p) ==
  /\ pc[p] = "send"
  /\ Room
  /\ log' = Append(log, outbox[p])
  /\ outbox' = [outbox EXCEPT ![p] = NoEvent]
  /\ Goto(p, then[p])
  /\ UNCHANGED <<then, taskVars, ctxVars, runVars, taken>>

-----------------------------------------------------------------------------
(* Start.                                                                  *)

\* Start under a context that is done, or of an id that is taken, changes nothing.
Register ==
  /\ pc[Starter] = "idle" /\ ctx = "live"
  /\ status' = "pending"
  /\ Goto(Starter, "started")
  /\ UNCHANGED <<then, sealed, progress, ctxVars, runVars, chanVars, taken>>

EmitStarted ==
  /\ pc[Starter] = "started"
  /\ Publish(Starter, Ev("started", status), FALSE, "transition")
  /\ UNCHANGED <<taskVars, ctxVars, runVars, taken>>

\* Seeded fault: the transition to running is not checked.
TransitionRunningUnchecked ==
  /\ pc[Starter] = "transition"
  /\ status' = "running"
  /\ Goto(Starter, "status")
  /\ UNCHANGED <<then, sealed, progress, ctxVars, runVars, chanVars, taken>>

\* A task that was stopped meanwhile cannot run: Start returns the error.
TransitionRunning ==
  /\ pc[Starter] = "transition"
  /\ IF status = "pending"
       THEN status' = "running" /\ Goto(Starter, "status")
       ELSE UNCHANGED status /\ Goto(Starter, "failed")
  /\ UNCHANGED <<then, sealed, progress, ctxVars, runVars, chanVars, taken>>

EmitRunning ==
  /\ pc[Starter] = "status"
  /\ Publish(Starter, Ev("status_changed", "running"), FALSE, "attach")
  /\ UNCHANGED <<taskVars, ctxVars, runVars, taken>>

Attach ==
  /\ pc[Starter] = "attach"
  /\ runCtx' = ctx
  /\ attached' = TRUE
  /\ Goto(Starter, "spawn")
  /\ UNCHANGED <<then, taskVars, ctx, runVars, chanVars, taken>>

Spawn ==
  /\ pc[Starter] = "spawn"
  /\ pc' = [pc EXCEPT ![Starter] = "returned", ![Runner] = "run"]
  /\ UNCHANGED <<then, taskVars, ctxVars, runVars, chanVars, taken>>

-----------------------------------------------------------------------------
(* runTask: the runner, and what its return makes of the task.             *)

RunnerEmit ==
  /\ pc[Runner] = "run" /\ reports < MaxReports
  /\ reports' = reports + 1
  /\ progress' = IF sealed THEN progress ELSE progress + 1
  /\ Publish(Runner, Ev("progress", ""), FALSE, "run")
  /\ UNCHANGED <<status, sealed, ctxVars, runErr, outcome, taken>>

\* The runner may return what it likes; a deadline is an error like any other.
RunnerReturn(err) ==
  /\ pc[Runner] = "run"
  /\ runErr' = err
  /\ Goto(Runner, "result")
  /\ UNCHANGED <<then, taskVars, ctxVars, outcome, reports, chanVars, taken>>

\* Seeded fault: a runner that was cancelled and says nothing has completed.
OutcomeByError ==
  IF runErr = "canceled" THEN "stopped"
  ELSE IF runErr = "other" THEN "failed"
  ELSE "completed"

Outcome ==
  IF runErr = "canceled" \/ runCtx = "canceled" THEN "stopped"
  ELSE IF runErr = "other" THEN "failed"
  ELSE "completed"

\* The status of the task, the error and the context are read here, and what
\* is made of them happens later, whatever becomes of them meanwhile.
Decide ==
  /\ pc[Runner] = "result"
  /\ outcome' = Outcome
  /\ Goto(Runner, IF Terminal THEN "done" ELSE "finish")
  /\ UNCHANGED <<then, taskVars, ctxVars, runErr, reports, chanVars, taken>>

\* Seeded fault: the runner's outcome replaces one that is there already.
RunnerEndsAnyway ==
  /\ pc[Runner] = "finish"
  /\ status' = outcome
  /\ Goto(Runner, "seal")
  /\ UNCHANGED <<then, sealed, progress, ctxVars, runVars, chanVars, taken>>

\* transition refuses a task that was stopped meanwhile; runTask then returns.
RunnerEnds ==
  /\ pc[Runner] = "finish"
  /\ IF Terminal
       THEN UNCHANGED status /\ Goto(Runner, "done")
       ELSE status' = outcome /\ Goto(Runner, "seal")
  /\ UNCHANGED <<then, sealed, progress, ctxVars, runVars, chanVars, taken>>

-----------------------------------------------------------------------------
(* Stop, and the announcement of an ending it shares with runTask.         *)

\* Stop of a task that is not registered, or has ended, changes nothing.
Stop(s) ==
  /\ pc[s] = "idle"
  /\ status \in {"pending", "running"}
  /\ status' = "stopped"
  /\ Goto(s, "seal")
  /\ UNCHANGED <<then, sealed, progress, ctxVars, runVars, chanVars, taken>>

StopNothing(s) ==
  /\ pc[s] = "idle"
  /\ status \notin {"pending", "running"}
  /\ Goto(s, "nothing")
  /\ UNCHANGED <<then, taskVars, ctxVars, runVars, chanVars, taken>>

Seal(p) ==
  /\ pc[p] = "seal"
  /\ sealed' = TRUE
  /\ Goto(p, IF p \in Stoppers THEN "cancel" ELSE "end")
  /\ UNCHANGED <<then, status, progress, ctxVars, runVars, chanVars, taken>>

CancelRun(s) ==
  /\ pc[s] = "cancel"
  /\ runCtx' = IF attached /\ runCtx = "live" THEN "canceled" ELSE runCtx
  /\ Goto(s, "end")
  /\ UNCHANGED <<then, taskVars, attached, ctx, runVars, chanVars, taken>>

AnnounceEnd(p) ==
  /\ pc[p] = "end"
  /\ Publish(p, Ev(status, status), TRUE, "change")
  /\ UNCHANGED <<taskVars, ctxVars, runVars, taken>>

AnnounceChange(p) ==
  /\ pc[p] = "change"
  /\ Publish(p, Ev("status_changed", status), TRUE, "done")
  /\ UNCHANGED <<taskVars, ctxVars, runVars, taken>>

-----------------------------------------------------------------------------
(* The caller of Start: its context, and its reading of the channel.       *)

ContextDone(cause) ==
  /\ ctx = "live"
  /\ ctx' = cause
  /\ runCtx' = IF attached /\ runCtx = "live" THEN cause ELSE runCtx
  /\ UNCHANGED <<pc, then, taskVars, attached, runVars, chanVars, taken>>

Receive ==
  /\ pc[Starter] = "returned"
  /\ taken < Len(log)
  /\ taken' = taken + 1
  /\ UNCHANGED <<pc, then, taskVars, ctxVars, runVars, chanVars>>

-----------------------------------------------------------------------------

StarterStep ==
  \/ EmitStarted \/ TransitionRunning \/ EmitRunning \/ Attach \/ Spawn
  \/ Send(Starter)

EndStep(p) == Seal(p) \/ AnnounceEnd(p) \/ AnnounceChange(p) \/ Send(p)

RunnerStep == Decide \/ RunnerEnds \/ EndStep(Runner)

StopperStep(s) == CancelRun(s) \/ EndStep(s)

\* Places where a process waits for nobody.
Resting == {"idle", "returned", "failed", "nothing", "done"}

Terminated ==
  /\ \A p \in Procs : pc[p] \in Resting
  /\ pc[Starter] \in Resting \ {"idle"} \/ ctx # "live"
  /\ UNCHANGED vars

Next ==
  \/ Register
  \/ StarterStep
  \/ RunnerEmit
  \/ \E err \in {"nil", "canceled", "other"} : RunnerReturn(err)
  \/ RunnerStep
  \/ \E s \in Stoppers : Stop(s) \/ StopNothing(s) \/ StopperStep(s)
  \/ \E cause \in {"canceled", "deadline"} : ContextDone(cause)
  \/ Receive
  \/ Terminated

Spec == Init /\ [][Next]_vars

\* Goroutines inside the runtime are scheduled; the runner owes nothing.
Fairness ==
  /\ WF_vars(StarterStep)
  /\ WF_vars(RunnerStep)
  /\ \A s \in Stoppers : WF_vars(StopperStep(s))

FairSpec == Spec /\ Fairness

-----------------------------------------------------------------------------
(* Properties.                                                             *)

\* Types, and the bound of the event channel.
TypeOK ==
  /\ pc \in [Procs -> {"idle", "started", "send", "transition", "status", "attach",
                       "spawn", "returned", "failed", "run", "result", "finish", "seal", "cancel",
                       "end", "change", "done", "nothing"}]
  /\ then \in [Procs -> {"idle", "transition", "attach", "run", "change", "done"}]
  /\ outbox \in [Procs -> Event]
  /\ status \in Statuses /\ sealed \in BOOLEAN /\ progress \in 0..MaxReports
  /\ attached \in BOOLEAN
  /\ ctx \in {"live", "canceled", "deadline"}
  /\ runCtx \in {"live", "canceled", "deadline"}
  /\ runErr \in {"none", "nil", "canceled", "other"} /\ outcome \in Endings \cup {""}
  /\ reports \in 0..MaxReports
  /\ log \in Seq(Event) /\ taken \in 0..Len(log)
  /\ Len(log) - taken <= EventCap

EndsAt == {k \in DOMAIN log : log[k].type \in Endings}

(***************************************************************************)
(* However Start, Stop and the end of the runner race, one ending is       *)
(* published, it is the one the task has, and the status change that goes  *)
(* with it follows it.                                                     *)
(***************************************************************************)
OneEnding ==
  /\ \A j, k \in EndsAt : j = k
  /\ \A k \in EndsAt : log[k] = Ev(status, status)
  /\ \A k \in DOMAIN log : log[k].type = "status_changed" /\ log[k].status \in Endings =>
       \E j \in EndsAt : j < k

(***************************************************************************)
(* Events that passed the seal before it was set may arrive after the      *)
(* ending, but only one can: emits race with the ending, they do not pile  *)
(* up behind it.                                                           *)
(***************************************************************************)
OneLateEvent ==
  \A e \in EndsAt :
    Cardinality({k \in DOMAIN log : k > e /\ log[k].status \notin Endings}) <= 1

(***************************************************************************)
(* A task whose context is cancelled before its runner has returned, by    *)
(* the caller of Start or by a Stop, ends as stopped or not at all: it     *)
(* never completes or fails, whatever the runner returns.                  *)
(***************************************************************************)
CancelledNeverCompletes ==
  [](pc[Runner] = "run" /\ runCtx = "canceled" => [](status \notin {"completed", "failed"}))

(***************************************************************************)
(* An ending is told to a reader that goes on reading: the runtime always  *)
(* gets both of its forced events out.                                     *)
(***************************************************************************)
EndingIsTold ==
  WF_vars(Receive) =>
    (Terminal ~> \E k \in DOMAIN log : log[k] = Ev("status_changed", status))

\* The task implements its contract.
Contract == INSTANCE TaskContract
  WITH announced <- IF EndsAt = {} THEN "" ELSE status

ImplementsTaskContract == Contract!Spec

(***************************************************************************)
(* "Stop requests a task stop and seals the task state" (runtime_impl.go): *)
(* a runner that is still running when Stop has returned has a context     *)
(* that is done, which is how it learns of the request.                    *)
(***************************************************************************)
StopReachesRunner ==
  (\E s \in Stoppers : pc[s] = "done") /\ pc[Runner] = "run" => runCtx # "live"
=============================================================================
