------------------------- MODULE AgentRuntimeProofs -------------------------
(***************************************************************************)
(* Proofs about AgentRuntime for any number of callers of Stop, any event  *)
(* buffer and any number of reports: types, the one ending of a task, the  *)
(* contract with whoever watches it, the event that may be late, and what  *)
(* a cancellation rules out.                                               *)
(*                                                                         *)
(* Places, Outboxes, Ended and Counted are the invariant of all of them.   *)
(* Late adds that what follows the ending is the one event somebody had in *)
(* hand, RunnerOwns that only a runner past its decision completes or      *)
(* fails a task; Bound holds from the cancellation on.                     *)
(***************************************************************************)
EXTENDS AgentRuntime, FiniteSetTheorems, TLAPS

(***************************************************************************)
(* Where a process stands that has won the transition to a terminal status *)
(* and has not yet finished announcing it.                                 *)
(***************************************************************************)
Sending(p, next) == pc[p] = "send" /\ then[p] = next
Before(p) == pc[p] \in {"seal", "cancel", "end"} \/ Sending(p, "change")
After(p) == pc[p] = "change" \/ Sending(p, "done")
Enders == {p \in Procs : Before(p) \/ After(p)}

(***************************************************************************)
(* Who may stand where, and what each has in hand.                         *)
(***************************************************************************)
Places ==
  /\ pc[Starter] \in {"idle", "started", "send", "transition", "status", "attach",
                      "spawn", "returned", "failed"}
  /\ pc[Runner] \in {"idle", "run", "send", "result", "finish", "seal", "end",
                     "change", "done"}
  /\ \A s \in Stoppers : pc[s] \in {"idle", "nothing", "seal", "cancel", "end", "send",
                                    "change", "done"}
  /\ pc[Starter] = "idle" <=> status = ""
  /\ \/ pc[Starter] \in {"status", "attach", "spawn", "returned"}
     \/ pc[Starter] = "send" /\ then[Starter] = "attach"
     => status \notin {"", "pending"}
  /\ pc[Runner] # "idle" => pc[Starter] = "returned"
  /\ pc[Starter] = "send" => then[Starter] \in {"transition", "attach"}
  /\ pc[Runner] = "send" => then[Runner] \in {"run", "change", "done"}
  /\ \A s \in Stoppers : pc[s] = "send" => then[s] \in {"change", "done"}
  /\ pc[Runner] = "finish" => outcome \in Endings

Outboxes ==
  \A p \in Procs : pc[p] = "send" =>
    CASE then[p] = "change" -> outbox[p] = Ev(status, status)
      [] then[p] = "done"   -> outbox[p] = Ev("status_changed", status)
      [] OTHER -> /\ outbox[p].type \notin Endings
                  /\ outbox[p].type = "status_changed" => outbox[p].status \notin Endings

(***************************************************************************)
(* The ending belongs to one process, is in the log once that process has  *)
(* sent it, and comes after the seal.                                      *)
(***************************************************************************)
Ended ==
  /\ \A p, q \in Enders : p = q
  /\ Enders # {} => status \in Endings
  /\ sealed => status \in Endings
  /\ \A p \in Procs : pc[p] \in {"cancel", "end", "change"} \/ Sending(p, "change") => sealed
  /\ EndsAt # {} => status \in Endings /\ sealed
  /\ \A p \in Procs : Before(p) => EndsAt = {}
  /\ \A p \in Procs : After(p) => EndsAt # {}
  /\ OneEnding

\* Every report that counted was one of the runner's.
Counted == progress <= reports

IInv == TypeOK /\ Places /\ Outboxes /\ Ended /\ Counted

LEMMA ProcFacts ==
  /\ Starter \in Procs /\ Runner \in Procs /\ Stoppers \subseteq Procs
  /\ Starter # Runner /\ Starter \notin Stoppers /\ Runner \notin Stoppers
  /\ Procs = {Starter, Runner} \cup Stoppers
BY AgentAssumption DEF Starter, Runner, Stoppers, Procs

LEMMA EventFacts ==
  /\ NoEvent \in Event
  /\ \A type \in EventTypes, s \in Statuses :
       /\ Ev(type, s) \in Event /\ Ev(type, s).type = type /\ Ev(type, s).status = s
  /\ Endings \subseteq EventTypes /\ Endings \subseteq Statuses
  /\ "status_changed" \notin Endings /\ "" \notin Endings
BY DEF NoEvent, Event, Ev, EventTypes, Endings, Statuses

LEMMA InvInit == Init => IInv
<1>. SUFFICES ASSUME Init PROVE IInv
  OBVIOUS
<1>0. log = <<>> /\ taken = 0 /\ reports = 0 /\ progress = 0
  BY DEF Init
<1>1. \A p \in Procs : pc[p] = "idle"
  BY DEF Init
<1>2. TypeOK
  <2>1. log \in Seq(Event) /\ taken \in 0..Len(log) /\ Len(log) - taken <= EventCap
    BY <1>0, AgentAssumption
  <2>2. reports \in 0..MaxReports /\ progress \in 0..MaxReports
    BY <1>0, AgentAssumption
  <2>. QED
    BY <2>1, <2>2, EventFacts DEF Init, TypeOK, Statuses
<1>3. Places
  BY <1>1, ProcFacts DEF Init, Places
<1>4. Outboxes
  BY <1>1 DEF Outboxes
<1>5. Enders = {} /\ EndsAt = {}
  <2>1. DOMAIN log = {}
    BY <1>0
  <2>. QED
    BY <1>1, <2>1 DEF Enders, Before, After, Sending, EndsAt
<1>6. OneEnding
  <2>1. DOMAIN log = {}
    BY <1>0
  <2>. QED
    BY <1>5, <2>1 DEF OneEnding
<1>7. Ended
  BY <1>1, <1>5, <1>6, ProcFacts DEF Init, Ended, Before, After, Sending
<1>8. Counted
  BY <1>0 DEF Counted
<1>. QED
  BY <1>2, <1>3, <1>4, <1>7, <1>8 DEF IInv

-----------------------------------------------------------------------------
(* Types.                                                                  *)

Places0 == {"idle", "started", "send", "transition", "status", "attach", "spawn",
            "returned", "failed", "run", "result", "finish", "seal", "cancel", "end",
            "change", "done", "nothing"}
Nexts == {"transition", "attach", "run", "change", "done"}

SendTypes ==
  /\ pc \in [Procs -> Places0]
  /\ then \in [Procs -> Nexts \cup {"idle"}]
  /\ outbox \in [Procs -> Event]

LEMMA PublishTypes ==
  ASSUME TypeOK, NEW p \in Procs, NEW event \in Event, NEW force \in BOOLEAN,
         NEW next \in Nexts, Publish(p, event, force, next)
  PROVE  SendTypes' /\ log' = log
BY DEF TypeOK, Publish, Goto, SendTypes, Places0, Nexts

\* A step that publishes, and changes nothing else but what is typed beside it.
LEMMA TypesBeside ==
  ASSUME TypeOK, SendTypes', log' = log, taken' = taken, UNCHANGED <<status, sealed, ctxVars>>,
         UNCHANGED <<runErr, outcome>>, reports' \in 0..MaxReports, progress' \in 0..MaxReports
  PROVE  TypeOK'
BY DEF TypeOK, SendTypes, Places0, Nexts, ctxVars

LEMMA TypeNext == IInv /\ [Next]_vars => TypeOK'
<1>. SUFFICES ASSUME IInv, [Next]_vars PROVE TypeOK'
  OBVIOUS
<1>. USE DEF IInv
<1>0. TypeOK
  OBVIOUS
<1>e. /\ \A type \in EventTypes, s \in Statuses : Ev(type, s) \in Event
      /\ status \in Statuses /\ "" \in Statuses /\ "running" \in Statuses
      /\ {"started", "status_changed", "progress"} \subseteq EventTypes
      /\ status \in Endings => status \in EventTypes
  BY <1>0, EventFacts DEF TypeOK, Statuses, EventTypes
<1>r. /\ reports \in 0..MaxReports /\ progress \in 0..MaxReports /\ progress <= reports
      /\ taken \in 0..Len(log) /\ log \in Seq(Event) /\ Len(log) - taken <= EventCap
  BY <1>0 DEF TypeOK, Counted
<1>1. CASE Register \/ TransitionRunning \/ Attach \/ Spawn
  BY <1>0, <1>1, ProcFacts DEF Register, TransitionRunning, Attach, Spawn, TypeOK, Goto,
     Statuses, ctxVars, runVars, chanVars, taskVars
<1>2. CASE EmitStarted \/ EmitRunning
  <2>1. PICK event \in Event, next \in Nexts : Publish(Starter, event, FALSE, next)
    BY <1>2, <1>e DEF EmitStarted, EmitRunning, Nexts
  <2>2. SendTypes' /\ log' = log
    BY <1>0, <2>1, PublishTypes, ProcFacts
  <2>. QED
    BY <1>0, <1>2, <1>r, <2>2, TypesBeside
       DEF EmitStarted, EmitRunning, taskVars, ctxVars, runVars
<1>3. CASE RunnerEmit
  <2>1. Publish(Runner, Ev("progress", ""), FALSE, "run") /\ Ev("progress", "") \in Event
    BY <1>3, <1>e DEF RunnerEmit
  <2>2. /\ reports < MaxReports /\ reports' = reports + 1
        /\ progress' = IF sealed THEN progress ELSE progress + 1
    BY <1>3 DEF RunnerEmit
  <2>3. reports' \in 0..MaxReports /\ progress' \in 0..MaxReports
    BY <1>r, <2>2, AgentAssumption
  <2>4. SendTypes' /\ log' = log
    BY <1>0, <2>1, PublishTypes, ProcFacts DEF Nexts
  <2>. QED
    BY <1>0, <1>3, <2>3, <2>4, TypesBeside DEF RunnerEmit, ctxVars
<1>4. CASE \/ \E err \in {"nil", "canceled", "other"} : RunnerReturn(err)
           \/ Decide \/ RunnerEnds
  <2>1. Outcome \in Endings
    BY DEF Outcome, Endings
  <2>2. outcome \in Endings \/ ~RunnerEnds
    BY DEF RunnerEnds, Places
  <2>. QED
    BY <1>0, <1>4, <2>1, <2>2, ProcFacts DEF RunnerReturn, Decide, RunnerEnds, TypeOK,
       Goto, Statuses, taskVars, ctxVars, runVars, chanVars
<1>5. ASSUME NEW s \in Stoppers, Stop(s) \/ StopNothing(s) \/ CancelRun(s) PROVE TypeOK'
  <2>1. s \in Procs
    BY ProcFacts
  <2>2. CASE Stop(s)
    BY <1>0, <2>1, <2>2 DEF Stop, TypeOK, Goto, Statuses, Endings, ctxVars, runVars, chanVars
  <2>3. CASE StopNothing(s)
    BY <1>0, <2>1, <2>3 DEF StopNothing, TypeOK, Goto, taskVars, ctxVars, runVars, chanVars
  <2>4. CASE CancelRun(s)
    BY <1>0, <2>1, <2>4 DEF CancelRun, TypeOK, Goto, taskVars, ctxVars, runVars, chanVars
  <2>. QED
    BY <1>5, <2>2, <2>3, <2>4
<1>6. ASSUME NEW p \in Procs, Seal(p) PROVE TypeOK'
  BY <1>0, <1>6, ProcFacts DEF Seal, TypeOK, Goto, ctxVars, runVars, chanVars
<1>7. ASSUME NEW p \in Procs, AnnounceEnd(p) \/ AnnounceChange(p) PROVE TypeOK'
  <2>1. p \in Enders
    BY <1>7 DEF AnnounceEnd, AnnounceChange, Enders, Before, After
  <2>2. status \in Endings
    BY <2>1 DEF Ended
  <2>3. PICK event \in Event, next \in Nexts : Publish(p, event, TRUE, next)
    BY <1>7, <1>e, <2>2 DEF AnnounceEnd, AnnounceChange, Nexts
  <2>4. SendTypes' /\ log' = log
    BY <1>0, <2>3, PublishTypes
  <2>. QED
    BY <1>0, <1>7, <1>r, <2>4, TypesBeside
       DEF AnnounceEnd, AnnounceChange, taskVars, ctxVars, runVars
<1>8. ASSUME NEW p \in Procs, Send(p) PROVE TypeOK'
  <2>1. /\ log \in Seq(Event) /\ outbox[p] \in Event /\ taken \in 0..Len(log)
        /\ pc[p] = "send" /\ log' = Append(log, outbox[p]) /\ taken' = taken
        /\ Len(log) - taken < EventCap
    BY <1>0, <1>8 DEF Send, Room, TypeOK
  <2>2. log' \in Seq(Event) /\ Len(log') = Len(log) + 1
    BY <2>1
  <2>3. taken' \in 0..Len(log') /\ Len(log') - taken' <= EventCap
    BY <2>1, <2>2, AgentAssumption
  <2>4. then[p] \in {"transition", "attach", "run", "change", "done"}
    BY <2>1, ProcFacts DEF Places
  <2>. QED
    BY <1>0, <1>8, <2>2, <2>3, <2>4, EventFacts
       DEF Send, TypeOK, Goto, taskVars, ctxVars, runVars
<1>9. CASE \E cause \in {"canceled", "deadline"} : ContextDone(cause)
  BY <1>0, <1>9 DEF ContextDone, TypeOK, taskVars, runVars, chanVars
<1>10. CASE Receive
  <2>1. taken' \in 0..Len(log) /\ Len(log) - taken' <= EventCap
    <3>1. taken < Len(log) /\ taken' = taken + 1 /\ Len(log) \in Nat
      BY <1>r, <1>10 DEF Receive
    <3>. QED
      BY <1>r, <3>1, AgentAssumption
  <2>. QED
    BY <1>0, <1>10, <2>1 DEF Receive, TypeOK, taskVars, ctxVars, runVars, chanVars
<1>11. CASE UNCHANGED vars
  BY <1>0, <1>11 DEF TypeOK, vars, taskVars, ctxVars, runVars, chanVars
<1>. QED
  BY <1>1, <1>2, <1>3, <1>4, <1>5, <1>6, <1>7, <1>8, <1>9, <1>10, <1>11, ProcFacts
     DEF Next, StarterStep, RunnerStep, StopperStep, EndStep, Terminated

-----------------------------------------------------------------------------
(* Places, and what each process has in hand.                              *)

LEMMA CountedNext == IInv /\ [Next]_vars => Counted'
<1>. SUFFICES ASSUME IInv, [Next]_vars PROVE Counted'
  OBVIOUS
<1>1. reports \in Nat /\ progress \in Nat /\ progress <= reports
  <2>1. reports \in 0..MaxReports /\ progress \in 0..MaxReports
    BY DEF IInv, TypeOK
  <2>. QED
    BY <2>1, AgentAssumption DEF IInv, Counted
<1>2. CASE RunnerEmit
  <2>1. reports' = reports + 1 /\ progress' = IF sealed THEN progress ELSE progress + 1
    BY <1>2 DEF RunnerEmit
  <2>. QED
    BY <1>1, <2>1 DEF Counted
<1>3. ASSUME UNCHANGED <<reports, progress>> PROVE Counted'
  BY <1>1, <1>3 DEF Counted
<1>4. CASE [Next]_vars /\ ~RunnerEmit
  BY <1>3, <1>4 DEF Next, StarterStep, RunnerStep, StopperStep, EndStep, Terminated,
     Register, EmitStarted, TransitionRunning, EmitRunning, Attach, Spawn, Send,
     RunnerReturn, Decide, RunnerEnds, Stop, StopNothing, CancelRun, Seal, AnnounceEnd,
     AnnounceChange, ContextDone, Receive, vars, taskVars, ctxVars, runVars, chanVars
<1>. QED
  BY <1>2, <1>4

LEMMA OtherOutbox ==
  ASSUME Outboxes, NEW p \in Procs, NEW e \in Event,
         NEW next \in {"transition", "attach", "run"},
         pc \in [Procs -> Places0], then \in [Procs -> Nexts \cup {"idle"}],
         outbox \in [Procs -> Event],
         e.type \notin Endings, e.type = "status_changed" => e.status \notin Endings,
         status' = status,
         pc' = [pc EXCEPT ![p] = "send"], then' = [then EXCEPT ![p] = next],
         outbox' = [outbox EXCEPT ![p] = e]
  PROVE  Outboxes'
<1>. SUFFICES ASSUME NEW q \in Procs, pc'[q] = "send"
              PROVE  CASE then'[q] = "change" -> outbox'[q] = Ev(status', status')
                       [] then'[q] = "done"   -> outbox'[q] = Ev("status_changed", status')
                       [] OTHER -> /\ outbox'[q].type \notin Endings
                                   /\ outbox'[q].type = "status_changed" =>
                                        outbox'[q].status \notin Endings
  BY DEF Outboxes
<1>1. CASE q = p
  <2>1. then'[q] = next /\ outbox'[q] = e
    BY <1>1
  <2>. QED
    BY <2>1
<1>2. CASE q # p
  <2>1. pc[q] = "send" /\ then'[q] = then[q] /\ outbox'[q] = outbox[q]
    BY <1>2
  <2>. QED
    BY <2>1 DEF Outboxes
<1>. QED
  BY <1>1, <1>2

\* The starting process, and what it sends.
LEMMA StarterPlaces ==
  ASSUME IInv,
         Register \/ EmitStarted \/ TransitionRunning \/ EmitRunning \/ Attach \/ Spawn
  PROVE  Places' /\ Outboxes'
<1>0. /\ pc \in [Procs -> Places0] /\ then \in [Procs -> Nexts \cup {"idle"}]
      /\ outbox \in [Procs -> Event]
  BY DEF IInv, TypeOK, Places0, Nexts
<1>1. /\ Places /\ Outboxes /\ (Enders # {} => status \in Endings)
  BY DEF IInv, Ended
<1>2. ASSUME NEW p \in Procs, pc[p] = "send", then[p] \in {"change", "done"}
      PROVE  status \in Endings
  BY <1>1, <1>2 DEF Enders, Before, After, Sending
<1>3. "running" \notin Endings /\ "pending" \notin Endings /\ "" \notin Endings
  BY DEF Endings
<1>4. CASE Register
  BY <1>0, <1>1, <1>2, <1>3, <1>4, ProcFacts
     DEF Register, Goto, Places, Outboxes, runVars, chanVars
<1>5. CASE EmitStarted
  <2>1. PICK e \in Event : e = Ev("started", status) /\ e.type = "started"
    BY EventFacts DEF IInv, TypeOK, EventTypes
  <2>e. "started" \notin Endings /\ "started" # "status_changed"
    BY DEF Endings
  <2>2. CASE ~sealed
    <3>1. /\ pc[Starter] = "started" /\ status' = status /\ outcome' = outcome
          /\ outbox' = [outbox EXCEPT ![Starter] = e]
          /\ then' = [then EXCEPT ![Starter] = "transition"]
          /\ pc' = [pc EXCEPT ![Starter] = "send"]
      BY <1>5, <2>1, <2>2 DEF EmitStarted, Publish, Goto, taskVars, runVars
    <3>2. Places'
      BY <1>0, <1>1, <3>1, ProcFacts DEF Places
    <3>3. Outboxes'
      BY <1>0, <1>1, <2>1, <2>e, <3>1, ProcFacts, OtherOutbox
    <3>. QED
      BY <3>2, <3>3
  <2>3. CASE sealed
    <3>1. /\ pc[Starter] = "started" /\ UNCHANGED <<status, outcome, outbox, then>>
          /\ pc' = [pc EXCEPT ![Starter] = "transition"]
      BY <1>5, <2>3 DEF EmitStarted, Publish, Goto, taskVars, runVars
    <3>. QED
      BY <1>0, <1>1, <3>1, ProcFacts DEF Places, Outboxes
  <2>. QED
    BY <2>2, <2>3
<1>6. CASE TransitionRunning
  <2>1. CASE status = "pending"
    <3>1. /\ pc[Starter] = "transition" /\ pc' = [pc EXCEPT ![Starter] = "status"]
          /\ status' = "running" /\ UNCHANGED <<then, outbox, outcome>>
      BY <1>6, <2>1 DEF TransitionRunning, Goto, runVars, chanVars
    <3>2. Places'
      BY <1>0, <1>1, <3>1, ProcFacts DEF Places
    <3>3. Outboxes'
      BY <1>0, <1>1, <1>2, <1>3, <2>1, <3>1, ProcFacts DEF Outboxes
    <3>. QED
      BY <3>2, <3>3
  <2>2. CASE status # "pending"
    <3>1. /\ pc[Starter] = "transition" /\ pc' = [pc EXCEPT ![Starter] = "failed"]
          /\ UNCHANGED <<status, then, outbox, outcome>>
      BY <1>6, <2>2 DEF TransitionRunning, Goto, runVars, chanVars
    <3>2. Places'
      BY <1>0, <1>1, <3>1, ProcFacts DEF Places
    <3>3. Outboxes'
      BY <1>0, <1>1, <3>1, ProcFacts DEF Outboxes
    <3>. QED
      BY <3>2, <3>3
  <2>. QED
    BY <2>1, <2>2
<1>7. CASE EmitRunning
  <2>1. PICK e \in Event : /\ e = Ev("status_changed", "running")
                           /\ e.type = "status_changed" /\ e.status = "running"
    <3>1. "status_changed" \in EventTypes /\ "running" \in Statuses
      BY DEF EventTypes, Statuses
    <3>2. /\ Ev("status_changed", "running") \in Event
          /\ Ev("status_changed", "running").type = "status_changed"
          /\ Ev("status_changed", "running").status = "running"
      BY <3>1 DEF Ev, Event
    <3>. QED
      BY <3>2
  <2>e. e.type \notin Endings /\ e.status \notin Endings
    BY <2>1 DEF Endings
  <2>2. CASE ~sealed
    <3>1. /\ pc[Starter] = "status" /\ status' = status /\ outcome' = outcome
          /\ outbox' = [outbox EXCEPT ![Starter] = e]
          /\ then' = [then EXCEPT ![Starter] = "attach"]
          /\ pc' = [pc EXCEPT ![Starter] = "send"]
      BY <1>7, <2>1, <2>2 DEF EmitRunning, Publish, Goto, taskVars, runVars
    <3>2. Places'
      BY <1>0, <1>1, <3>1, ProcFacts DEF Places
    <3>3. Outboxes'
      BY <1>0, <1>1, <2>e, <3>1, ProcFacts, OtherOutbox
    <3>. QED
      BY <3>2, <3>3
  <2>3. CASE sealed
    <3>1. /\ pc[Starter] = "status" /\ UNCHANGED <<status, outcome, outbox, then>>
          /\ pc' = [pc EXCEPT ![Starter] = "attach"]
      BY <1>7, <2>3 DEF EmitRunning, Publish, Goto, taskVars, runVars
    <3>. QED
      BY <1>0, <1>1, <3>1, ProcFacts DEF Places, Outboxes
  <2>. QED
    BY <2>2, <2>3
<1>8. CASE Attach \/ Spawn
  <2>1. /\ \/ pc[Starter] = "attach" /\ pc' = [pc EXCEPT ![Starter] = "spawn"]
           \/ /\ pc[Starter] = "spawn"
              /\ pc' = [pc EXCEPT ![Starter] = "returned", ![Runner] = "run"]
        /\ UNCHANGED <<then, outbox, status, outcome>>
    BY <1>8 DEF Attach, Spawn, Goto, taskVars, runVars, chanVars
  <2>2. Places'
    BY <1>0, <1>1, <2>1, ProcFacts DEF Places
  <2>3. Outboxes'
    BY <1>0, <1>1, <2>1, ProcFacts DEF Outboxes
  <2>. QED
    BY <2>2, <2>3
<1>. QED
  BY <1>4, <1>5, <1>6, <1>7, <1>8

LEMMA RunnerPlaces ==
  ASSUME IInv,
         \/ RunnerEmit \/ Decide \/ RunnerEnds
         \/ \E err \in {"nil", "canceled", "other"} : RunnerReturn(err)
  PROVE  Places' /\ Outboxes'
<1>0. /\ pc \in [Procs -> Places0] /\ then \in [Procs -> Nexts \cup {"idle"}]
      /\ outbox \in [Procs -> Event]
  BY DEF IInv, TypeOK, Places0, Nexts
<1>1. /\ Places /\ Outboxes /\ (Enders # {} => status \in Endings)
  BY DEF IInv, Ended
<1>2. ASSUME NEW p \in Procs, pc[p] = "send", then[p] \in {"change", "done"}
      PROVE  status \in Endings
  BY <1>1, <1>2 DEF Enders, Before, After, Sending
<1>3. CASE RunnerEmit
  <2>1. PICK e \in Event : e = Ev("progress", "") /\ e.type = "progress"
    BY EventFacts DEF EventTypes, Statuses
  <2>e. "progress" \notin Endings /\ "progress" # "status_changed"
    BY DEF Endings
  <2>2. CASE ~sealed
    <3>1. /\ pc[Runner] = "run" /\ UNCHANGED <<status, outcome>>
          /\ outbox' = [outbox EXCEPT ![Runner] = e]
          /\ then' = [then EXCEPT ![Runner] = "run"]
          /\ pc' = [pc EXCEPT ![Runner] = "send"]
      BY <1>3, <2>1, <2>2 DEF RunnerEmit, Publish, Goto
    <3>2. Places'
      BY <1>0, <1>1, <3>1, ProcFacts DEF Places
    <3>3. Outboxes'
      BY <1>0, <1>1, <2>1, <2>e, <3>1, ProcFacts, OtherOutbox
    <3>. QED
      BY <3>2, <3>3
  <2>3. CASE sealed
    <3>1. /\ pc[Runner] = "run" /\ UNCHANGED <<status, outcome, outbox, then>>
          /\ pc' = [pc EXCEPT ![Runner] = "run"]
      BY <1>3, <2>3 DEF RunnerEmit, Publish, Goto
    <3>. QED
      BY <1>0, <1>1, <3>1, ProcFacts DEF Places, Outboxes
  <2>. QED
    BY <2>2, <2>3
<1>4. CASE \E err \in {"nil", "canceled", "other"} : RunnerReturn(err)
  <2>1. /\ pc[Runner] = "run" /\ pc' = [pc EXCEPT ![Runner] = "result"]
        /\ UNCHANGED <<then, outbox, status, outcome>>
    BY <1>4 DEF RunnerReturn, Goto, taskVars, chanVars
  <2>. QED
    BY <1>0, <1>1, <2>1, ProcFacts DEF Places, Outboxes
<1>5. CASE Decide
  <2>1. Outcome \in Endings
    BY DEF Outcome, Endings
  <2>. QED
    BY <1>0, <1>1, <1>5, <2>1, ProcFacts DEF Decide, Goto, Places, Outboxes, taskVars, chanVars
<1>6. CASE RunnerEnds
  <2>1. CASE Terminal
    BY <1>0, <1>1, <1>6, <2>1, ProcFacts
       DEF RunnerEnds, Goto, Places, Outboxes, runVars, chanVars
  <2>2. CASE ~Terminal
    <3>1. /\ pc[Runner] = "finish" /\ pc' = [pc EXCEPT ![Runner] = "seal"]
          /\ status' = outcome /\ outcome \in Endings /\ status \notin Endings
          /\ UNCHANGED <<then, outbox, outcome>>
      BY <1>1, <1>6, <2>2 DEF RunnerEnds, Goto, Places, Terminal, runVars, chanVars
    <3>2. Places'
      <4>1. outcome \notin {"", "pending"}
        BY <3>1 DEF Endings
      <4>. QED
        BY <1>0, <1>1, <3>1, <4>1, ProcFacts DEF Places
    <3>3. Outboxes'
      BY <1>0, <1>1, <1>2, <3>1, ProcFacts DEF Outboxes
    <3>. QED
      BY <3>2, <3>3
  <2>. QED
    BY <2>1, <2>2
<1>. QED
  BY <1>3, <1>4, <1>5, <1>6

LEMMA EndPlaces ==
  ASSUME IInv, NEW p \in Procs,
         \/ p \in Stoppers /\ (Stop(p) \/ StopNothing(p) \/ CancelRun(p))
         \/ p # Starter /\ (Seal(p) \/ AnnounceEnd(p) \/ AnnounceChange(p))
         \/ Send(p)
  PROVE  Places' /\ Outboxes'
<1>0. /\ pc \in [Procs -> Places0] /\ then \in [Procs -> Nexts \cup {"idle"}]
      /\ outbox \in [Procs -> Event]
  BY DEF IInv, TypeOK, Places0, Nexts
<1>1. /\ Places /\ Outboxes /\ (Enders # {} => status \in Endings)
  BY DEF IInv, Ended
<1>2. ASSUME NEW q \in Procs, pc[q] = "send", then[q] \in {"change", "done"}
      PROVE  status \in Endings
  BY <1>1, <1>2 DEF Enders, Before, After, Sending
<1>3. CASE p \in Stoppers /\ Stop(p)
  <2>1. /\ pc[p] = "idle" /\ pc' = [pc EXCEPT ![p] = "seal"]
        /\ status' = "stopped" /\ status \in {"pending", "running"}
        /\ UNCHANGED <<then, outbox, outcome>>
    BY <1>3 DEF Stop, Goto, runVars, chanVars
  <2>2. status \notin Endings /\ status # ""
    BY <2>1 DEF Endings
  <2>3. Places'
    BY <1>0, <1>1, <1>3, <2>1, <2>2, ProcFacts DEF Places
  <2>4. Outboxes'
    BY <1>0, <1>1, <1>2, <2>1, <2>2, ProcFacts DEF Outboxes
  <2>. QED
    BY <2>3, <2>4
<1>4. CASE p \in Stoppers /\ (StopNothing(p) \/ CancelRun(p))
  <2>1. /\ \/ pc[p] = "idle" /\ pc' = [pc EXCEPT ![p] = "nothing"]
           \/ pc[p] = "cancel" /\ pc' = [pc EXCEPT ![p] = "end"]
        /\ UNCHANGED <<then, outbox, status, outcome>>
    BY <1>4 DEF StopNothing, CancelRun, Goto, taskVars, runVars, chanVars
  <2>2. Places'
    BY <1>0, <1>1, <1>4, <2>1, ProcFacts DEF Places
  <2>3. Outboxes'
    BY <1>0, <1>1, <2>1 DEF Outboxes
  <2>. QED
    BY <2>2, <2>3
<1>5. CASE p # Starter /\ Seal(p)
  BY <1>0, <1>1, <1>5, ProcFacts
     DEF Seal, Goto, Places, Outboxes, runVars, chanVars
<1>6. CASE p # Starter /\ AnnounceEnd(p)
  <2>1. /\ pc[p] = "end" /\ UNCHANGED <<status, outcome>>
        /\ outbox' = [outbox EXCEPT ![p] = Ev(status, status)]
        /\ then' = [then EXCEPT ![p] = "change"]
        /\ pc' = [pc EXCEPT ![p] = "send"]
    BY <1>6 DEF AnnounceEnd, Publish, Goto, taskVars, runVars
  <2>2. Places'
    BY <1>0, <1>1, <1>6, <2>1, ProcFacts DEF Places
  <2>3. Outboxes'
    BY <1>0, <1>1, <2>1, ProcFacts DEF Outboxes
  <2>. QED
    BY <2>2, <2>3
<1>7. CASE p # Starter /\ AnnounceChange(p)
  <2>1. /\ pc[p] = "change" /\ UNCHANGED <<status, outcome>>
        /\ outbox' = [outbox EXCEPT ![p] = Ev("status_changed", status)]
        /\ then' = [then EXCEPT ![p] = "done"]
        /\ pc' = [pc EXCEPT ![p] = "send"]
    BY <1>7 DEF AnnounceChange, Publish, Goto, taskVars, runVars
  <2>2. Places'
    BY <1>0, <1>1, <1>7, <2>1, ProcFacts DEF Places
  <2>3. Outboxes'
    BY <1>0, <1>1, <2>1, ProcFacts DEF Outboxes
  <2>. QED
    BY <2>2, <2>3
<1>8. CASE Send(p)
  <2>1. /\ pc[p] = "send" /\ UNCHANGED <<status, outcome, then>>
        /\ outbox' = [outbox EXCEPT ![p] = NoEvent]
        /\ pc' = [pc EXCEPT ![p] = then[p]]
    BY <1>8 DEF Send, Goto, taskVars, runVars
  <2>2. then[p] # "send"
    BY <1>0 DEF Nexts
  <2>3. then[Starter] = "attach" /\ pc[Starter] = "send" => status \notin {"", "pending"}
    BY <1>1 DEF Places
  <2>4. Places'
    BY <1>0, <1>1, <2>1, <2>2, <2>3, ProcFacts DEF Places
  <2>5. Outboxes'
    BY <1>0, <1>1, <2>1, <2>2, ProcFacts DEF Outboxes
  <2>. QED
    BY <2>4, <2>5
<1>. QED
  BY <1>3, <1>4, <1>5, <1>6, <1>7, <1>8

LEMMA PlacesNext == IInv /\ [Next]_vars => Places' /\ Outboxes'
<1>. SUFFICES ASSUME IInv, [Next]_vars PROVE Places' /\ Outboxes'
  OBVIOUS
<1>1. CASE \/ UNCHANGED vars \/ Receive
           \/ \E cause \in {"canceled", "deadline"} : ContextDone(cause)
  <2>1. UNCHANGED <<pc, then, outbox, status, outcome>>
    BY <1>1 DEF vars, Receive, ContextDone, taskVars, runVars, chanVars
  <2>. QED
    BY <2>1 DEF IInv, Places, Outboxes
<1>2. CASE StarterStep \/ Register
  BY <1>2, StarterPlaces, EndPlaces, ProcFacts DEF StarterStep
<1>3. CASE \/ RunnerEmit \/ RunnerStep
           \/ \E err \in {"nil", "canceled", "other"} : RunnerReturn(err)
  BY <1>3, RunnerPlaces, EndPlaces, ProcFacts DEF RunnerStep, EndStep
<1>4. CASE \E s \in Stoppers : Stop(s) \/ StopNothing(s) \/ StopperStep(s)
  BY <1>4, EndPlaces, ProcFacts DEF StopperStep, EndStep
<1>. QED
  BY <1>1, <1>2, <1>3, <1>4 DEF Next, Terminated

-----------------------------------------------------------------------------
(* The ending.                                                             *)

EndPlace == {"seal", "cancel", "end", "change"}

\* Which processes are ending depends on pc and then alone.
LEMMA EnderFacts ==
  /\ \A p \in Procs : p \in Enders <=> Before(p) \/ After(p)
  /\ \A p \in Procs : Before(p) \/ After(p) <=>
       pc[p] \in EndPlace \/ (pc[p] = "send" /\ then[p] \in {"change", "done"})
BY DEF Enders, Before, After, Sending, EndPlace

\* A step outside of the ending: no process enters it, leaves it or moves in it.
LEMMA EndedQuiet ==
  ASSUME Ended, UNCHANGED <<log, sealed>>,
         status' = status \/ (status \notin Endings /\ status' \notin Endings),
         \A p \in Procs : Before(p)' <=> Before(p), \A p \in Procs : After(p)' <=> After(p),
         \A p \in Procs : pc'[p] \in {"cancel", "end", "change"} =>
                            pc[p] \in {"cancel", "end", "change"},
         \A p \in Procs : Sending(p, "change")' => Sending(p, "change")
  PROVE  Ended'
<1>1. EndsAt' = EndsAt
  BY DEF EndsAt
<1>2. Enders' = Enders
  BY DEF Enders
<1>3. OneEnding'
  <2>1. CASE status' = status
    BY <1>1, <2>1 DEF Ended, OneEnding
  <2>2. CASE status \notin Endings
    <3>1. EndsAt = {}
      BY <2>2 DEF Ended
    <3>. QED
      BY <1>1, <3>1 DEF Ended, OneEnding
  <2>. QED
    BY <2>1, <2>2
<1>4. \A p \in Procs : pc'[p] \in {"cancel", "end", "change"} \/ Sending(p, "change")'
        => sealed'
  BY DEF Ended
<1>5. EndsAt' # {} => status' \in Endings /\ sealed'
  BY <1>1 DEF Ended
<1>6. /\ Enders' # {} => status' \in Endings
      /\ sealed' => status' \in Endings
  BY <1>2 DEF Ended
<1>. QED
  BY <1>1, <1>2, <1>3, <1>4, <1>5, <1>6 DEF Ended

\* The transition to a terminal status: its process is the one that ends the task.
LEMMA EndedStarts ==
  ASSUME TypeOK, Ended, NEW p \in Procs, status \notin Endings, status' \in Endings,
         UNCHANGED <<log, sealed, then>>, pc' = [pc EXCEPT ![p] = "seal"]
  PROVE  Ended'
<1>1. Enders = {} /\ ~sealed /\ EndsAt = {}
  BY DEF Ended
<1>2. pc \in [Procs -> Places0]
  BY DEF TypeOK, Places0
<1>3. EndsAt' = {}
  BY <1>1 DEF EndsAt
<1>4. \A q \in Procs : q # p => ~Before(q)' /\ ~After(q)'
  BY <1>1, <1>2 DEF Enders, Before, After, Sending
<1>5. Before(p)' /\ ~After(p)' /\ ~Sending(p, "change")'
  BY <1>2 DEF Before, After, Sending
<1>6. \A q \in Procs : pc'[q] \notin {"cancel", "end", "change"} /\ ~Sending(q, "change")'
  BY <1>2, <1>4, <1>5 DEF Before, After, Sending
<1>7. Enders' = {p}
  BY <1>4, <1>5 DEF Enders
<1>8. OneEnding'
  <2>1. \A k \in DOMAIN log : ~(log[k].type = "status_changed" /\ log[k].status \in Endings)
    BY <1>1 DEF Ended, OneEnding
  <2>. QED
    BY <1>3, <2>1 DEF OneEnding
<1>. QED
  BY <1>1, <1>3, <1>4, <1>5, <1>6, <1>7, <1>8 DEF Ended

\* The ending process goes on, and sends nothing.
LEMMA EndedGoesOn ==
  ASSUME TypeOK, Ended, NEW p \in Procs, Before(p) \/ After(p),
         log' = log, status' = status, sealed => sealed',
         Before(p)' <=> Before(p), After(p)' <=> After(p), sealed',
         \A q \in Procs \ {p} : pc'[q] = pc[q] /\ then'[q] = then[q]
  PROVE  Ended'
<1>1. status \in Endings /\ p \in Enders
  BY DEF Ended, Enders
<1>2. EndsAt' = EndsAt /\ OneEnding'
  BY DEF EndsAt, OneEnding, Ended
<1>3. \A q \in Procs : (Before(q)' <=> Before(q)) /\ (After(q)' <=> After(q))
  BY DEF Before, After, Sending
<1>4. Enders' = Enders
  BY <1>3 DEF Enders
<1>. QED
  BY <1>1, <1>2, <1>3, <1>4 DEF Ended

LEMMA LogAppend ==
  ASSUME log \in Seq(Event), NEW e \in Event, log' = Append(log, e)
  PROVE  /\ Len(log) + 1 \in DOMAIN log' /\ log'[Len(log) + 1] = e
         /\ DOMAIN log' = DOMAIN log \cup {Len(log) + 1}
         /\ \A k \in DOMAIN log : log'[k] = log[k] /\ k < Len(log) + 1
         /\ EndsAt' = EndsAt \cup (IF e.type \in Endings THEN {Len(log) + 1} ELSE {})
<1>1. /\ Len(log') = Len(log) + 1 /\ Len(log) \in Nat
      /\ DOMAIN log = 1..Len(log) /\ DOMAIN log' = 1..(Len(log) + 1)
      /\ \A k \in 1..Len(log) : log'[k] = log[k]
      /\ log'[Len(log) + 1] = e
  OBVIOUS
<1>. QED
  BY <1>1 DEF EndsAt

LEMMA EndedSend ==
  ASSUME IInv, NEW p \in Procs, Send(p)
  PROVE  Ended'
<1>. DEFINE e == outbox[p]
<1>0. /\ TypeOK /\ Places /\ Outboxes /\ Ended
      /\ pc \in [Procs -> Places0] /\ then \in [Procs -> Nexts \cup {"idle"}]
      /\ log \in Seq(Event) /\ e \in Event
  BY DEF IInv, TypeOK, Places0, Nexts
<1>1. /\ pc[p] = "send" /\ pc' = [pc EXCEPT ![p] = then[p]] /\ then' = then
      /\ log' = Append(log, e) /\ status' = status /\ sealed' = sealed
  BY DEF Send, Goto, taskVars
<1>2. /\ Len(log) + 1 \in DOMAIN log' /\ log'[Len(log) + 1] = e
      /\ DOMAIN log' = DOMAIN log \cup {Len(log) + 1}
      /\ \A k \in DOMAIN log : log'[k] = log[k] /\ k < Len(log) + 1
      /\ EndsAt' = EndsAt \cup (IF e.type \in Endings THEN {Len(log) + 1} ELSE {})
  BY <1>0, <1>1, LogAppend
<1>3. /\ then[p] = "change" => e = Ev(status, status)
      /\ then[p] = "done" => e = Ev("status_changed", status)
      /\ then[p] \notin {"change", "done"} =>
           e.type \notin Endings /\ (e.type = "status_changed" => e.status \notin Endings)
  BY <1>0, <1>1 DEF Outboxes
<1>4. then[p] \in Nexts /\ pc'[p] = then[p] /\ then'[p] = then[p]
  BY <1>0, <1>1, ProcFacts DEF Places, Nexts
<1>5. \A q \in Procs : q # p => pc'[q] = pc[q] /\ then'[q] = then[q]
  BY <1>0, <1>1
<1>6. /\ \A q \in Procs \ {p} : Before(q)' <=> Before(q)
      /\ \A q \in Procs \ {p} : After(q)' <=> After(q)
      /\ \A q \in Procs \ {p} : Sending(q, "change")' <=> Sending(q, "change")
  BY <1>5 DEF Before, After, Sending
<1>e. EndsAt \subseteq DOMAIN log /\ EndsAt' \subseteq DOMAIN log'
  BY DEF EndsAt
<1>. HIDE DEF e
<1>7. CASE then[p] = "change"
  <2>1. Before(p) /\ ~After(p) /\ After(p)' /\ ~Before(p)' /\ pc'[p] = "change"
    BY <1>1, <1>4, <1>7 DEF Before, After, Sending
  <2>2. EndsAt = {} /\ sealed /\ status \in Endings /\ \A q \in Enders : q = p
    BY <1>0, <1>1, <1>7, <2>1 DEF Ended, Enders, Sending
  <2>3. e.type = status /\ e.status = status /\ status # "status_changed"
    <3>1. status \in EventTypes /\ status \in Statuses /\ "status_changed" \notin Endings
      BY <2>2, EventFacts
    <3>. QED
      BY <1>3, <1>7, <2>2, <3>1 DEF Ev
  <2>4. EndsAt' = {Len(log) + 1}
    BY <1>2, <2>2, <2>3
  <2>5. Enders' = Enders
    BY <1>6, <2>1 DEF Enders
  <2>6. OneEnding'
    <3>1. \A k \in DOMAIN log : ~(log[k].type = "status_changed" /\ log[k].status \in Endings)
      BY <1>0, <2>2 DEF Ended, OneEnding
    <3>2. \A k \in DOMAIN log' :
            ~(log'[k].type = "status_changed" /\ log'[k].status \in Endings)
      BY <1>2, <2>3, <3>1
    <3>3. \A k \in EndsAt' : log'[k] = Ev(status', status')
      BY <1>1, <1>2, <1>3, <1>7, <2>4
    <3>. QED
      BY <2>4, <3>2, <3>3 DEF OneEnding
  <2>7. \A q \in Procs : Before(q)' => q # p /\ q \in Enders
    BY <1>6, <2>1 DEF Enders
  <2>. QED
    BY <1>0, <1>1, <1>5, <1>6, <2>1, <2>2, <2>4, <2>5, <2>6, <2>7 DEF Ended
<1>8. CASE then[p] = "done"
  <2>1. After(p) /\ ~Before(p) /\ ~After(p)' /\ ~Before(p)' /\ pc'[p] = "done"
    BY <1>1, <1>4, <1>8 DEF Before, After, Sending
  <2>2. EndsAt # {} /\ sealed /\ status \in Endings
    BY <1>0, <2>1 DEF Ended
  <2>3. e.type = "status_changed" /\ e.status = status /\ "status_changed" \notin Endings
    <3>1. "status_changed" \notin Endings
      BY EventFacts
    <3>. QED
      BY <1>3, <1>8, <3>1 DEF Ev
  <2>4. EndsAt' = EndsAt
    BY <1>2, <2>3
  <2>5. Enders' \subseteq Enders
    BY <1>6, <2>1 DEF Enders
  <2>6. OneEnding'
    <3>1. /\ \A j, k \in EndsAt : j = k
          /\ \A k \in EndsAt : log[k] = Ev(status, status)
          /\ \A k \in DOMAIN log : log[k].type = "status_changed" /\ log[k].status \in Endings =>
               \E j \in EndsAt : j < k
      BY <1>0 DEF Ended, OneEnding
    <3>2. \A k \in DOMAIN log' :
            log'[k].type = "status_changed" /\ log'[k].status \in Endings =>
              \E j \in EndsAt : j < k
      BY <1>2, <1>e, <2>2, <3>1
    <3>3. \A k \in EndsAt' : log'[k] = Ev(status', status')
      BY <1>1, <1>2, <1>e, <2>4, <3>1
    <3>. QED
      BY <2>4, <3>1, <3>2, <3>3 DEF OneEnding
  <2>. QED
    BY <1>0, <1>1, <1>5, <1>6, <2>1, <2>2, <2>4, <2>5, <2>6 DEF Ended
<1>9. CASE then[p] \notin {"change", "done"}
  <2>1. ~Before(p) /\ ~After(p) /\ ~Before(p)' /\ ~After(p)' /\ pc'[p] \notin EndPlace
    BY <1>1, <1>4, <1>9 DEF Before, After, Sending, Nexts, EndPlace
  <2>2. EndsAt' = EndsAt
    BY <1>2, <1>3, <1>9
  <2>3. Enders' = Enders
    BY <1>6, <2>1 DEF Enders
  <2>4. OneEnding'
    <3>1. /\ \A j, k \in EndsAt : j = k
          /\ \A k \in EndsAt : log[k] = Ev(status, status)
          /\ \A k \in DOMAIN log : log[k].type = "status_changed" /\ log[k].status \in Endings =>
               \E j \in EndsAt : j < k
      BY <1>0 DEF Ended, OneEnding
    <3>2. \A k \in DOMAIN log' :
            log'[k].type = "status_changed" /\ log'[k].status \in Endings =>
              \E j \in EndsAt : j < k
      BY <1>2, <1>3, <1>9, <3>1
    <3>3. \A k \in EndsAt' : log'[k] = Ev(status', status')
      BY <1>1, <1>2, <1>e, <2>2, <3>1
    <3>. QED
      BY <2>2, <3>1, <3>2, <3>3 DEF OneEnding
  <2>5. ~Sending(p, "change")'
    BY <2>1 DEF Before
  <2>. QED
    BY <1>0, <1>1, <1>5, <1>6, <2>1, <2>2, <2>3, <2>4, <2>5 DEF Ended, EndPlace
<1>. QED
  BY <1>7, <1>8, <1>9

\* A step of one process that stands outside of the ending before and after it.
LEMMA EndedOutside ==
  ASSUME IInv, NEW p \in Procs, UNCHANGED <<log, sealed>>,
         status' = status \/ (status \notin Endings /\ status' \notin Endings),
         ~Before(p), ~After(p), ~Before(p)', ~After(p)',
         \A q \in Procs \ {p} : UNCHANGED <<pc[q], then[q]>>
  PROVE  Ended'
<1>1. /\ \A q \in Procs \ {p} : Before(q)' <=> Before(q)
      /\ \A q \in Procs \ {p} : After(q)' <=> After(q)
      /\ \A q \in Procs \ {p} : Sending(q, "change")' <=> Sending(q, "change")
  BY DEF Before, After, Sending
<1>2. pc'[p] \notin {"cancel", "end", "change"} /\ ~Sending(p, "change")'
  BY DEF Before, After
<1>3. /\ \A q \in Procs : Before(q)' <=> Before(q)
      /\ \A q \in Procs : After(q)' <=> After(q)
      /\ \A q \in Procs : pc'[q] \in {"cancel", "end", "change"} =>
                            pc[q] \in {"cancel", "end", "change"}
      /\ \A q \in Procs : Sending(q, "change")' => Sending(q, "change")
  BY <1>1, <1>2
<1>4. Ended
  BY DEF IInv
<1>. QED
  BY <1>3, <1>4, EndedQuiet

LEMMA EndedNext == IInv /\ [Next]_vars => Ended'
<1>. SUFFICES ASSUME IInv, [Next]_vars PROVE Ended'
  OBVIOUS
<1>0. /\ TypeOK /\ Places /\ Ended
      /\ pc \in [Procs -> Places0] /\ then \in [Procs -> Nexts \cup {"idle"}]
  BY DEF IInv, TypeOK, Places0, Nexts
<1>1. CASE \/ UNCHANGED vars \/ Receive
           \/ \E cause \in {"canceled", "deadline"} : ContextDone(cause)
  <2>1. UNCHANGED <<pc, then, status, sealed, log>>
    BY <1>1 DEF vars, Receive, ContextDone, taskVars, runVars, chanVars
  <2>. QED
    BY <1>0, <2>1, EndedQuiet DEF Before, After, Sending
\* The starting process and the runner, outside of the ending.
<1>2. ASSUME NEW p \in {Starter, Runner}, UNCHANGED <<log, sealed>>,
             status' = status \/ (status \notin Endings /\ status' \notin Endings),
             pc[p] \notin EndPlace \cup {"send"},
             pc'[p] \notin EndPlace,
             pc'[p] = "send" => then'[p] \notin {"change", "done"},
             \A q \in Procs \ {p} : pc'[q] = pc[q] /\ then'[q] = then[q]
      PROVE  Ended'
  <2>1. p \in Procs
    BY ProcFacts
  <2>2. ~Before(p) /\ ~After(p) /\ ~Before(p)' /\ ~After(p)'
    BY <1>2 DEF Before, After, Sending, EndPlace
  <2>. QED
    BY <1>2, <2>1, <2>2, EndedOutside
<1>3. CASE Register \/ TransitionRunning \/ Attach
  <2>1. /\ UNCHANGED <<log, sealed, then>>
        /\ pc[Starter] \in {"idle", "transition", "attach"}
        /\ pc' = [pc EXCEPT ![Starter] = pc'[Starter]]
        /\ pc'[Starter] \in {"started", "status", "failed", "spawn"}
        /\ status' = status \/ (status \in {"", "pending"} /\ status' \in {"pending", "running"})
    BY <1>0, <1>3, ProcFacts DEF Register, TransitionRunning, Attach, Goto, Places,
       taskVars, chanVars
  <2>2. status' = status \/ (status \notin Endings /\ status' \notin Endings)
    BY <2>1 DEF Endings
  <2>. QED
    BY <1>0, <1>2, <2>1, <2>2, ProcFacts DEF EndPlace
<1>4. CASE EmitStarted \/ EmitRunning
  <2>1. /\ UNCHANGED <<log, sealed, status>>
        /\ pc[Starter] \in {"started", "status"}
        /\ pc' = [pc EXCEPT ![Starter] = pc'[Starter]]
        /\ pc'[Starter] \in {"send", "transition", "attach"}
        /\ pc'[Starter] = "send" => then'[Starter] \in {"transition", "attach"}
        /\ then' = [then EXCEPT ![Starter] = then'[Starter]]
    BY <1>0, <1>4, ProcFacts DEF EmitStarted, EmitRunning, Publish, Goto, taskVars
  <2>. QED
    BY <1>0, <1>2, <2>1, ProcFacts DEF EndPlace
<1>5. CASE Spawn
  <2>1. /\ UNCHANGED <<log, sealed, status, then>> /\ pc[Starter] = "spawn"
        /\ pc' = [pc EXCEPT ![Starter] = "returned", ![Runner] = "run"]
    BY <1>5 DEF Spawn, taskVars, chanVars
  <2>2. pc[Runner] = "idle"
    BY <1>0, <2>1 DEF Places
  <2>3. /\ \A q \in Procs : Before(q)' <=> Before(q)
        /\ \A q \in Procs : After(q)' <=> After(q)
        /\ \A q \in Procs : pc'[q] \in {"cancel", "end", "change"} =>
                              pc[q] \in {"cancel", "end", "change"}
        /\ \A q \in Procs : Sending(q, "change")' => Sending(q, "change")
    BY <1>0, <2>1, <2>2, ProcFacts DEF Before, After, Sending
  <2>. QED
    BY <1>0, <2>1, <2>3, EndedQuiet
<1>6. CASE RunnerEmit \/ Decide \/ \E err \in {"nil", "canceled", "other"} : RunnerReturn(err)
  <2>1. /\ UNCHANGED <<log, sealed, status>>
        /\ pc[Runner] \in {"run", "result"}
        /\ pc' = [pc EXCEPT ![Runner] = pc'[Runner]]
        /\ pc'[Runner] \in {"send", "run", "result", "finish", "done"}
        /\ pc'[Runner] = "send" => then'[Runner] = "run"
        /\ then' = [then EXCEPT ![Runner] = then'[Runner]]
    BY <1>0, <1>6, ProcFacts
       DEF RunnerEmit, Decide, RunnerReturn, Publish, Goto, taskVars, chanVars
  <2>. QED
    BY <1>0, <1>2, <2>1, ProcFacts DEF EndPlace
<1>7. CASE RunnerEnds
  <2>1. CASE Terminal
    <3>1. /\ pc[Runner] = "finish" /\ pc' = [pc EXCEPT ![Runner] = "done"]
          /\ UNCHANGED <<log, sealed, status, then>>
      BY <1>7, <2>1 DEF RunnerEnds, Goto, chanVars
    <3>. QED
      BY <1>0, <1>2, <3>1, ProcFacts DEF EndPlace
  <2>2. CASE ~Terminal
    <3>1. /\ pc[Runner] = "finish" /\ pc' = [pc EXCEPT ![Runner] = "seal"]
          /\ status' = outcome /\ UNCHANGED <<log, sealed, then>>
      BY <1>7, <2>2 DEF RunnerEnds, Goto, chanVars
    <3>2. status \notin Endings /\ status' \in Endings
      BY <1>0, <2>2, <3>1 DEF Places, Terminal
    <3>. QED
      BY <1>0, <3>1, <3>2, EndedStarts, ProcFacts
  <2>. QED
    BY <2>1, <2>2
<1>8. ASSUME NEW s \in Stoppers, Stop(s) PROVE Ended'
  <2>1. /\ pc' = [pc EXCEPT ![s] = "seal"] /\ UNCHANGED <<log, sealed, then>>
        /\ status \notin Endings /\ status' \in Endings
    BY <1>8 DEF Stop, Goto, chanVars, Endings
  <2>. QED
    BY <1>0, <2>1, EndedStarts, ProcFacts
<1>9. ASSUME NEW s \in Stoppers, StopNothing(s) PROVE Ended'
  <2>1. /\ pc[s] = "idle" /\ pc' = [pc EXCEPT ![s] = "nothing"] /\ s \in Procs
        /\ UNCHANGED <<log, sealed, status, then>>
    BY <1>9, ProcFacts DEF StopNothing, Goto, taskVars, chanVars
  <2>2. ~Before(s) /\ ~After(s) /\ ~Before(s)' /\ ~After(s)'
    BY <1>0, <2>1 DEF Before, After, Sending
  <2>3. \A q \in Procs \ {s} : pc'[q] = pc[q] /\ then'[q] = then[q]
    BY <1>0, <2>1
  <2>. QED
    BY <2>1, <2>2, <2>3, EndedOutside
<1>10. ASSUME NEW p \in Procs, Seal(p) \/ CancelRun(p) \/ AnnounceEnd(p) PROVE Ended'
  <2>1. /\ UNCHANGED <<log, status>> /\ pc[p] \in {"seal", "cancel", "end"}
        /\ pc' = [pc EXCEPT ![p] = pc'[p]]
        /\ \/ pc'[p] \in {"cancel", "end"}
           \/ pc'[p] = "send" /\ then'[p] = "change"
        /\ then' = [then EXCEPT ![p] = then'[p]]
        /\ (sealed' = sealed /\ pc[p] # "seal") \/ sealed'
    BY <1>0, <1>10 DEF Seal, CancelRun, AnnounceEnd, Publish, Goto, taskVars, chanVars
  <2>2. (sealed => sealed') /\ sealed'
    BY <1>0, <2>1 DEF Ended
  <2>3. Before(p) /\ ~After(p) /\ Before(p)' /\ ~After(p)'
    BY <2>1 DEF Before, After, Sending
  <2>4. \A q \in Procs \ {p} : pc'[q] = pc[q] /\ then'[q] = then[q]
    BY <1>0, <2>1
  <2>. QED
    BY <1>0, <2>1, <2>2, <2>3, <2>4, EndedGoesOn
<1>11. ASSUME NEW p \in Procs, AnnounceChange(p) PROVE Ended'
  <2>1. /\ UNCHANGED <<log, status, sealed>> /\ pc[p] = "change"
        /\ pc' = [pc EXCEPT ![p] = "send"] /\ then' = [then EXCEPT ![p] = "done"]
    BY <1>11 DEF AnnounceChange, Publish, Goto, taskVars
  <2>2. sealed
    BY <1>0, <2>1 DEF Ended
  <2>3. ~Before(p) /\ After(p) /\ ~Before(p)' /\ After(p)'
    BY <1>0, <2>1 DEF Before, After, Sending
  <2>4. \A q \in Procs \ {p} : pc'[q] = pc[q] /\ then'[q] = then[q]
    BY <1>0, <2>1
  <2>. QED
    BY <1>0, <2>1, <2>2, <2>3, <2>4, EndedGoesOn
<1>12. ASSUME NEW p \in Procs, Send(p) PROVE Ended'
  BY <1>12, EndedSend
<1>. QED
  BY <1>1, <1>3, <1>4, <1>5, <1>6, <1>7, <1>8, <1>9, <1>10, <1>11, <1>12, ProcFacts
     DEF Next, StarterStep, RunnerStep, StopperStep, EndStep, Terminated

LEMMA InvAlways == Spec => []IInv
<1>1. IInv /\ [Next]_vars => IInv'
  BY TypeNext, PlacesNext, EndedNext, CountedNext DEF IInv
<1>. QED
  BY <1>1, InvInit, PTL DEF Spec

-----------------------------------------------------------------------------
(***************************************************************************)
(* Every variable keeps its type, and the event channel its bound.         *)
(***************************************************************************)
THEOREM TypeCorrect == Spec => []TypeOK
<1>1. IInv => TypeOK
  BY DEF IInv
<1>. QED
  BY <1>1, InvAlways, PTL

(***************************************************************************)
(* However Start, any number of Stops and the end of the runner race, one  *)
(* ending is published, and it is the one the task has.                    *)
(***************************************************************************)
THEOREM EndingUnique == Spec => []OneEnding
<1>1. IInv => OneEnding
  BY DEF IInv, Ended
<1>. QED
  BY <1>1, InvAlways, PTL

-----------------------------------------------------------------------------
(* The contract.                                                           *)

LEMMA ContractInit == Init => Contract!Init
<1>1. Init => EndsAt = {}
  <2>1. Init => log = <<>>
    BY DEF Init
  <2>2. log = <<>> => DOMAIN log = {}
    OBVIOUS
  <2>. QED
    BY <2>1, <2>2 DEF EndsAt
<1>. QED
  BY <1>1 DEF Init, Contract!Init

LEMMA ContractNext == IInv /\ [Next]_vars => [Contract!Next]_Contract!vars
<1>. SUFFICES ASSUME IInv, [Next]_vars PROVE [Contract!Next]_Contract!vars
  OBVIOUS
<1>0. TypeOK /\ Places /\ Outboxes /\ Ended
  BY DEF IInv
<1>1. ASSUME log' = log PROVE EndsAt' = EndsAt
  BY <1>1 DEF EndsAt
<1>2. ASSUME log' = log, UNCHANGED taskVars PROVE UNCHANGED Contract!vars
  BY <1>1, <1>2 DEF taskVars, Contract!vars
<1>3. status \notin Endings => EndsAt = {} /\ ~sealed
  BY <1>0 DEF Ended
<1>4. CASE Register
  <2>1. status = "" /\ status' = "pending" /\ log' = log /\ UNCHANGED <<sealed, progress>>
    BY <1>0, <1>4 DEF Register, Places, chanVars
  <2>2. EndsAt = {} /\ EndsAt' = {}
    BY <1>1, <1>3, <2>1 DEF Endings
  <2>3. Contract!Create
    BY <2>1, <2>2 DEF Contract!Create
  <2>. QED
    BY <2>3 DEF Contract!Next
<1>5. CASE TransitionRunning
  <2>1. /\ log' = log /\ UNCHANGED <<sealed, progress>>
        /\ (status = "pending" /\ status' = "running") \/ status' = status
    BY <1>5 DEF TransitionRunning, chanVars
  <2>2. CASE status = "pending" /\ status' = "running"
    <3>1. EndsAt = {} /\ EndsAt' = {}
      BY <1>1, <1>3, <2>1, <2>2 DEF Endings
    <3>2. Contract!Run
      BY <2>1, <2>2, <3>1 DEF Contract!Run
    <3>. QED
      BY <3>2 DEF Contract!Next
  <2>3. CASE status' = status
    BY <1>2, <2>1, <2>3 DEF taskVars
  <2>. QED
    BY <2>1, <2>2, <2>3
<1>6. CASE RunnerEmit
  <2>1. /\ log' = log /\ UNCHANGED <<status, sealed>>
        /\ progress' = IF sealed THEN progress ELSE progress + 1
        /\ pc[Runner] = "run"
    BY <1>6 DEF RunnerEmit, Publish
  <2>2. status # ""
    BY <1>0, <2>1 DEF Places
  <2>3. CASE sealed
    BY <1>2, <2>1, <2>3 DEF taskVars
  <2>4. CASE ~sealed
    <3>1. Contract!Report
      BY <1>1, <2>1, <2>2, <2>4 DEF Contract!Report
    <3>. QED
      BY <3>1 DEF Contract!Next
  <2>. QED
    BY <2>3, <2>4
\* A transition to a terminal status, which finds nothing announced yet.
<1>7. ASSUME log' = log, UNCHANGED <<sealed, progress>>, status \in {"pending", "running"},
             status' \in Endings, status = "pending" => status' = "stopped"
      PROVE  Contract!Next
  <2>1. EndsAt = {} /\ EndsAt' = {}
    BY <1>1, <1>3, <1>7 DEF Endings
  <2>2. PICK ending \in Contract!Endings : ending = status'
    BY <1>7 DEF Endings, Contract!Endings
  <2>3. Contract!End(ending)
    BY <1>7, <2>1, <2>2 DEF Contract!End
  <2>. QED
    BY <2>3 DEF Contract!Next
<1>8. CASE RunnerEnds
  <2>1. CASE Terminal
    BY <1>2, <1>8, <2>1 DEF RunnerEnds, taskVars, chanVars
  <2>2. CASE ~Terminal
    <3>1. /\ log' = log /\ UNCHANGED <<sealed, progress>> /\ status' = outcome
          /\ pc[Runner] = "finish"
      BY <1>8, <2>2 DEF RunnerEnds, chanVars
    <3>2. status = "running" /\ outcome \in Endings
      BY <1>0, <2>2, <3>1 DEF Places, Terminal, TypeOK, Statuses
    <3>. QED
      BY <1>7, <3>1, <3>2
  <2>. QED
    BY <2>1, <2>2
<1>9. ASSUME NEW s \in Stoppers, Stop(s) PROVE Contract!Next
  <2>1. /\ log' = log /\ UNCHANGED <<sealed, progress>>
        /\ status \in {"pending", "running"} /\ status' = "stopped" /\ "stopped" \in Endings
    BY <1>9 DEF Stop, chanVars, Endings
  <2>. QED
    BY <1>7, <2>1
<1>10. ASSUME NEW p \in Procs, Seal(p) PROVE Contract!Next
  <2>1. /\ log' = log /\ UNCHANGED <<status, progress>> /\ sealed' = TRUE /\ Before(p)
    BY <1>10 DEF Seal, chanVars, Before
  <2>2. status \in Endings
    BY <1>0, <2>1 DEF Ended, Enders
  <2>3. Contract!Seal
    BY <1>1, <2>1, <2>2 DEF Contract!Seal, Contract!Endings, Endings
  <2>. QED
    BY <2>3 DEF Contract!Next
<1>11. ASSUME NEW p \in Procs, Send(p) PROVE [Contract!Next]_Contract!vars
  <2>1. /\ UNCHANGED taskVars /\ log' = Append(log, outbox[p]) /\ pc[p] = "send"
        /\ log \in Seq(Event) /\ outbox[p] \in Event
    BY <1>0, <1>11 DEF Send, TypeOK
  <2>2. PICK e \in Event : e = outbox[p]
    BY <2>1
  <2>3. EndsAt' = EndsAt \cup (IF e.type \in Endings THEN {Len(log) + 1} ELSE {})
    BY <2>1, <2>2, LogAppend
  <2>4. CASE then[p] = "change"
    <3>1. Before(p) /\ Sending(p, "change")
      BY <2>1, <2>4 DEF Before, Sending
    <3>2. EndsAt = {} /\ sealed /\ status \in Endings
      BY <1>0, <3>1 DEF Ended, Enders
    <3>3. e = Ev(status, status)
      BY <1>0, <2>1, <2>2, <2>4 DEF Outboxes
    <3>4. e.type = status
      BY <3>3 DEF Ev
    <3>5. EndsAt' # {}
      BY <2>3, <3>2, <3>4
    <3>6. Contract!Announce
      BY <2>1, <3>2, <3>5 DEF Contract!Announce, taskVars
    <3>. QED
      BY <3>6 DEF Contract!Next
  <2>5. CASE then[p] # "change"
    <3>1. CASE then[p] = "done"
      <4>1. e.type = "status_changed"
        BY <1>0, <2>1, <2>2, <3>1 DEF Outboxes, Ev
      <4>2. EndsAt' = EndsAt
        BY <2>3, <4>1, EventFacts
      <4>. QED
        BY <2>1, <4>2 DEF taskVars, Contract!vars
    <3>2. CASE then[p] # "done"
      <4>1. e.type \notin Endings
        BY <1>0, <2>1, <2>2, <2>5, <3>2 DEF Outboxes
      <4>2. EndsAt' = EndsAt
        BY <2>3, <4>1
      <4>. QED
        BY <2>1, <4>2 DEF taskVars, Contract!vars
    <3>. QED
      BY <3>1, <3>2
  <2>. QED
    BY <2>4, <2>5
<1>12. ASSUME \/ EmitStarted \/ EmitRunning \/ Attach \/ Spawn \/ Decide \/ Receive
              \/ \E err \in {"nil", "canceled", "other"} : RunnerReturn(err)
              \/ \E cause \in {"canceled", "deadline"} : ContextDone(cause)
              \/ \E p \in Procs : StopNothing(p) \/ CancelRun(p) \/ AnnounceEnd(p)
                                  \/ AnnounceChange(p)
              \/ UNCHANGED vars
       PROVE  UNCHANGED Contract!vars
  <2>1. log' = log /\ UNCHANGED taskVars
    BY <1>12 DEF EmitStarted, EmitRunning, Attach, Spawn, Decide, Receive, RunnerReturn,
       ContextDone, StopNothing, CancelRun, AnnounceEnd, AnnounceChange, Publish,
       vars, chanVars
  <2>. QED
    BY <1>2, <2>1
<1>. QED
  BY <1>4, <1>5, <1>6, <1>8, <1>9, <1>10, <1>11, <1>12, ProcFacts
     DEF Next, StarterStep, RunnerStep, StopperStep, EndStep, Terminated

(***************************************************************************)
(* A task lives once and ends once: created, run, sealed, and its ending   *)
(* announced after the seal; its progress stands still from the seal on.   *)
(***************************************************************************)
THEOREM ContractImplemented == Spec => ImplementsTaskContract
BY InvAlways, ContractInit, ContractNext, PTL DEF Spec, ImplementsTaskContract, Contract!Spec

-----------------------------------------------------------------------------
(* Late events.  The seal stops every event that has not passed it yet, so *)
(* what can follow the ending is what somebody has in hand by then; and    *)
(* the starting process has nothing in hand any more once the runner runs. *)

Holding == {p \in Procs : pc[p] = "send" /\ outbox[p].status \notin Endings}

LateAt(e) == {k \in DOMAIN log : k > e /\ log[k].status \notin Endings}

Late ==
  \A e \in EndsAt : /\ \A k, l \in LateAt(e) : k = l
                    /\ LateAt(e) # {} => Holding = {}

LEMMA HoldingOne == IInv => \A p, q \in Holding : p = q
<1>. SUFFICES ASSUME IInv PROVE \A p, q \in Holding : p = q
  OBVIOUS
<1>1. ~(Starter \in Holding /\ Runner \in Holding)
  BY DEF Holding, IInv, Places
<1>2. ASSUME NEW p \in Holding, p \in Stoppers PROVE FALSE
  <2>1. p \in Procs /\ pc[p] = "send" /\ then[p] \in {"change", "done"} /\ outbox[p].status \notin Endings
    BY <1>2 DEF Holding, IInv, Places
  <2>2. p \in Enders
    BY <2>1 DEF Enders, Before, After, Sending
  <2>3. status \in Endings
    BY <2>2 DEF IInv, Ended
  <2>4. outbox[p] = Ev(status, status) \/ outbox[p] = Ev("status_changed", status)
    BY <2>1 DEF IInv, Outboxes
  <2>. QED
    BY <2>1, <2>3, <2>4 DEF Ev
<1>. QED
  BY <1>1, <1>2, ProcFacts DEF Holding

\* While nothing was sent, nobody came to hold a late event, or no ending is out.
LEMMA LateQuiet ==
  ASSUME Late, log' = log, EndsAt = {} \/ Holding' \subseteq Holding
  PROVE  Late'
<1>1. EndsAt' = EndsAt /\ \A e \in EndsAt : LateAt(e)' = LateAt(e)
  BY DEF EndsAt, LateAt
<1>. QED
  BY <1>1 DEF Late

LEMMA LateSend ==
  ASSUME IInv, Late, NEW p \in Procs, Send(p)
  PROVE  Late'
<1>. DEFINE e == outbox[p]
<1>0. /\ TypeOK /\ Places /\ Outboxes /\ Ended
      /\ log \in Seq(Event) /\ e \in Event
      /\ pc \in [Procs -> Places0]
  BY DEF IInv, TypeOK, Places0
<1>1. /\ pc[p] = "send" /\ pc' = [pc EXCEPT ![p] = then[p]]
      /\ outbox' = [outbox EXCEPT ![p] = NoEvent] /\ then[p] # "send"
      /\ log' = Append(log, e)
  BY <1>0, ProcFacts DEF Send, Goto, Places
<1>2. /\ DOMAIN log' = DOMAIN log \cup {Len(log) + 1} /\ log'[Len(log) + 1] = e
      /\ \A k \in DOMAIN log : log'[k] = log[k] /\ k < Len(log) + 1
      /\ EndsAt' = EndsAt \cup (IF e.type \in Endings THEN {Len(log) + 1} ELSE {})
  BY <1>0, <1>1, LogAppend
<1>3. Holding' \subseteq Holding \ {p}
  BY <1>0, <1>1 DEF Holding, TypeOK
<1>4. EndsAt \subseteq DOMAIN log
  BY DEF EndsAt
<1>. HIDE DEF e
<1>5. CASE then[p] = "change"
  <2>1. EndsAt = {}
    BY <1>0, <1>1, <1>5 DEF Ended, Before, Sending
  <2>2. \A f \in EndsAt' : LateAt(f)' = {}
    BY <1>2, <2>1 DEF LateAt
  <2>. QED
    BY <2>2 DEF Late
<1>6. CASE then[p] # "change"
  <2>1. e.type \notin Endings
    <3>1. CASE then[p] = "done"
      <4>1. e = Ev("status_changed", status)
        BY <1>0, <1>1, <3>1 DEF Outboxes, e
      <4>. QED
        BY <4>1, EventFacts DEF Ev
    <3>2. CASE then[p] # "done"
      BY <1>0, <1>1, <1>6, <3>2 DEF Outboxes, e
    <3>. QED
      BY <3>1, <3>2
  <2>2. EndsAt' = EndsAt
    BY <1>2, <2>1
  <2>3. CASE e.status \in Endings
    <3>1. \A f \in EndsAt : LateAt(f)' = LateAt(f)
      BY <1>2, <2>3 DEF LateAt
    <3>. QED
      BY <1>3, <2>2, <3>1 DEF Late
  <2>4. CASE e.status \notin Endings
    <3>1. p \in Holding
      BY <1>1, <2>4 DEF Holding, e
    <3>2. Holding' = {}
      BY <1>3, <3>1, HoldingOne
    <3>3. \A f \in EndsAt : LateAt(f) = {}
      BY <3>1 DEF Late
    <3>4. \A f \in EndsAt : LateAt(f)' \subseteq {Len(log) + 1}
      BY <1>2, <3>3 DEF LateAt
    <3>. QED
      BY <2>2, <3>2, <3>4 DEF Late
  <2>. QED
    BY <2>3, <2>4
<1>. QED
  BY <1>5, <1>6

LEMMA LateNext == IInv /\ Late /\ [Next]_vars => Late'
<1>. SUFFICES ASSUME IInv, Late, [Next]_vars PROVE Late'
  OBVIOUS
<1>0. /\ TypeOK /\ Places /\ Ended
      /\ pc \in [Procs -> Places0] /\ outbox \in [Procs -> Event]
  BY DEF IInv, TypeOK, Places0
\* A process that goes elsewhere, and not to a send.
<1>1. ASSUME log' = log, outbox' = outbox,
             \A p \in Procs : pc'[p] = "send" => pc[p] = "send"
      PROVE  Late'
  <2>1. Holding' \subseteq Holding
    BY <1>1 DEF Holding
  <2>. QED
    BY <1>1, <2>1, LateQuiet
\* An event that is not forced: dropped after the seal, and before it there is no ending.
<1>2. ASSUME NEW p \in Procs, NEW event \in Event, NEW next \in Nexts,
             Publish(p, event, FALSE, next)
      PROVE  Late'
  <2>1. log' = log
    BY <1>2 DEF Publish
  <2>2. CASE sealed
    <3>1. Holding' \subseteq Holding
      BY <1>0, <1>2, <2>2 DEF Publish, Goto, Holding, Nexts
    <3>. QED
      BY <2>1, <3>1, LateQuiet
  <2>3. CASE ~sealed
    <3>1. EndsAt = {}
      BY <1>0, <2>3 DEF Ended
    <3>. QED
      BY <2>1, <3>1, LateQuiet
  <2>. QED
    BY <2>2, <2>3
<1>3. CASE EmitStarted \/ EmitRunning \/ RunnerEmit
  <2>1. \E p \in Procs, event \in Event, next \in Nexts : Publish(p, event, FALSE, next)
    <3>1. /\ Ev("started", status) \in Event /\ Ev("status_changed", "running") \in Event
          /\ Ev("progress", "") \in Event
      BY <1>0, EventFacts DEF TypeOK, EventTypes, Statuses
    <3>. QED
      BY <1>3, <3>1, ProcFacts DEF EmitStarted, EmitRunning, RunnerEmit, Nexts
  <2>. QED
    BY <1>2, <2>1
<1>4. ASSUME NEW p \in Procs, AnnounceEnd(p) \/ AnnounceChange(p) PROVE Late'
  <2>1. status \in Endings /\ status \in EventTypes /\ status \in Statuses
    BY <1>0, <1>4, EventFacts DEF AnnounceEnd, AnnounceChange, Ended, Enders, Before, After
  <2>2. PICK event \in Event : /\ outbox' = [outbox EXCEPT ![p] = event] /\ log' = log
                               /\ event.status \in Endings
                               /\ pc' = [pc EXCEPT ![p] = "send"]
    <3>1. /\ Ev(status, status) \in Event /\ Ev("status_changed", status) \in Event
          /\ Ev(status, status).status = status /\ Ev("status_changed", status).status = status
      BY <2>1, EventFacts DEF EventTypes
    <3>. QED
      BY <1>4, <2>1, <3>1 DEF AnnounceEnd, AnnounceChange, Publish, Goto
  <2>3. Holding' \subseteq Holding
    BY <1>0, <2>2 DEF Holding
  <2>. QED
    BY <2>2, <2>3, LateQuiet
<1>5. CASE \/ Register \/ TransitionRunning \/ Attach \/ Spawn \/ Decide \/ RunnerEnds
           \/ \E err \in {"nil", "canceled", "other"} : RunnerReturn(err)
  <2>1. log' = log /\ outbox' = outbox
    BY <1>5 DEF Register, TransitionRunning, Attach, Spawn, Decide, RunnerEnds, RunnerReturn,
       chanVars
  <2>2. \A p \in Procs : pc'[p] = "send" => pc[p] = "send"
    BY <1>0, <1>5, ProcFacts DEF Register, TransitionRunning, Attach, Spawn, Decide,
       RunnerEnds, RunnerReturn, Goto
  <2>. QED
    BY <1>1, <2>1, <2>2
<1>6. ASSUME NEW p \in Procs, Stop(p) \/ StopNothing(p) \/ Seal(p) \/ CancelRun(p) PROVE Late'
  <2>1. log' = log /\ outbox' = outbox
    BY <1>6 DEF Stop, StopNothing, Seal, CancelRun, chanVars
  <2>2. \A q \in Procs : pc'[q] = "send" => pc[q] = "send"
    BY <1>0, <1>6 DEF Stop, StopNothing, Seal, CancelRun, Goto
  <2>. QED
    BY <1>1, <2>1, <2>2
<1>7. CASE \/ UNCHANGED vars \/ Receive
           \/ \E cause \in {"canceled", "deadline"} : ContextDone(cause)
  BY <1>1, <1>7 DEF vars, Receive, ContextDone, chanVars
<1>8. ASSUME NEW p \in Procs, Send(p) PROVE Late'
  BY <1>8, LateSend
<1>. QED
  BY <1>3, <1>4, <1>5, <1>6, <1>7, <1>8, ProcFacts
     DEF Next, StarterStep, RunnerStep, StopperStep, EndStep, Terminated

(***************************************************************************)
(* However many Stops race with Start and with the runner, at most one     *)
(* event that is not about the ending follows it (runtime_impl.go, the     *)
(* check of the seal in emitWithMode).                                     *)
(***************************************************************************)
THEOREM LateEventsBounded == Spec => []OneLateEvent
<1>1. Init => Late
  <2>. SUFFICES ASSUME Init PROVE EndsAt = {}
    BY DEF Late
  <2>1. log = <<>>
    BY DEF Init
  <2>2. DOMAIN log = {}
    BY <2>1
  <2>. QED
    BY <2>2 DEF EndsAt
<1>2. IInv /\ Late /\ [Next]_vars => Late'
  BY LateNext
<1>3. Late => OneLateEvent
  <2>. SUFFICES ASSUME Late, NEW e \in EndsAt PROVE Cardinality(LateAt(e)) <= 1
    BY DEF OneLateEvent, LateAt
  <2>1. CASE LateAt(e) = {}
    BY <2>1, FS_EmptySet
  <2>2. CASE LateAt(e) # {}
    <3>1. PICK k \in LateAt(e) : LateAt(e) = {k}
      BY <2>2 DEF Late
    <3>2. Cardinality({k}) = 1
      BY FS_Singleton
    <3>. QED
      BY <3>1, <3>2
  <2>. QED
    BY <2>1, <2>2
<1>. QED
  BY <1>1, <1>2, <1>3, InvAlways, PTL DEF Spec

-----------------------------------------------------------------------------
(* Cancellation.  Once the runner is bound to end as stopped, whatever it  *)
(* returns, it stays so.                                                   *)

Undecided == pc[Runner] \in {"run", "result"} \/ Sending(Runner, "run")

\* Only the runner completes or fails a task, and it is past its decision then.
RunnerOwns ==
  status \in {"completed", "failed"} => ~Undecided /\ pc[Runner] \notin {"idle", "finish"}

Bound ==
  /\ status \notin {"completed", "failed"}
  /\ \/ runCtx = "canceled" /\ Undecided
     \/ pc[Runner] = "finish" /\ outcome = "stopped"
     \/ status = "stopped"

\* Every step seen from the runner: where it goes, and what becomes of its task.
RunnerMoves ==
  \/ UNCHANGED <<pc[Runner], then[Runner], outcome, status>>
  \/ /\ UNCHANGED <<pc[Runner], then[Runner], outcome>>
     /\ \/ status = "" /\ status' = "pending"
        \/ status = "pending" /\ status' = "running"
        \/ status \in {"pending", "running"} /\ status' = "stopped"
  \/ /\ pc[Runner] = "idle" /\ pc'[Runner] = "run" /\ status' = status
  \/ /\ pc[Runner] = "run" /\ UNCHANGED status
     /\ pc'[Runner] \in {"run", "result"} \/ Sending(Runner, "run")'
  \/ /\ pc[Runner] = "result" /\ UNCHANGED status
     /\ outcome' = Outcome /\ pc'[Runner] = IF Terminal THEN "done" ELSE "finish"
  \/ /\ pc[Runner] = "finish" /\ status' = IF Terminal THEN status ELSE outcome
     /\ pc'[Runner] \in {"seal", "done"}
  \/ /\ pc[Runner] \in {"seal", "end", "change"} /\ UNCHANGED status
     /\ pc'[Runner] = "end" \/ Sending(Runner, "change")' \/ Sending(Runner, "done")'
  \/ /\ pc[Runner] = "send" /\ UNCHANGED <<then[Runner], status>>
     /\ pc'[Runner] = then[Runner]

LEMMA RunnerSteps == IInv /\ [Next]_vars => RunnerMoves
<1>. SUFFICES ASSUME IInv, [Next]_vars PROVE RunnerMoves
  OBVIOUS
<1>0. /\ TypeOK /\ Places
      /\ pc \in [Procs -> Places0] /\ then \in [Procs -> Nexts \cup {"idle"}]
  BY DEF IInv, TypeOK, Places0, Nexts
<1>1. CASE Register \/ TransitionRunning
  BY <1>0, <1>1, ProcFacts DEF Register, TransitionRunning, Goto, Places, runVars, RunnerMoves
<1>2. CASE EmitStarted \/ EmitRunning \/ Attach
  BY <1>0, <1>2, ProcFacts DEF EmitStarted, EmitRunning, Attach, Publish, Goto, runVars,
     taskVars, RunnerMoves
<1>3. CASE Spawn
  BY <1>0, <1>3, ProcFacts DEF Spawn, Places, taskVars, RunnerMoves
<1>4. CASE RunnerEmit \/ \E err \in {"nil", "canceled", "other"} : RunnerReturn(err)
  BY <1>0, <1>4, ProcFacts DEF RunnerEmit, RunnerReturn, Publish, Goto, taskVars, Sending,
     RunnerMoves
<1>5. CASE Decide \/ RunnerEnds
  BY <1>0, <1>5, ProcFacts DEF Decide, RunnerEnds, Goto, taskVars, runVars, RunnerMoves
<1>6. ASSUME NEW p \in Procs, Seal(p) \/ AnnounceEnd(p) \/ AnnounceChange(p) \/ Send(p)
      PROVE  RunnerMoves
  <2>1. CASE p = Runner
    BY <1>0, <1>6, <2>1, ProcFacts DEF Seal, AnnounceEnd, AnnounceChange, Send, Publish, Goto,
       taskVars, Sending, RunnerMoves
  <2>2. CASE p # Runner
    BY <1>0, <1>6, <2>2, ProcFacts DEF Seal, AnnounceEnd, AnnounceChange, Send, Publish, Goto,
       taskVars, runVars, RunnerMoves
  <2>. QED
    BY <2>1, <2>2
<1>7. ASSUME NEW s \in Stoppers, Stop(s) \/ StopNothing(s) \/ CancelRun(s) PROVE RunnerMoves
  BY <1>0, <1>7, ProcFacts DEF Stop, StopNothing, CancelRun, Goto, taskVars, runVars,
     RunnerMoves
<1>8. CASE \/ UNCHANGED vars \/ Receive
           \/ \E cause \in {"canceled", "deadline"} : ContextDone(cause)
  BY <1>8 DEF vars, Receive, ContextDone, taskVars, runVars, RunnerMoves
<1>. QED
  BY <1>1, <1>2, <1>3, <1>4, <1>5, <1>6, <1>7, <1>8, ProcFacts
     DEF Next, StarterStep, RunnerStep, StopperStep, EndStep, Terminated

\* A context that was cancelled stays so: the runner's is attached before it runs.
LEMMA StaysCanceled ==
  IInv /\ [Next]_vars /\ runCtx = "canceled" /\ pc[Runner] # "idle" => runCtx' = "canceled"
<1>. SUFFICES ASSUME IInv, [Next]_vars, runCtx = "canceled", pc[Runner] # "idle"
              PROVE  runCtx' = "canceled"
  OBVIOUS
<1>1. ~Attach
  BY DEF Attach, IInv, Places
<1>. QED
  BY <1>1 DEF Next, StarterStep, RunnerStep, StopperStep, EndStep, Terminated, Register,
     EmitStarted, TransitionRunning, EmitRunning, Spawn, Send, RunnerEmit, RunnerReturn,
     Decide, RunnerEnds, Stop, StopNothing, CancelRun, Seal, AnnounceEnd, AnnounceChange,
     ContextDone, Receive, vars, ctxVars

(***************************************************************************)
(* A task whose context is cancelled while its runner runs never completes *)
(* and never fails, whatever the runner returns and whenever Stops come in *)
(* (runtime_impl.go:249-262).                                              *)
(***************************************************************************)
THEOREM CancellationWins == Spec => CancelledNeverCompletes
<1>1. Init => RunnerOwns
  BY DEF Init, RunnerOwns
<1>2. IInv /\ RunnerOwns /\ [Next]_vars => RunnerOwns'
  <2>. SUFFICES ASSUME IInv, RunnerOwns, [Next]_vars PROVE RunnerOwns'
    OBVIOUS
  <2>1. RunnerMoves /\ Places
    BY RunnerSteps DEF IInv
  <2>. QED
    BY <2>1 DEF RunnerMoves, RunnerOwns, Undecided, Sending, Terminal, Endings, Places
<1>3. RunnerOwns /\ pc[Runner] = "run" /\ runCtx = "canceled" => Bound
  BY DEF RunnerOwns, Bound, Undecided
<1>4. IInv /\ Bound /\ [Next]_vars => Bound'
  <2>. SUFFICES ASSUME IInv, Bound, [Next]_vars PROVE Bound'
    OBVIOUS
  <2>1. RunnerMoves /\ Places
    BY RunnerSteps DEF IInv
  <2>2. runCtx = "canceled" /\ Undecided => runCtx' = "canceled"
    BY StaysCanceled DEF Undecided, Sending
  <2>. QED
    BY <2>1, <2>2
       DEF RunnerMoves, Bound, Undecided, Sending, Terminal, Endings, Places, Outcome
<1>5. Bound => status \notin {"completed", "failed"}
  BY DEF Bound
<1>6. Spec => []RunnerOwns
  BY <1>1, <1>2, InvAlways, PTL DEF Spec
<1>. QED
  BY <1>3, <1>4, <1>5, <1>6, InvAlways, PTL DEF Spec, CancelledNeverCompletes
=============================================================================
