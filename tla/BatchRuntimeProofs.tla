------------------------- MODULE BatchRuntimeProofs -------------------------
(***************************************************************************)
(* Proofs about BatchRuntime: types, the plan, the failure cascade, the    *)
(* exclusion of unsafe calls, the contract, the report and the events, for *)
(* any number of calls and any tools.                                      *)
(*                                                                         *)
(* The cascade is not inductive: it needs to know where the run stands.    *)
(* PlanInv says what the planning loop has built so far, RunInv relates    *)
(* the program counter, the current batch and the result channel to the    *)
(* items.  FailureInv and OutcomeInv add why the run is being wound up,    *)
(* EventsInv relates the events sent to the items and the batches.         *)
(***************************************************************************)
EXTENDS BatchRuntime, FiniteSetTheorems, TLAPS

Idx(b) == plan[b].indexes

\* Batches in the order of the calls, each of the shape its mode promises.
WellFormed(p) ==
  /\ \A b, c \in DOMAIN p : b < c =>
       \A i \in p[b].indexes, j \in p[c].indexes : i < j
  /\ \A b \in DOMAIN p : p[b].mode = "serial" => \A i, j \in p[b].indexes : i = j
  /\ \A b \in DOMAIN p :
       p[b].mode = "concurrent" => p[b].indexes \subseteq safe /\ ~serialFallback

Covers(p, i) == \E b \in DOMAIN p : i \in p[b].indexes

PlanInv ==
  /\ WellFormed(plan)
  /\ \A i \in Calls : Covers(plan, i) => i <= planned
  /\ \A i \in current : /\ i <= planned /\ i \in safe /\ ~serialFallback
                        /\ \A j \in Calls : Covers(plan, j) => j < i
  /\ \A i \in 1..planned : i \in current \/ Covers(plan, i)
  /\ Planned => current = {} /\ planned = NumCalls
  /\ ~Planned => /\ items = [i \in Calls |-> "none"]
                 /\ results = <<>> /\ failure = "none" /\ batch = 1

\* States a call may be in where the run stands, batch by batch.
Untouched == {"none", "discarded"}

RunInv ==
  Planned =>
    /\ pc # "head" => pc = "done" \/ batch \in DOMAIN plan
    /\ \A b \in DOMAIN plan : b < batch => \A i \in Idx(b) : items[i] = "succeeded"
    /\ \A b \in DOMAIN plan : b > batch => \A i \in Idx(b) : items[i] \in Untouched
    /\ pc \notin {"discard", "done"} =>
         \A b \in DOMAIN plan : b > batch => \A i \in Idx(b) : items[i] = "none"
    /\ pc \in {"head", "serial", "concurrent"} =>
         /\ failure = "none"
         /\ \A b \in DOMAIN plan : b >= batch => \A i \in Idx(b) : items[i] = "none"
    /\ pc \in {"serial", "serial_run"} => plan[batch].mode = "serial"
    /\ pc \in {"concurrent", "collect"} => plan[batch].mode = "concurrent"
    /\ pc = "serial_run" => /\ failure = "none"
                            /\ \A i \in Idx(batch) : items[i] = "running"
    /\ pc = "collect" =>
         /\ \A i \in Idx(batch) : items[i] \notin Untouched
         /\ failure = "none" =>
              \A i \in Idx(batch) : items[i] \in {"running", "returned", "succeeded"}
    /\ pc = "batch_end" => failure = "none" /\ \A i \in Idx(batch) : items[i] = "succeeded"
    /\ pc \notin {"serial_run", "collect"} => \A i \in Calls : ~InFlight(i)
    /\ pc # "collect" => results = <<>>
    /\ pc # "collect" => \A i \in Calls : items[i] # "returned"

ChannelInv ==
  /\ \A i \in Calls : items[i] = "returned" =>
       \E k \in DOMAIN results : results[k].index = i
  /\ \A k \in DOMAIN results : /\ items[results[k].index] = "returned"
                               /\ results[k].index \in Idx(batch)
  /\ \A k, l \in DOMAIN results : results[k].index = results[l].index => k = l

IInv == TypeOK /\ PlanInv /\ RunInv /\ ChannelInv
-----------------------------------------------------------------------------
(* Types.                                                                  *)

EventTypes ==
  /\ sent \in Seq(EventRecord)
  /\ read \in 0..Len(sent)
  /\ Len(sent) - read <= EventCap

\* A send leaves the event channel well typed and within its bound.
LEMMA EmitTypes ==
  ASSUME TypeOK, NEW e \in EventRecord, Emit(e), UNCHANGED plan
  PROVE  EventTypes'
<1>1. Len(plan) \in Nat /\ NumCalls \in Nat /\ EventCap' = EventCap
  BY NumCallsAssumption DEF TypeOK, EventCap
<1>2. CASE ~streaming
  BY <1>1, <1>2 DEF TypeOK, Emit, EventTypes, EventCap, eventVars
<1>3. CASE streaming
  <2>1. /\ sent' = Append(sent, e) /\ read' = read
        /\ Len(sent) - read < EventCap
    BY <1>3 DEF Emit
  <2>2. sent \in Seq(EventRecord) /\ read \in 0..Len(sent)
    BY DEF TypeOK
  <2>3. sent' \in Seq(EventRecord) /\ Len(sent') = Len(sent) + 1
    BY <2>1, <2>2
  <2>. QED
    BY <1>1, <2>1, <2>2, <2>3 DEF EventTypes, EventCap
<1>. QED
  BY <1>2, <1>3 DEF TypeOK

LEMMA StatusTypes ==
  ASSUME NEW o \in ToolOutcomes
  PROVE  ResultStatus(o) \in Statuses /\ o.err \in BOOLEAN
BY OutcomesAssumption DEF ResultStatus, Outcome, Statuses

\* The batch the planning loop closes is a batch.
LEMMA FlushTypes ==
  ASSUME TypeOK
  PROVE  /\ FlushCurrent \in Seq(Batch)
         /\ Len(FlushCurrent) \in Nat
         /\ Len(FlushCurrent) >= Len(plan)
<1>1. [mode |-> "concurrent", indexes |-> current] \in Batch
  BY DEF TypeOK, Batch
<1>2. plan \in Seq(Batch)
  BY DEF TypeOK
<1>. QED
  BY <1>1, <1>2 DEF FlushCurrent

LEMMA TypeInit == Init => TypeOK
<1>. SUFFICES ASSUME Init PROVE TypeOK
  OBVIOUS
<1>1. EventCap \in Nat
  BY NumCallsAssumption DEF Init, EventCap
<1>2. plan = <<>> /\ results = <<>> /\ sent = <<>> /\ read = 0 /\ planned = 0
  BY DEF Init
<1>3. /\ plan \in Seq(Batch) /\ results \in Seq(Completion)
      /\ sent \in Seq(EventRecord) /\ Len(sent) = 0
  BY <1>2
<1>4. items \in [Calls -> ItemStates]
  BY DEF Init, ItemStates
<1>5. read \in 0..Len(sent) /\ Len(sent) - read <= EventCap /\ planned \in 0..NumCalls
  BY <1>1, <1>2, <1>3, NumCallsAssumption
<1>6. /\ safe \in SUBSET Calls /\ waiting \in SUBSET Calls
      /\ serialFallback \in BOOLEAN /\ streaming \in BOOLEAN
      /\ ctxDone \in BOOLEAN /\ batchDone \in BOOLEAN
      /\ current \in SUBSET Calls /\ itemErr \in SUBSET Calls
  BY DEF Init
<1>7. batch \in Nat \ {0} /\ pc = "begin" /\ failure = "none"
  BY DEF Init
<1>. QED
  BY <1>3, <1>4, <1>5, <1>6, <1>7 DEF TypeOK

LEMMA TypeNext == TypeOK /\ [Next]_vars => TypeOK'
<1>. SUFFICES ASSUME TypeOK, [Next]_vars PROVE TypeOK'
  OBVIOUS
<1>. USE NumCallsAssumption
<1>cap. ASSUME UNCHANGED <<plan, eventVars>> PROVE EventTypes'
  BY <1>cap DEF TypeOK, EventTypes, EventCap, eventVars
<1>1. CASE Begin
  BY <1>1, <1>cap DEF Begin, TypeOK, EventTypes, params, planVars, itemVars
<1>2. CASE PlanCall
  <2>1. planned' \in 0..NumCalls
    BY <1>2 DEF PlanCall, TypeOK
  <2>2. [mode |-> "serial", indexes |-> {planned + 1}] \in Batch
    BY <1>2 DEF PlanCall, TypeOK, Batch, Calls
  <2>3. plan' \in Seq(Batch) /\ Len(plan') >= Len(plan) /\ Len(plan') \in Nat
    <3>1. CASE plan' = plan
      BY <3>1 DEF TypeOK
    <3>2. CASE plan' = Append(FlushCurrent, [mode |-> "serial", indexes |-> {planned + 1}])
      BY <2>2, <3>2, FlushTypes DEF TypeOK
    <3>. QED
      BY <1>2, <3>1, <3>2 DEF PlanCall
  <2>4. current' \in SUBSET Calls
    BY <1>2, <2>1 DEF PlanCall, TypeOK, Calls
  <2>5. EventTypes'
    BY <1>2, <2>3 DEF PlanCall, TypeOK, EventTypes, EventCap, eventVars
  <2>. QED
    BY <1>2, <2>1, <2>3, <2>4, <2>5
       DEF PlanCall, TypeOK, EventTypes, params, itemVars
<1>3. CASE PlanDone
  <2>3. plan' \in Seq(Batch) /\ Len(plan') >= Len(plan) /\ Len(plan') \in Nat
    BY <1>3, FlushTypes DEF PlanDone, TypeOK
  <2>5. EventTypes'
    BY <1>3, <2>3 DEF PlanDone, TypeOK, EventTypes, EventCap, eventVars
  <2>. QED
    BY <1>3, <2>3, <2>5 DEF PlanDone, TypeOK, EventTypes, params, itemVars
<1>4. CASE StartBatch
  <2>0. plan \in Seq(Batch) /\ batch \in 1..Len(plan)
    BY <1>4 DEF StartBatch, TypeOK
  <2>a. plan[batch] \in Batch
    BY <2>0
  <2>1. plan[batch].mode \in {"serial", "concurrent"}
    BY <2>a DEF Batch
  <2>2. Event("batch_started", batch, 0) \in EventRecord
    BY DEF TypeOK, Event, EventRecord, EventKinds
  <2>3. EventTypes'
    BY <1>4, <2>2, EmitTypes DEF StartBatch, planVars
  <2>. QED
    BY <1>4, <2>1, <2>3 DEF StartBatch, TypeOK, EventTypes, params, planVars, itemVars
<1>5. CASE StopOnContext
  BY <1>5, <1>cap DEF StopOnContext, TypeOK, EventTypes, params, planVars, itemVars
<1>6. CASE StartSerial
  BY <1>6, <1>cap DEF StartSerial, TypeOK, EventTypes, params, planVars, ItemStates
<1>7. CASE SpawnConcurrent
  BY <1>7, <1>cap DEF SpawnConcurrent, TypeOK, EventTypes, params, planVars, ItemStates
<1>8. CASE Collect
  <2>. DEFINE done == Head(results)
  <2>0. results \in Seq(Completion) /\ results # <<>>
    BY <1>8 DEF Collect, TypeOK
  <2>1. done \in Completion
    BY <2>0
  <2>2. Tail(results) \in Seq(Completion)
    BY <2>0
  <2>3. Event("item_completed", batch, done.index) \in EventRecord
    BY <2>1 DEF TypeOK, Event, EventRecord, EventKinds, Calls, Completion
  <2>4. Emit(Event("item_completed", batch, done.index))
    BY <1>8 DEF Collect, Record
  <2>5. EventTypes'
    BY <1>8, <2>3, <2>4, EmitTypes DEF Collect, planVars
  <2>6. items' \in [Calls -> ItemStates] /\ itemErr' \in SUBSET Calls
    BY <1>8, <2>1 DEF Collect, Record, TypeOK, ItemStates, Completion
  <2>. QED
    BY <1>8, <2>2, <2>5, <2>6 DEF Collect, TypeOK, EventTypes, params, planVars
<1>9. CASE CollectEnd
  BY <1>9, <1>cap DEF CollectEnd, TypeOK, EventTypes, params, planVars
<1>10. CASE BatchEnd
  <2>2. Event("batch_completed", batch, 0) \in EventRecord
    BY DEF TypeOK, Event, EventRecord, EventKinds
  <2>3. EventTypes'
    BY <1>10, <2>2, EmitTypes DEF BatchEnd, planVars
  <2>. QED
    BY <1>10, <2>3 DEF BatchEnd, TypeOK, EventTypes, params, planVars, itemVars
<1>11. ASSUME NEW i \in Calls, DiscardNext(i) PROVE TypeOK'
  <2>2. Event("item_discarded", 0, i) \in EventRecord
    BY DEF TypeOK, Event, EventRecord, EventKinds, Calls
  <2>3. EventTypes'
    BY <1>11, <2>2, EmitTypes DEF DiscardNext, planVars
  <2>. QED
    BY <1>11, <2>3 DEF DiscardNext, TypeOK, EventTypes, params, planVars, ItemStates
<1>12. CASE Finish
  <2>2. Event("completed", 0, 0) \in EventRecord
    BY DEF TypeOK, Event, EventRecord, EventKinds
  <2>3. EventTypes'
    BY <1>12, <2>2, EmitTypes DEF Finish, planVars
  <2>. QED
    BY <1>12, <2>3 DEF Finish, TypeOK, EventTypes, params, planVars, itemVars
<1>13. ASSUME NEW i \in Calls, NEW o \in ToolOutcomes, SerialReturn(i, o) PROVE TypeOK'
  <2>1. ResultStatus(o) \in Statuses /\ o.err \in BOOLEAN
    BY StatusTypes
  <2>2. Event("item_completed", batch, i) \in EventRecord
    BY DEF TypeOK, Event, EventRecord, EventKinds, Calls
  <2>3. EventTypes'
    BY <1>13, <2>2, EmitTypes DEF SerialReturn, Record, planVars
  <2>4. items' \in [Calls -> ItemStates] /\ itemErr' \in SUBSET Calls
    BY <1>13, <2>1 DEF SerialReturn, Record, TypeOK, ItemStates
  <2>. QED
    BY <1>13, <2>3, <2>4 DEF SerialReturn, TypeOK, EventTypes, params, planVars
<1>14. ASSUME NEW i \in Calls, NEW o \in ToolOutcomes, ConcurrentReturn(i, o) PROVE TypeOK'
  <2>. DEFINE c == [index |-> i, status |-> ResultStatus(o), err |-> o.err]
  <2>1. c \in Completion
    BY StatusTypes DEF Completion
  <2>2. results' \in Seq(Completion)
    BY <1>14, <2>1 DEF ConcurrentReturn, TypeOK
  <2>. QED
    BY <1>14, <1>cap, <2>2
       DEF ConcurrentReturn, TypeOK, EventTypes, params, planVars, ItemStates
<1>15. CASE CancelContext
  BY <1>15, <1>cap DEF CancelContext, TypeOK, EventTypes, params, planVars, itemVars
<1>16. CASE ReadEvent
  <2>1. EventTypes'
    BY <1>16 DEF ReadEvent, TypeOK, EventTypes, EventCap, planVars
  <2>. QED
    BY <1>16, <2>1 DEF ReadEvent, TypeOK, EventTypes, params, planVars, itemVars
<1>17. CASE UNCHANGED vars
  BY <1>17, <1>cap DEF vars, TypeOK, EventTypes, params, planVars, itemVars
<1>. QED
  BY <1>1, <1>2, <1>3, <1>4, <1>5, <1>6, <1>7, <1>8, <1>9, <1>10, <1>11, <1>12, <1>13,
     <1>14, <1>15, <1>16, <1>17 DEF Next, Runner, ToolReturn, Terminated

(***************************************************************************)
(* Every reachable state is well typed and Stream's event channel is never *)
(* filled past its capacity.                                               *)
(***************************************************************************)
THEOREM TypeCorrect == Spec => []TypeOK
BY TypeInit, TypeNext, PTL DEF Spec
-----------------------------------------------------------------------------
(* The plan.                                                               *)

\* A batch whose calls come after those of a plan can be appended to it.
LEMMA AppendBatch ==
  ASSUME NEW p \in Seq(Batch), NEW b \in Batch,
         WellFormed(p),
         \A i \in b.indexes, j \in Calls : Covers(p, j) => j < i,
         b.mode = "serial" => \A i, j \in b.indexes : i = j,
         b.mode = "concurrent" => b.indexes \subseteq safe /\ ~serialFallback
  PROVE  /\ WellFormed(Append(p, b))
         /\ \A i \in Calls : Covers(Append(p, b), i) <=> Covers(p, i) \/ i \in b.indexes
<1>. DEFINE q == Append(p, b)
<1>1. /\ Len(p) \in Nat /\ DOMAIN p = 1..Len(p)
      /\ DOMAIN q = 1..(Len(p) + 1)
      /\ \A k \in DOMAIN p : q[k] = p[k] /\ p[k] \in Batch
      /\ q[Len(p) + 1] = b
  OBVIOUS
<1>2. \A k \in DOMAIN q : k \in DOMAIN p \/ k = Len(p) + 1
  BY <1>1
<1>3. \A k \in DOMAIN p : k \in DOMAIN q /\ k < Len(p) + 1
  BY <1>1
<1>. HIDE DEF q
<1>4. ASSUME NEW c \in DOMAIN q, NEW d \in DOMAIN q, c < d,
             NEW i \in q[c].indexes, NEW j \in q[d].indexes
      PROVE  i < j
  <2>1. c \in DOMAIN p
    BY <1>1, <1>4
  <2>2. CASE d \in DOMAIN p
    BY <1>1, <1>4, <2>1, <2>2 DEF WellFormed
  <2>3. CASE d = Len(p) + 1
    <3>1. j \in b.indexes /\ i \in p[c].indexes
      BY <1>1, <1>4, <2>1, <2>3
    <3>2. i \in Calls /\ Covers(p, i)
      BY <1>1, <2>1, <3>1 DEF Covers, Batch
    <3>. QED
      BY <3>1, <3>2
  <2>. QED
    BY <1>2, <2>2, <2>3
<1>5. \A c \in DOMAIN q : q[c].mode = "serial" => \A i, j \in q[c].indexes : i = j
  BY <1>1, <1>2 DEF WellFormed
<1>6. \A c \in DOMAIN q :
        q[c].mode = "concurrent" => q[c].indexes \subseteq safe /\ ~serialFallback
  BY <1>1, <1>2 DEF WellFormed
<1>7. WellFormed(q)
  BY <1>4, <1>5, <1>6 DEF WellFormed
<1>8. ASSUME NEW i \in Calls PROVE Covers(q, i) <=> Covers(p, i) \/ i \in b.indexes
  BY <1>1, <1>2, <1>3 DEF Covers
<1>. QED
  BY <1>7, <1>8 DEF q

\* Closing the open batch keeps the plan well formed and covers what was planned.
LEMMA FlushPlan ==
  ASSUME TypeOK, PlanInv
  PROVE  /\ WellFormed(FlushCurrent)
         /\ \A i \in Calls : Covers(FlushCurrent, i) <=> Covers(plan, i) \/ i \in current
<1>. DEFINE b == [mode |-> "concurrent", indexes |-> current]
<1>1. plan \in Seq(Batch) /\ b \in Batch
  BY DEF TypeOK, Batch
<1>2. CASE current = {}
  BY <1>2 DEF FlushCurrent, PlanInv
<1>3. CASE current # {}
  <2>1. FlushCurrent = Append(plan, b)
    BY <1>3 DEF FlushCurrent
  <2>2. /\ WellFormed(plan)
        /\ \A i \in current, j \in Calls : Covers(plan, j) => j < i
        /\ current \subseteq safe /\ ~serialFallback
    BY <1>3 DEF PlanInv
  <2>. QED
    BY <1>1, <2>1, <2>2, AppendBatch
<1>. QED
  BY <1>2, <1>3

LEMMA PlanInit == Init => PlanInv
<1>. SUFFICES ASSUME Init PROVE PlanInv
  OBVIOUS
<1>1. plan = <<>> /\ planned = 0 /\ current = {} /\ pc = "begin"
  BY DEF Init
<1>2. DOMAIN plan = {}
  BY <1>1
<1>. QED
  BY <1>1, <1>2 DEF Init, PlanInv, WellFormed, Covers, Planned

LEMMA PlanNext == TypeOK /\ PlanInv /\ [Next]_vars => PlanInv'
<1>. SUFFICES ASSUME TypeOK, PlanInv, [Next]_vars PROVE PlanInv'
  OBVIOUS
<1>1. CASE PlanCall
  <2>. DEFINE i == planned + 1
              s == [mode |-> "serial", indexes |-> {i}]
  <2>0. /\ planned \in Nat /\ planned < NumCalls /\ planned' = i /\ i \in Calls
        /\ ~Planned /\ ~Planned' /\ safe' = safe /\ serialFallback' = serialFallback
        /\ items' = items /\ results' = results /\ failure' = failure /\ batch' = batch
    BY <1>1, NumCallsAssumption DEF PlanCall, TypeOK, Planned, Calls, params, itemVars
  <2>1. \A j \in Calls : Covers(FlushCurrent, j) => j <= planned
    BY FlushPlan DEF PlanInv
  <2>2. CASE serialFallback \/ i \notin safe
    <3>1. plan' = Append(FlushCurrent, s) /\ current' = {}
      BY <1>1, <2>2 DEF PlanCall
    <3>2. s \in Batch /\ FlushCurrent \in Seq(Batch)
      BY <2>0, FlushTypes DEF Batch
    <3>3. \A j \in Calls : Covers(FlushCurrent, j) => j < i
      BY <2>0, <2>1 DEF Calls
    <3>4. /\ WellFormed(plan')
          /\ \A j \in Calls : Covers(plan', j) <=> Covers(FlushCurrent, j) \/ j = i
      <4>1. s.mode = "serial" /\ s.indexes = {i}
        OBVIOUS
      <4>. HIDE DEF s
      <4>2. /\ WellFormed(Append(FlushCurrent, s))
            /\ \A j \in Calls : Covers(Append(FlushCurrent, s), j)
                                <=> Covers(FlushCurrent, j) \/ j \in s.indexes
        BY <4>1, <3>2, <3>3, FlushPlan, AppendBatch
      <4>. QED
        BY <3>1, <4>1, <4>2
    <3>5. \A j \in Calls : Covers(plan', j) => j <= i
      BY <2>0, <2>1, <3>4 DEF Calls
    <3>6. \A j \in 1..i : Covers(plan', j)
      <4>1. \A j \in 1..i : j \in Calls /\ (j \in 1..planned \/ j = i)
        BY <2>0, NumCallsAssumption DEF Calls
      <4>. QED
        BY <3>4, <4>1, FlushPlan DEF PlanInv
    <3>. QED
      BY <2>0, <3>1, <3>4, <3>5, <3>6 DEF PlanInv, WellFormed, Covers
  <2>3. CASE ~serialFallback /\ i \in safe
    <3>1. plan' = plan /\ current' = current \cup {i}
      BY <1>1, <2>3 DEF PlanCall
    <3>2. \A j \in Calls : Covers(plan, j) => j < i
      BY <2>0 DEF PlanInv, Calls
    <3>3. \A j \in current : j < i
      BY <2>0 DEF PlanInv, TypeOK, Calls
    <3>4. \A j \in 1..i : j \in 1..planned \/ j = i
      BY <2>0
    <3>5. \A j \in Calls : Covers(plan', j) <=> Covers(plan, j)
      BY <3>1 DEF Covers
    <3>6. \A j \in Calls : Covers(plan', j) => j <= i
      BY <2>0, <3>2, <3>5 DEF Calls
    <3>7. \A k \in current' : /\ k <= i /\ k \in safe' /\ ~serialFallback'
                              /\ \A j \in Calls : Covers(plan', j) => j < k
      BY <2>0, <2>3, <3>1, <3>2, <3>3, <3>5 DEF PlanInv, TypeOK, Calls
    <3>8. \A j \in 1..i : j \in current' \/ Covers(plan', j)
      <4>1. \A j \in 1..i : j \in Calls
        BY <2>0, NumCallsAssumption DEF Calls
      <4>. QED
        BY <2>0, <3>1, <3>4, <3>5, <4>1 DEF PlanInv
    <3>9. WellFormed(plan)'
      BY <2>0, <3>1 DEF PlanInv, WellFormed
    <3>. QED
      BY <2>0, <3>6, <3>7, <3>8, <3>9 DEF PlanInv, Covers
  <2>. QED
    BY <2>2, <2>3
<1>2. CASE PlanDone
  <2>0. /\ planned = NumCalls /\ planned' = planned /\ current' = {}
        /\ plan' = FlushCurrent /\ Planned'
        /\ safe' = safe /\ serialFallback' = serialFallback
    BY <1>2 DEF PlanDone, Planned, params
  <2>1. \A j \in Calls : Covers(plan', j) => j <= planned'
    BY <2>0, FlushPlan DEF PlanInv
  <2>2. \A j \in 1..planned' : Covers(plan', j)
    BY <2>0, FlushPlan DEF PlanInv, Calls
  <2>3. WellFormed(plan')
    BY <2>0, FlushPlan
  <2>. QED
    BY <2>0, <2>1, <2>2, <2>3 DEF PlanInv, WellFormed, Covers
<1>3. ASSUME UNCHANGED <<params, planVars>>,
             Planned <=> Planned',
             ~Planned => UNCHANGED <<items, results, failure, batch>>
      PROVE  PlanInv'
  BY <1>3 DEF PlanInv, WellFormed, Covers, params, planVars
<1>4. CASE Begin
  BY <1>3, <1>4 DEF Begin, Planned, itemVars
<1>5. CASE StartBatch
  <2>1. plan[batch] \in Batch
    BY <1>5 DEF StartBatch, TypeOK
  <2>. QED
    BY <1>3, <1>5, <2>1 DEF StartBatch, Planned, Batch
<1>6. CASE \/ StopOnContext \/ StartSerial \/ SpawnConcurrent \/ CollectEnd
           \/ BatchEnd \/ Finish \/ Collect
  BY <1>3, <1>6 DEF StopOnContext, StartSerial, SpawnConcurrent, Collect, CollectEnd,
                    BatchEnd, Finish, Planned
<1>7. ASSUME NEW i \in Calls, DiscardNext(i) PROVE PlanInv'
  BY <1>3, <1>7 DEF DiscardNext, Planned
<1>8. ASSUME NEW i \in Calls, NEW o \in ToolOutcomes,
             SerialReturn(i, o) \/ ConcurrentReturn(i, o)
      PROVE  PlanInv'
  BY <1>3, <1>8 DEF SerialReturn, ConcurrentReturn, Planned
<1>9. CASE CancelContext \/ ReadEvent
  BY <1>3, <1>9 DEF CancelContext, ReadEvent, Planned, itemVars
<1>10. CASE UNCHANGED vars
  BY <1>3, <1>10 DEF vars, Planned, itemVars
<1>. QED
  BY <1>1, <1>2, <1>4, <1>5, <1>6, <1>7, <1>8, <1>9, <1>10
     DEF Next, Runner, ToolReturn, Terminated

\* What PlanInv says of a finished plan is what PlanPartitions promises.
LEMMA PlanFinal == TypeOK /\ PlanInv => PlanPartitions
<1> SUFFICES ASSUME TypeOK, PlanInv, Planned  PROVE PlanPartitions
  BY DEF PlanPartitions
<1>1. \A b \in DOMAIN plan : plan[b] \in Batch
  BY DEF TypeOK
<1>2. \A i \in Calls : \E b \in DOMAIN plan : i \in plan[b].indexes
  BY DEF PlanInv, Covers, Calls
<1>3. \A b \in DOMAIN plan :
        /\ plan[b].mode = "concurrent" => plan[b].indexes \subseteq safe /\ ~serialFallback
        /\ plan[b].mode # "concurrent" => \A i, j \in plan[b].indexes : i = j
  BY <1>1 DEF PlanInv, WellFormed, Batch
<1>. QED
  BY <1>2, <1>3 DEF PlanInv, WellFormed, PlanPartitions

(***************************************************************************)
(* Planning loses and reorders no call and leaves every unsafe one alone,  *)
(* for any list of calls, any set of safe tools, with and without the      *)
(* serial fallback.                                                        *)
(***************************************************************************)
THEOREM PlanCorrect == Spec => []PlanPartitions
BY TypeInit, TypeNext, PlanInit, PlanNext, PlanFinal, PTL DEF Spec
-----------------------------------------------------------------------------
(* The run.                                                                *)

\* Once planned, every call is in exactly one batch.
LEMMA Locate ==
  ASSUME TypeOK, PlanInv, Planned
  PROVE  /\ \A i \in Calls : \E b \in DOMAIN plan : i \in Idx(b)
         /\ \A b \in DOMAIN plan : Idx(b) \subseteq Calls
         /\ \A b, c \in DOMAIN plan : \A i \in Idx(b) : i \in Idx(c) => b = c
<1>1. \A b \in DOMAIN plan : plan[b] \in Batch /\ b \in Nat
  BY DEF TypeOK
<1>2. \A b \in DOMAIN plan : Idx(b) \subseteq Calls
  BY <1>1 DEF Idx, Batch
<1>3. \A i \in Calls : \E b \in DOMAIN plan : i \in Idx(b)
  BY DEF PlanInv, Covers, Idx, Calls
<1>4. ASSUME NEW b \in DOMAIN plan, NEW c \in DOMAIN plan, NEW i \in Idx(b), i \in Idx(c)
      PROVE  b = c
  <2>1. i \in Nat /\ ~(i < i)
    BY <1>2, <1>4 DEF Calls
  <2>2. ~(b < c) /\ ~(c < b)
    BY <1>4, <2>1 DEF PlanInv, WellFormed, Idx
  <2>. QED
    BY <1>1, <2>2
<1>. QED
  BY <1>2, <1>3, <1>4

LEMMA RunInit == Init => RunInv /\ ChannelInv
<1>. SUFFICES ASSUME Init PROVE RunInv /\ ChannelInv
  OBVIOUS
<1>1. results = <<>> /\ pc = "begin" /\ DOMAIN results = {}
  BY DEF Init
<1>2. \A i \in Calls : items[i] = "none"
  BY DEF Init
<1>. QED
  BY <1>1, <1>2 DEF RunInv, ChannelInv, Planned

\* A step that leaves the items and the channel alone keeps ChannelInv.
LEMMA ChannelFrame ==
  ASSUME ChannelInv, UNCHANGED <<items, results>>,
         UNCHANGED <<plan, batch>> \/ results = <<>>
  PROVE  ChannelInv'
BY DEF ChannelInv, Idx

LEMMA RunPlanning ==
  ASSUME IInv, PlanCall \/ PlanDone \/ Begin
  PROVE  RunInv' /\ ChannelInv'
<1>0. ~Planned /\ results = <<>> /\ batch = 1 /\ failure = "none"
      /\ UNCHANGED <<items, results, batch, failure>>
      /\ items = [i \in Calls |-> "none"]
  BY DEF IInv, PlanInv, Planned, PlanCall, PlanDone, Begin, itemVars
<1>1. ChannelInv'
  BY <1>0, ChannelFrame DEF IInv
<1>2. CASE PlanCall \/ Begin
  BY <1>1, <1>2 DEF PlanCall, Begin, RunInv, Planned
<1>3. CASE PlanDone
  <2>1. pc' = "head" /\ TypeOK' /\ PlanInv'
    BY <1>3, TypeNext, PlanNext DEF IInv, PlanDone, Next, Runner
  <2>2. \A b \in DOMAIN plan' : b \in Nat /\ b >= 1 /\ plan'[b].indexes \subseteq Calls
    <3>1. plan' \in Seq(Batch)
      BY <2>1 DEF TypeOK, Calls, Batch
    <3>2. \A b \in DOMAIN plan' : plan'[b] \in Batch /\ b \in Nat /\ b >= 1
      BY <3>1
    <3>. QED
      BY <3>2 DEF Batch
  <2>3. \A b \in DOMAIN plan' : \A i \in plan'[b].indexes : items[i] = "none"
    BY <1>0, <2>2
  <2>. QED
    BY <1>0, <1>1, <2>1, <2>2, <2>3 DEF RunInv, Idx, Planned, Untouched, InFlight
<1>. QED
  BY <1>2, <1>3

LEMMA RunControl ==
  ASSUME IInv,
         \/ StartBatch \/ StopOnContext \/ CollectEnd \/ BatchEnd \/ Finish
         \/ CancelContext \/ ReadEvent \/ UNCHANGED vars
  PROVE  RunInv' /\ ChannelInv'
<1>0. UNCHANGED <<items, results, plan>>
  BY DEF StartBatch, StopOnContext, CollectEnd, BatchEnd, Finish, CancelContext,
         ReadEvent, vars, planVars, itemVars
<1>1. CASE StartBatch
  <2>1. batch \in DOMAIN plan /\ plan[batch] \in Batch /\ pc = "head"
        /\ pc' = plan[batch].mode /\ batch' = batch /\ failure' = failure
    BY <1>1 DEF StartBatch, IInv, TypeOK
  <2>2. Planned /\ (pc' = "serial" \/ pc' = "concurrent")
    BY <2>1 DEF Planned, Batch
  <2>. QED
    BY <1>0, <2>1, <2>2, ChannelFrame DEF IInv, RunInv, Planned, Idx, InFlight
<1>2. CASE StopOnContext
  <2>1. /\ pc \in {"head", "serial"} /\ Planned /\ batch \in DOMAIN plan
        /\ pc' = "discard" /\ batch' = batch
    BY <1>2 DEF StopOnContext, IInv, TypeOK, Planned, RunInv
  <2>. QED
    BY <1>0, <2>1, ChannelFrame DEF IInv, RunInv, Planned, Idx, InFlight
<1>3. CASE CollectEnd
  <2>1. /\ pc = "collect" /\ Planned /\ results = <<>> /\ batch' = batch /\ failure' = failure
        /\ pc' = IF failure = "none" THEN "batch_end" ELSE "discard"
        /\ \A i \in Idx(batch) : items[i] # "running"
    BY <1>3 DEF CollectEnd, Planned, Idx
  <2>2. \A i \in Calls : items[i] # "returned"
    BY <2>1 DEF IInv, ChannelInv
  <2>3. \A i \in Calls : \E b \in DOMAIN plan : i \in Idx(b)
    BY <2>1, Locate DEF IInv
  <2>a. \A i \in Idx(batch) : i \in Calls
    BY <2>1, Locate DEF IInv, RunInv
  <2>4. \A i \in Idx(batch) : items[i] \notin {"running", "returned"}
    BY <2>1, <2>2, <2>a DEF IInv, RunInv
  <2>5. failure = "none" => \A i \in Idx(batch) : items[i] = "succeeded"
    BY <2>1, <2>4 DEF IInv, RunInv
  <2>6. \A i \in Calls : ~InFlight(i)
    <3>1. SUFFICES ASSUME NEW i \in Calls, InFlight(i) PROVE FALSE
      OBVIOUS
    <3>2. PICK b \in DOMAIN plan : i \in Idx(b)
      BY <2>3
    <3>3. b \in Nat /\ batch \in Nat
      BY DEF IInv, TypeOK
    <3>. QED
      BY <2>1, <2>4, <3>1, <3>2, <3>3 DEF IInv, RunInv, InFlight, Untouched
  <2>. QED
    BY <1>0, <2>1, <2>2, <2>5, <2>6, ChannelFrame DEF IInv, RunInv, Planned, Idx, InFlight
<1>4. CASE BatchEnd
  <2>1. /\ pc = "batch_end" /\ Planned /\ batch' = batch + 1 /\ pc' = "head"
        /\ failure' = failure /\ batch \in Nat /\ results = <<>>
        /\ \A b \in DOMAIN plan : b \in Nat
    BY <1>4 DEF BatchEnd, Planned, IInv, TypeOK, RunInv
  <2>2. \A b \in DOMAIN plan : /\ b < batch + 1 => b < batch \/ b = batch
                              /\ b >= batch + 1 => b > batch
    BY <2>1
  <2>3. \A b \in DOMAIN plan : b >= batch + 1 => \A i \in Idx(b) : items[i] = "none"
    BY <2>1, <2>2 DEF IInv, RunInv
  <2>. QED
    BY <1>0, <2>1, <2>2, <2>3, ChannelFrame DEF IInv, RunInv, Planned, Idx, InFlight, Untouched
<1>5. CASE Finish
  <2>1. pc \in {"head", "discard"} /\ Planned /\ pc' = "done" /\ batch' = batch /\ failure' = failure
    BY <1>5 DEF Finish, Planned
  <2>. QED
    BY <1>0, <2>1, ChannelFrame DEF IInv, RunInv, Planned, Idx, InFlight
<1>6. CASE CancelContext \/ ReadEvent \/ UNCHANGED vars
  <2>1. UNCHANGED <<pc, batch, failure>>
    BY <1>6 DEF CancelContext, ReadEvent, vars
  <2>. QED
    BY <1>0, <2>1, ChannelFrame DEF IInv, RunInv, Planned, Idx, InFlight
<1>. QED
  BY <1>1, <1>2, <1>3, <1>4, <1>5, <1>6

\* The calls of the current batch are put in flight.
LEMMA RunStart ==
  ASSUME IInv, StartSerial \/ SpawnConcurrent
  PROVE  RunInv' /\ ChannelInv'
<1>1. /\ Planned /\ Planned' /\ batch \in DOMAIN plan
      /\ UNCHANGED <<plan, batch, results, failure>>
      /\ \/ pc = "serial" /\ pc' = "serial_run"
         \/ pc = "concurrent" /\ pc' = "collect"
      /\ items' = [i \in Calls |-> IF i \in Idx(batch) THEN "running" ELSE items[i]]
      /\ failure = "none" /\ results = <<>>
      /\ DOMAIN results = {}
  BY DEF IInv, RunInv, StartSerial, SpawnConcurrent, Planned, planVars, Idx
<1>2. /\ \A b \in DOMAIN plan : Idx(b) \subseteq Calls
      /\ \A b \in DOMAIN plan : b # batch => \A i \in Idx(b) : i \notin Idx(batch)
      /\ \A b \in DOMAIN plan : b \in Nat
      /\ batch \in Nat
  BY <1>1, Locate DEF IInv, TypeOK
<1>3. /\ \A b \in DOMAIN plan : b # batch => \A i \in Idx(b) : items'[i] = items[i]
      /\ \A i \in Idx(batch) : items'[i] = "running"
  BY <1>1, <1>2
<1>4. \A b \in DOMAIN plan : (b < batch \/ b > batch) => b # batch
  BY <1>2
<1>5. \A i \in Calls : items'[i] # "returned"
  BY <1>1 DEF IInv, RunInv
<1>6. RunInv'
  BY <1>1, <1>3, <1>4 DEF IInv, RunInv, Planned, Idx, Untouched
<1>7. ChannelInv'
  BY <1>1, <1>5 DEF ChannelInv
<1>. QED
  BY <1>6, <1>7

LEMMA RunSerialReturn ==
  ASSUME IInv, NEW n \in Calls, NEW o \in ToolOutcomes, SerialReturn(n, o)
  PROVE  RunInv' /\ ChannelInv'
<1>1. /\ pc = "serial_run" /\ items[n] = "running" /\ Planned /\ Planned'
      /\ batch \in DOMAIN plan /\ UNCHANGED <<plan, batch, results>>
      /\ results = <<>> /\ DOMAIN results = {}
      /\ items' = [items EXCEPT ![n] = ResultStatus(o)]
      /\ items \in [Calls -> ItemStates]
  BY DEF IInv, RunInv, TypeOK, SerialReturn, Record, Planned, planVars
<1>2. \/ ResultStatus(o) = "succeeded" /\ pc' = "batch_end" /\ failure' = "none"
      \/ ResultStatus(o) \in {"failed", "cancelled"} /\ pc' = "discard"
  BY StatusTypes, <1>1 DEF SerialReturn, ItemFailed, Statuses, IInv, RunInv
<1>3. n \in Idx(batch)
  <2>1. PICK b \in DOMAIN plan : n \in Idx(b)
    BY <1>1, Locate DEF IInv
  <2>2. b \in Nat /\ batch \in Nat
    BY DEF IInv, TypeOK
  <2>. QED
    BY <1>1, <2>1, <2>2 DEF IInv, RunInv, Untouched
<1>4. \A i \in Idx(batch) : i = n
  BY <1>1, <1>3 DEF IInv, RunInv, PlanInv, WellFormed, Idx
<1>5. /\ \A b \in DOMAIN plan : b \in Nat /\ Idx(b) \subseteq Calls
      /\ batch \in Nat
      /\ \A b \in DOMAIN plan : b # batch => n \notin Idx(b)
  BY <1>1, <1>3, Locate DEF IInv, TypeOK
<1>6. \A b \in DOMAIN plan : (b < batch \/ b > batch) => \A i \in Idx(b) : items'[i] = items[i]
  BY <1>1, <1>5
<1>7. \A i \in Calls : items[i] = "running" => i = n
  <2>1. SUFFICES ASSUME NEW i \in Calls, items[i] = "running" PROVE i = n
    OBVIOUS
  <2>2. PICK b \in DOMAIN plan : i \in Idx(b)
    BY <1>1, Locate DEF IInv
  <2>. QED
    BY <1>1, <1>4, <1>5, <2>1, <2>2 DEF IInv, RunInv, Untouched
<1>8. \A i \in Calls : items'[i] # "running" /\ items'[i] # "returned"
  BY <1>1, <1>2, <1>7 DEF IInv, RunInv
<1>9. RunInv'
  BY <1>1, <1>2, <1>3, <1>4, <1>6, <1>8 DEF IInv, RunInv, Planned, Idx, InFlight
<1>10. ChannelInv'
  BY <1>1, <1>8 DEF ChannelInv
<1>. QED
  BY <1>9, <1>10

LEMMA RunDiscard ==
  ASSUME IInv, NEW n \in Calls, DiscardNext(n)
  PROVE  RunInv' /\ ChannelInv'
<1>1. /\ pc = "discard" /\ items[n] = "none" /\ Planned /\ Planned'
      /\ batch \in DOMAIN plan /\ UNCHANGED <<pc, plan, batch, results, failure>>
      /\ results = <<>> /\ DOMAIN results = {}
      /\ items' = [items EXCEPT ![n] = "discarded"]
      /\ items \in [Calls -> ItemStates]
  BY DEF IInv, RunInv, TypeOK, DiscardNext, Planned, planVars
<1>2. \A b \in DOMAIN plan : Idx(b) \subseteq Calls
  BY <1>1, Locate DEF IInv
<1>3. \A i \in Calls : items'[i] = items[i] \/ (items[i] = "none" /\ items'[i] = "discarded")
  BY <1>1
<1>4. \A b \in DOMAIN plan : \A i \in Idx(b) :
        items'[i] = items[i] \/ (items[i] = "none" /\ items'[i] = "discarded")
  BY <1>2, <1>3
<1>5. RunInv'
  BY <1>1, <1>3, <1>4 DEF IInv, RunInv, Planned, Idx, InFlight, Untouched
<1>6. ChannelInv'
  BY <1>1, <1>3 DEF IInv, RunInv, ChannelInv
<1>. QED
  BY <1>5, <1>6

\* While a batch is collected, what is in flight or returned is of that batch.
LEMMA InBatch ==
  ASSUME IInv, pc = "collect", NEW n \in Calls, items[n] \in {"running", "returned"}
  PROVE  n \in Idx(batch)
<1>1. Planned
  BY DEF Planned
<1>2. PICK b \in DOMAIN plan : n \in Idx(b)
  BY <1>1, Locate DEF IInv
<1>3. b \in Nat /\ batch \in Nat
  BY DEF IInv, TypeOK
<1>. QED
  BY <1>1, <1>2, <1>3 DEF IInv, RunInv, Untouched

\* A step that changes the state of one call of the batch being collected.
LEMMA RunCollecting ==
  ASSUME IInv, pc = "collect", NEW n \in Idx(batch), NEW state,
         UNCHANGED <<pc, plan, batch>>,
         items' = [items EXCEPT ![n] = state],
         state \notin Untouched,
         failure' = "none" =>
           failure = "none" /\ state \in {"running", "returned", "succeeded"}
  PROVE  RunInv'
<1>1. /\ Planned /\ Planned' /\ batch \in DOMAIN plan
      /\ items \in [Calls -> ItemStates] /\ batch \in Nat
  BY DEF IInv, RunInv, TypeOK, Planned
<1>2. /\ \A b \in DOMAIN plan : b \in Nat /\ Idx(b) \subseteq Calls
      /\ \A b \in DOMAIN plan : b # batch => n \notin Idx(b)
  BY <1>1, Locate DEF IInv, TypeOK
<1>3. \A b \in DOMAIN plan : (b < batch \/ b > batch) => \A i \in Idx(b) : items'[i] = items[i]
  BY <1>1, <1>2
<1>4. \A i \in Idx(batch) : items'[i] = IF i = n THEN state ELSE items[i]
  BY <1>1, <1>2
<1>. QED
  BY <1>1, <1>3, <1>4 DEF IInv, RunInv, Planned, Idx

LEMMA RunConcurrentReturn ==
  ASSUME IInv, NEW n \in Calls, NEW o \in ToolOutcomes, ConcurrentReturn(n, o)
  PROVE  RunInv' /\ ChannelInv'
<1>. DEFINE c == [index |-> n, status |-> ResultStatus(o), err |-> o.err]
<1>1. /\ pc = "collect" /\ items[n] = "running"
      /\ UNCHANGED <<pc, plan, batch, failure>>
      /\ results' = Append(results, c)
      /\ items' = [items EXCEPT ![n] = "returned"]
      /\ items \in [Calls -> ItemStates] /\ results \in Seq(Completion)
  BY DEF IInv, TypeOK, ConcurrentReturn, planVars
<1>2. n \in Idx(batch)
  BY <1>1, InBatch
<1>3. RunInv'
  BY <1>1, <1>2, RunCollecting DEF Untouched
<1>4. c \in Completion /\ c.index = n
  BY StatusTypes DEF Completion
<1>. HIDE DEF c
<1>5. /\ Len(results) \in Nat /\ DOMAIN results = 1..Len(results)
      /\ DOMAIN results' = 1..(Len(results) + 1)
      /\ \A k \in DOMAIN results : results'[k] = results[k]
      /\ results'[Len(results) + 1] = c
      /\ \A k \in DOMAIN results' : k \in DOMAIN results \/ k = Len(results) + 1
      /\ \A k \in DOMAIN results : k # Len(results) + 1
  BY <1>1, <1>4
<1>6. \A k \in DOMAIN results : results[k].index # n /\ results[k].index \in Calls
  <2>1. \A k \in DOMAIN results : results[k] \in Completion
    BY <1>1
  <2>. QED
    BY <1>1, <2>1 DEF IInv, ChannelInv, Completion
<1>7. \A k, l \in DOMAIN results' : results'[k].index = results'[l].index => k = l
  BY <1>4, <1>5, <1>6 DEF IInv, ChannelInv
<1>8. \A k \in DOMAIN results' : /\ items'[results'[k].index] = "returned"
                                 /\ results'[k].index \in Idx(batch)
  BY <1>1, <1>2, <1>4, <1>5, <1>6 DEF IInv, ChannelInv
<1>9. \A i \in Calls : items'[i] = "returned" => \E k \in DOMAIN results' : results'[k].index = i
  <2>1. SUFFICES ASSUME NEW i \in Calls, items'[i] = "returned"
                 PROVE  \E k \in DOMAIN results' : results'[k].index = i
    OBVIOUS
  <2>2. CASE i = n
    BY <1>4, <1>5, <2>2
  <2>3. CASE i # n
    <3>1. PICK k \in DOMAIN results : results[k].index = i
      BY <1>1, <2>1, <2>3 DEF IInv, ChannelInv
    <3>. QED
      BY <1>5, <3>1
  <2>. QED
    BY <2>2, <2>3
<1>. QED
  BY <1>1, <1>3, <1>7, <1>8, <1>9 DEF ChannelInv, Idx

LEMMA RunCollect ==
  ASSUME IInv, Collect
  PROVE  RunInv' /\ ChannelInv'
<1>. DEFINE d == Head(results)
<1>1. /\ pc = "collect" /\ results # <<>> /\ results' = Tail(results)
      /\ UNCHANGED <<pc, plan, batch>>
      /\ items' = [items EXCEPT ![d.index] = d.status]
      /\ items \in [Calls -> ItemStates] /\ results \in Seq(Completion)
      /\ failure' = "none" => failure = "none" /\ ~ItemFailed(d.status)
  BY DEF IInv, TypeOK, Collect, Record, planVars
<1>2. d = results[1] /\ 1 \in DOMAIN results /\ d \in Completion
  BY <1>1
<1>3. /\ d.index \in Calls /\ d.status \in Statuses
      /\ items[d.index] = "returned" /\ d.index \in Idx(batch)
  BY <1>2 DEF Completion, IInv, ChannelInv
<1>4. RunInv'
  BY <1>1, <1>3, RunCollecting DEF Untouched, Statuses, ItemFailed
<1>5. /\ Len(results) \in Nat /\ DOMAIN results = 1..Len(results)
      /\ DOMAIN results' = 1..(Len(results) - 1)
      /\ \A k \in DOMAIN results' : k + 1 \in DOMAIN results /\ results'[k] = results[k + 1] /\ k + 1 # 1
      /\ \A k \in DOMAIN results : k # 1 => k - 1 \in DOMAIN results' /\ results'[k - 1] = results[k]
  BY <1>1
<1>6. \A k \in DOMAIN results : results[k].index = d.index => k = 1
  BY <1>2 DEF IInv, ChannelInv
<1>7. \A k \in DOMAIN results' : results'[k].index # d.index /\ results'[k].index \in Calls
  <2>1. \A k \in DOMAIN results : results[k] \in Completion
    BY <1>1
  <2>. HIDE DEF d
  <2>. QED
    BY <1>5, <1>6, <2>1 DEF Completion
<1>8. \A k \in DOMAIN results' : /\ items'[results'[k].index] = "returned"
                                 /\ results'[k].index \in Idx(batch)
  BY <1>1, <1>5, <1>7 DEF IInv, ChannelInv
<1>9. \A k, l \in DOMAIN results' : results'[k].index = results'[l].index => k = l
  <2>1. SUFFICES ASSUME NEW k \in DOMAIN results', NEW l \in DOMAIN results',
                        results'[k].index = results'[l].index
                 PROVE  k = l
    OBVIOUS
  <2>2. k + 1 = l + 1
    BY <1>5, <2>1 DEF IInv, ChannelInv
  <2>. QED
    BY <1>5, <2>2
<1>10. \A i \in Calls : items'[i] = "returned" => \E k \in DOMAIN results' : results'[k].index = i
  <2>1. SUFFICES ASSUME NEW i \in Calls, items'[i] = "returned"
                 PROVE  \E k \in DOMAIN results' : results'[k].index = i
    OBVIOUS
  <2>2. i # d.index /\ items[i] = "returned"
    BY <1>1, <1>3, <2>1 DEF Statuses
  <2>3. PICK k \in DOMAIN results : results[k].index = i
    BY <2>2 DEF IInv, ChannelInv
  <2>4. k # 1
    BY <1>2, <2>2, <2>3
  <2>. QED
    BY <1>5, <2>3, <2>4
<1>. QED
  BY <1>1, <1>4, <1>8, <1>9, <1>10 DEF ChannelInv, Idx

-----------------------------------------------------------------------------
(* The invariant, and what follows from it.                                *)

LEMMA InvInit == Init => IInv
BY TypeInit, PlanInit, RunInit DEF IInv

LEMMA InvNext == IInv /\ [Next]_vars => IInv'
<1>. SUFFICES ASSUME IInv, [Next]_vars PROVE IInv'
  OBVIOUS
<1>1. TypeOK' /\ PlanInv'
  BY TypeNext, PlanNext DEF IInv
<1>2. RunInv' /\ ChannelInv'
  BY RunPlanning, RunControl, RunStart, RunSerialReturn, RunConcurrentReturn,
     RunCollect, RunDiscard
     DEF Next, Runner, ToolReturn, Terminated
<1>. QED
  BY <1>1, <1>2 DEF IInv

LEMMA CascadeFromInv == IInv => NothingPastAFailure
<1>. SUFFICES ASSUME IInv, NEW b \in DOMAIN plan, NEW c \in DOMAIN plan, b < c,
                     NEW i \in Idx(b), NEW j \in Idx(c), Started(j)
              PROVE  items[i] = "succeeded"
  BY DEF NothingPastAFailure, Idx
<1>0. b \in Nat /\ c \in Nat /\ batch \in Nat
  BY DEF IInv, TypeOK
<1>1. CASE Planned
  <2>1. items[j] \notin Untouched
    BY DEF Started, Untouched, Statuses
  <2>2. ~(c > batch)
    BY <1>1, <2>1 DEF IInv, RunInv
  <2>3. b < batch
    BY <1>0, <2>2
  <2>. QED
    BY <1>1, <2>3 DEF IInv, RunInv
<1>2. CASE ~Planned
  <2>1. plan \in Seq(Batch) /\ plan[c] \in Batch
    BY DEF IInv, TypeOK
  <2>2. j \in Calls
    BY <2>1 DEF Idx, Batch
  <2>3. items[j] = "none"
    BY <1>2, <2>2 DEF IInv, PlanInv
  <2>. QED
    BY <2>3 DEF Started, Statuses
<1>. QED
  BY <1>1, <1>2

LEMMA ExclusionFromInv == IInv => UnsafeRunsAlone
<1>. SUFFICES ASSUME IInv, NEW i \in Calls, NEW j \in Calls, i # j, InFlight(i), InFlight(j)
              PROVE  {i, j} \subseteq safe /\ ~serialFallback
  BY DEF UnsafeRunsAlone
<1>1. Planned
  BY DEF IInv, PlanInv, InFlight
<1>2. pc \in {"serial_run", "collect"}
  BY <1>1 DEF IInv, RunInv
<1>3. i \in Idx(batch) /\ j \in Idx(batch)
  <2>1. ASSUME NEW n \in Calls, InFlight(n) PROVE n \in Idx(batch)
    <3>1. PICK b \in DOMAIN plan : n \in Idx(b)
      BY <1>1, Locate DEF IInv
    <3>2. b \in Nat /\ batch \in Nat
      BY DEF IInv, TypeOK
    <3>. QED
      BY <1>1, <2>1, <3>1, <3>2 DEF IInv, RunInv, InFlight, Untouched
  <2>. QED
    BY <2>1
<1>4. batch \in DOMAIN plan
  BY <1>1, <1>2 DEF IInv, RunInv
<1>5. plan[batch].mode # "serial"
  BY <1>3, <1>4 DEF IInv, PlanInv, WellFormed, Idx
<1>6. plan[batch].mode = "concurrent"
  BY <1>1, <1>2, <1>5 DEF IInv, RunInv
<1>. QED
  BY <1>3, <1>4, <1>6 DEF IInv, PlanInv, WellFormed, Idx

(***************************************************************************)
(* The failure cascade holds however many calls there are, however they    *)
(* are batched and in whatever order the tools of a concurrent batch come  *)
(* back.                                                                   *)
(***************************************************************************)
THEOREM CascadeCorrect == Spec => []NothingPastAFailure
BY InvInit, InvNext, CascadeFromInv, PTL DEF Spec

(***************************************************************************)
(* Calls overlap only when every tool involved declares it safe.           *)
(***************************************************************************)
THEOREM ExclusionCorrect == Spec => []UnsafeRunsAlone
BY InvInit, InvNext, ExclusionFromInv, PTL DEF Spec
-----------------------------------------------------------------------------
(* The run implements its contract.                                        *)

\* Why a run is being wound up.
FailureInv ==
  /\ failure = "ctx" => ctxDone
  /\ failure = "item" => \E i \in Calls : items[i] \in {"failed", "cancelled"}
  /\ pc = "discard" => failure # "none"

LEMMA FailureInit == Init => FailureInv
BY DEF Init, FailureInv

LEMMA FailureNext == IInv /\ FailureInv /\ [Next]_vars => FailureInv'
<1>. SUFFICES ASSUME IInv, FailureInv, [Next]_vars PROVE FailureInv'
  OBVIOUS
<1>0. items \in [Calls -> ItemStates] /\ ctxDone \in BOOLEAN
  BY DEF IInv, TypeOK
<1>1. ASSUME \A j \in Calls : items[j] \in {"failed", "cancelled"} => items'[j] = items[j],
             failure' = failure, pc' = pc, ctxDone => ctxDone'
      PROVE  FailureInv'
  BY <1>1 DEF FailureInv
<1>2. CASE Begin \/ PlanCall \/ PlanDone \/ StartBatch \/ CollectEnd \/ BatchEnd \/ Finish
  <2>1. UNCHANGED <<items, failure, ctxDone>>
    BY <1>2 DEF Begin, PlanCall, PlanDone, StartBatch, CollectEnd, BatchEnd, Finish, itemVars
  <2>2. pc' = "discard" => failure # "none"
    <3>1. CASE StartBatch
      <4>1. plan[batch] \in Batch
        BY <3>1 DEF StartBatch, IInv, TypeOK
      <4>. QED
        BY <3>1, <4>1 DEF StartBatch, Batch
    <3>. QED
      BY <1>2, <3>1 DEF Begin, PlanCall, PlanDone, CollectEnd, BatchEnd, Finish
  <2>. QED
    BY <2>1, <2>2 DEF FailureInv
<1>3. CASE StopOnContext
  BY <1>3 DEF StopOnContext, FailureInv, itemVars
<1>4. CASE StartSerial \/ SpawnConcurrent
  <2>1. /\ failure = "none" /\ failure' = failure /\ pc' # "discard"
    BY <1>4 DEF IInv, RunInv, Planned, StartSerial, SpawnConcurrent
  <2>. QED
    BY <2>1 DEF FailureInv
<1>5. ASSUME NEW n \in Calls, NEW o \in ToolOutcomes, SerialReturn(n, o) PROVE FailureInv'
  <2>1. /\ items' = [items EXCEPT ![n] = ResultStatus(o)] /\ failure = "none"
        /\ ctxDone' = ctxDone /\ ResultStatus(o) \in Statuses
        /\ \/ /\ failure' = "item" /\ ResultStatus(o) # "succeeded"
           \/ failure' = "none" /\ pc' = "batch_end"
    BY <1>5, StatusTypes DEF SerialReturn, Record, ItemFailed, IInv, RunInv, Planned
  <2>. QED
    BY <1>0, <2>1 DEF FailureInv, Statuses
<1>6. ASSUME NEW n \in Calls, NEW o \in ToolOutcomes, ConcurrentReturn(n, o) PROVE FailureInv'
  BY <1>0, <1>1, <1>6 DEF ConcurrentReturn
<1>7. CASE Collect
  <2>. DEFINE d == Head(results)
  <2>1. /\ pc = "collect" /\ pc' = pc /\ ctxDone' = ctxDone
        /\ items' = [items EXCEPT ![d.index] = d.status]
        /\ results \in Seq(Completion) /\ results # <<>>
        /\ failure' = failure \/ (failure' = "item" /\ d.status # "succeeded")
    BY <1>7 DEF Collect, Record, ItemFailed, IInv, TypeOK
  <2>2. d \in Completion /\ d = results[1] /\ 1 \in DOMAIN results
    BY <2>1
  <2>3. d.index \in Calls /\ d.status \in Statuses /\ items[d.index] = "returned"
    BY <2>2 DEF Completion, IInv, ChannelInv
  <2>. HIDE DEF d
  <2>. QED
    BY <1>0, <2>1, <2>3 DEF FailureInv, Statuses
<1>8. ASSUME NEW n \in Calls, DiscardNext(n) PROVE FailureInv'
  BY <1>0, <1>1, <1>8 DEF DiscardNext
<1>9. CASE CancelContext \/ ReadEvent \/ UNCHANGED vars
  BY <1>9 DEF CancelContext, ReadEvent, vars, FailureInv, itemVars
<1>. QED
  BY <1>2, <1>3, <1>4, <1>5, <1>6, <1>7, <1>8, <1>9 DEF Next, Runner, ToolReturn, Terminated

\* The mapped state function, by name.
Fates == [i \in Calls |-> Fate(i)]
Parallel == IF serialFallback THEN {} ELSE safe

LEMMA ContractInit == Init => Contract!Init
<1>. SUFFICES ASSUME Init PROVE Contract!Init
  OBVIOUS
<1>1. \A i \in Calls : Fate(i) = "pending"
  BY DEF Init, Fate
<1>. QED
  BY <1>1 DEF Init, Contract!Init

\* A step that changes no fate and no parameter is a stutter of the contract.
LEMMA ContractStutter ==
  ASSUME UNCHANGED <<safe, serialFallback, ctxDone>>,
         \A i \in Calls : Fate(i)' = Fate(i)
  PROVE  UNCHANGED Contract!vars
BY DEF Contract!vars

\* A call that was started is settled with its status.
LEMMA ContractSettle ==
  ASSUME IInv, NEW n \in Calls, NEW status \in Statuses,
         items[n] \in {"running", "returned"},
         items' = [items EXCEPT ![n] = status],
         UNCHANGED <<safe, serialFallback, ctxDone>>
  PROVE  Contract!Next
<1>1. items \in [Calls -> ItemStates]
  BY DEF IInv, TypeOK
<1>2. Fate(n) = "running" /\ Fate(n)' \in {"succeeded", "failed"}
  BY <1>1 DEF Fate, Statuses
<1>3. \A i \in Calls : i # n => Fate(i)' = Fate(i)
  BY <1>1 DEF Fate
<1>4. [i \in Calls |-> Fate(i)]' = [[i \in Calls |-> Fate(i)] EXCEPT ![n] = Fate(n)']
  BY <1>3
<1>5. Contract!Settle(n, Fate(n)')
  BY <1>2, <1>4 DEF Contract!Settle
<1>. QED
  BY <1>2, <1>5 DEF Contract!Next

LEMMA ContractLaunch ==
  ASSUME IInv, StartSerial \/ SpawnConcurrent
  PROVE  [Contract!Next]_Contract!vars
<1>1. /\ Planned /\ batch \in DOMAIN plan
      /\ UNCHANGED <<safe, serialFallback, ctxDone>>
      /\ items' = [i \in Calls |-> IF i \in Idx(batch) THEN "running" ELSE items[i]]
      /\ \A i \in Idx(batch) : items[i] = "none"
      /\ \A i \in Calls : items[i] \notin {"running", "returned"}
      /\ items \in [Calls -> ItemStates]
      /\ \/ plan[batch].mode = "serial"
         \/ plan[batch].mode = "concurrent"
  BY DEF IInv, RunInv, TypeOK, StartSerial, SpawnConcurrent, Planned, InFlight, params, Idx
<1>2. /\ Idx(batch) \subseteq Calls
      /\ \A i \in Calls : \E b \in DOMAIN plan : i \in Idx(b)
      /\ \A b \in DOMAIN plan : b \in Nat
      /\ batch \in Nat
  BY <1>1, Locate DEF IInv, TypeOK
<1>3. CASE Idx(batch) = {}
  <2>1. \A i \in Calls : items'[i] = items[i]
    BY <1>1, <1>3
  <2>. QED
    BY <1>1, <2>1, ContractStutter DEF Fate
<1>4. CASE Idx(batch) # {}
  <2>1. \A i \in Calls : Fate(i)' = IF i \in Idx(batch) THEN "running" ELSE Fate(i)
    BY <1>1, <1>2 DEF Fate
  <2>2. \A i \in Idx(batch) : Fate(i) = "pending"
    BY <1>1 DEF Fate
  <2>3. \A i \in Calls : Fate(i) # "running"
    BY <1>1 DEF Fate
  <2>4. \A i, j \in Idx(batch) : i = j \/ Idx(batch) \subseteq Parallel
    BY <1>1 DEF IInv, PlanInv, WellFormed, Idx, Parallel
  <2>5. ASSUME NEW i \in Idx(batch), NEW j \in Calls \ Idx(batch), j < i
        PROVE  Fate(j) = "succeeded"
    <3>1. PICK b \in DOMAIN plan : j \in Idx(b)
      BY <1>2
    <3>2. b # batch /\ ~(b > batch)
      <4>1. i \in Nat /\ j \in Nat /\ ~(i < j)
        BY <1>2, <2>5 DEF Calls
      <4>. QED
        BY <1>1, <1>2, <2>5, <3>1, <4>1 DEF IInv, PlanInv, WellFormed, Idx
    <3>3. items[j] = "succeeded"
      BY <1>1, <1>2, <3>1, <3>2 DEF IInv, RunInv
    <3>. QED
      BY <3>3 DEF Fate
  <2>6. [i \in Calls |-> Fate(i)]'
          = [i \in Calls |-> IF i \in Idx(batch) THEN "running" ELSE Fates[i]]
    BY <2>1 DEF Fates
  <2>7. Contract!Launch(Idx(batch))
    BY <1>1, <1>2, <1>4, <2>2, <2>3, <2>4, <2>5, <2>6 DEF Contract!Launch, Fates, Parallel
  <2>. QED
    BY <1>2, <2>7 DEF Contract!Next
<1>. QED
  BY <1>3, <1>4

LEMMA ContractDiscard ==
  ASSUME IInv, FailureInv, NEW n \in Calls, DiscardNext(n)
  PROVE  Contract!Next
<1>1. /\ pc = "discard" /\ items[n] = "none" /\ Planned
      /\ \A j \in 1..(n - 1) : items[j] # "none"
      /\ items' = [items EXCEPT ![n] = "discarded"]
      /\ UNCHANGED <<safe, serialFallback, ctxDone>>
      /\ items \in [Calls -> ItemStates]
  BY DEF DiscardNext, Planned, params, IInv, TypeOK
<1>2. \A i \in Calls : items[i] \notin {"running", "returned"}
  BY <1>1 DEF IInv, RunInv, InFlight
<1>3. \A i \in Calls : Fate(i) # "running"
  BY <1>2 DEF Fate
<1>4. ctxDone \/ \E j \in Calls : Fate(j) = "failed"
  BY <1>1 DEF FailureInv, Fate, IInv, TypeOK
<1>5. \A j \in Calls : j < n => Fate(j) # "pending"
  <2>1. \A j \in Calls : j < n => j \in 1..(n - 1)
    BY NumCallsAssumption DEF Calls
  <2>. QED
    BY <1>1, <2>1 DEF Fate, ItemStates, Statuses
<1>6. Fate(n) = "pending" /\ Fate(n)' = "discarded"
  BY <1>1 DEF Fate
<1>7. \A i \in Calls : i # n => Fate(i)' = Fate(i)
  BY <1>1 DEF Fate
<1>8. [i \in Calls |-> Fate(i)]' = [[i \in Calls |-> Fate(i)] EXCEPT ![n] = "discarded"]
  BY <1>6, <1>7
<1>9. Contract!Discard(n)
  BY <1>1, <1>3, <1>4, <1>5, <1>6, <1>8 DEF Contract!Discard
<1>. QED
  BY <1>9 DEF Contract!Next

LEMMA ContractNext ==
  IInv /\ FailureInv /\ [Next]_vars => [Contract!Next]_Contract!vars
<1>. SUFFICES ASSUME IInv, FailureInv, [Next]_vars PROVE [Contract!Next]_Contract!vars
  OBVIOUS
<1>0. items \in [Calls -> ItemStates]
  BY DEF IInv, TypeOK
<1>1. CASE \/ Begin \/ PlanCall \/ PlanDone \/ StartBatch \/ StopOnContext
           \/ CollectEnd \/ BatchEnd \/ Finish \/ ReadEvent \/ UNCHANGED vars
  <2>1. UNCHANGED <<safe, serialFallback, ctxDone, items>>
    BY <1>1 DEF Begin, PlanCall, PlanDone, StartBatch, StopOnContext, CollectEnd,
                BatchEnd, Finish, ReadEvent, vars, params, itemVars
  <2>. QED
    BY <2>1, ContractStutter DEF Fate
<1>2. ASSUME NEW n \in Calls, NEW o \in ToolOutcomes, SerialReturn(n, o)
      PROVE  Contract!Next
  BY <1>2, StatusTypes, ContractSettle DEF SerialReturn, Record, params
<1>3. ASSUME NEW n \in Calls, NEW o \in ToolOutcomes, ConcurrentReturn(n, o)
      PROVE  UNCHANGED Contract!vars
  <2>1. \A i \in Calls : Fate(i)' = Fate(i)
    BY <1>0, <1>3 DEF ConcurrentReturn, Fate
  <2>. QED
    BY <1>3, <2>1, ContractStutter DEF ConcurrentReturn, params
<1>4. CASE Collect
  <2>. DEFINE d == Head(results)
  <2>1. /\ items' = [items EXCEPT ![d.index] = d.status]
        /\ results \in Seq(Completion) /\ results # <<>>
        /\ UNCHANGED <<safe, serialFallback, ctxDone>>
    BY <1>4 DEF Collect, Record, params, IInv, TypeOK
  <2>2. d \in Completion /\ d = results[1] /\ 1 \in DOMAIN results
    BY <2>1
  <2>3. d.index \in Calls /\ d.status \in Statuses /\ items[d.index] = "returned"
    BY <2>2 DEF Completion, IInv, ChannelInv
  <2>. HIDE DEF d
  <2>. QED
    BY <2>1, <2>3, ContractSettle
<1>5. CASE CancelContext
  <2>1. /\ UNCHANGED <<safe, serialFallback, items>> /\ ctxDone' = TRUE
        /\ \A i \in Calls : Fate(i)' = Fate(i)
    BY <1>5 DEF CancelContext, params, itemVars, Fate
  <2>2. Contract!Cancel
    BY <2>1 DEF Contract!Cancel
  <2>. QED
    BY <2>2 DEF Contract!Next
<1>. QED
  BY <1>1, <1>2, <1>3, <1>4, <1>5, ContractLaunch, ContractDiscard
     DEF Next, Runner, ToolReturn, Terminated

(***************************************************************************)
(* Every run implements BatchContract: started in order, overlapping only  *)
(* where declared safe, discarded only for a reason and to the last call.  *)
(***************************************************************************)
THEOREM ContractImplemented == Spec => ImplementsContract
BY InvInit, InvNext, FailureInit, FailureNext, ContractInit, ContractNext, PTL
   DEF Spec, ImplementsContract, Contract!Spec
-----------------------------------------------------------------------------
(* The report.                                                             *)

\* No batch is empty, and what the reason of a failure says of the items.
OutcomeInv ==
  /\ \A b \in DOMAIN plan : Idx(b) # {}
  /\ failure = "ctx" =>
       pc \in {"discard", "done"} /\ \E i \in Calls : items[i] \in Untouched
  /\ pc = "done" => \A i \in Calls : items[i] # "none"
  /\ pc = "done" /\ failure = "none" => \A i \in Calls : items[i] = "succeeded"

LEMMA OutcomeInit == Init => OutcomeInv
<1>. SUFFICES ASSUME Init PROVE OutcomeInv
  OBVIOUS
<1>1. plan = <<>> /\ failure = "none" /\ pc = "begin"
  BY DEF Init
<1>2. DOMAIN plan = {}
  BY <1>1
<1>. QED
  BY <1>1, <1>2 DEF OutcomeInv

\* A batch is appended to the plan with a call in it.
LEMMA AppendNonEmpty ==
  ASSUME NEW p \in Seq(Batch), NEW b \in Batch, b.indexes # {},
         \A k \in DOMAIN p : p[k].indexes # {}
  PROVE  \A k \in DOMAIN Append(p, b) : Append(p, b)[k].indexes # {}
<1>1. \A k \in DOMAIN Append(p, b) :
        \/ k \in DOMAIN p /\ Append(p, b)[k] = p[k]
        \/ Append(p, b)[k] = b
  OBVIOUS
<1>. QED
  BY <1>1

LEMMA FlushNonEmpty ==
  ASSUME TypeOK, OutcomeInv
  PROVE  \A k \in DOMAIN FlushCurrent : FlushCurrent[k].indexes # {}
<1>1. plan \in Seq(Batch) /\ [mode |-> "concurrent", indexes |-> current] \in Batch
  BY DEF TypeOK, Batch
<1>2. \A k \in DOMAIN plan : plan[k].indexes # {}
  BY DEF OutcomeInv, Idx
<1>. QED
  BY <1>1, <1>2, AppendNonEmpty DEF FlushCurrent

\* A run that leaves its loop at the head has collected a success from every call.
LEMMA AllDone ==
  ASSUME IInv, pc = "head", batch > Len(plan)
  PROVE  failure = "none" /\ \A i \in Calls : items[i] = "succeeded"
<1>1. Planned /\ plan \in Seq(Batch) /\ batch \in Nat
  BY DEF Planned, IInv, TypeOK
<1>2. \A b \in DOMAIN plan : b < batch
  BY <1>1
<1>3. \A i \in Calls : \E b \in DOMAIN plan : i \in Idx(b)
  BY <1>1, Locate DEF IInv
<1>. QED
  BY <1>1, <1>2, <1>3 DEF IInv, RunInv

LEMMA OutcomeNext == IInv /\ FailureInv /\ OutcomeInv /\ [Next]_vars => OutcomeInv'
<1>. SUFFICES ASSUME IInv, FailureInv, OutcomeInv, [Next]_vars PROVE OutcomeInv'
  OBVIOUS
<1>0. items \in [Calls -> ItemStates] /\ plan \in Seq(Batch) /\ TypeOK
  BY DEF IInv, TypeOK
<1>1. CASE PlanCall \/ PlanDone
  <2>1. failure' = "none" /\ pc' # "done"
    BY <1>1 DEF PlanCall, PlanDone, IInv, PlanInv, Planned
  <2>2. \A k \in DOMAIN plan' : plan'[k].indexes # {}
    <3>. DEFINE s == [mode |-> "serial", indexes |-> {planned + 1}]
    <3>1. CASE plan' = plan
      BY <3>1 DEF OutcomeInv, Idx
    <3>2. CASE plan' = FlushCurrent
      BY <1>0, <3>2, FlushNonEmpty
    <3>3. CASE PlanCall /\ plan' = Append(FlushCurrent, s)
      <4>a. planned + 1 \in Calls
        BY <3>3, NumCallsAssumption DEF PlanCall, IInv, TypeOK, Calls
      <4>1. s \in Batch /\ s.indexes # {}
        BY <4>a DEF Batch
      <4>. HIDE DEF s
      <4>. QED
        BY <1>0, <3>3, <4>1, FlushTypes, FlushNonEmpty, AppendNonEmpty
    <3>. QED
      BY <1>1, <3>1, <3>2, <3>3 DEF PlanCall, PlanDone
  <2>. QED
    BY <2>1, <2>2 DEF OutcomeInv, Idx
<1>2. CASE Begin \/ StartBatch \/ CollectEnd \/ BatchEnd
  <2>1. UNCHANGED <<items, failure, plan>> /\ pc \notin {"discard", "done"}
    BY <1>2 DEF Begin, StartBatch, CollectEnd, BatchEnd, itemVars, planVars
  <2>2. pc' # "done"
    <3>1. CASE StartBatch
      <4>1. plan[batch] \in Batch
        BY <3>1 DEF StartBatch, IInv, TypeOK
      <4>. QED
        BY <3>1, <4>1 DEF StartBatch, Batch
    <3>. QED
      BY <1>2, <3>1 DEF Begin, CollectEnd, BatchEnd
  <2>. QED
    BY <2>1, <2>2 DEF OutcomeInv, Idx
<1>3. CASE StopOnContext
  <2>1. /\ pc \in {"head", "serial"} /\ Planned /\ batch \in DOMAIN plan /\ batch \in Nat
        /\ pc' = "discard" /\ UNCHANGED <<plan, items>>
    BY <1>0, <1>3 DEF StopOnContext, Planned, IInv, RunInv, TypeOK, planVars, itemVars
  <2>2. PICK i \in Idx(batch) : i \in Calls
    BY <2>1, Locate DEF IInv, OutcomeInv
  <2>3. items[i] = "none"
    BY <2>1, <2>2 DEF IInv, RunInv
  <2>. QED
    BY <2>1, <2>2, <2>3 DEF OutcomeInv, Idx, Untouched
<1>4. CASE StartSerial \/ SpawnConcurrent
  <2>1. failure = "none" /\ UNCHANGED <<failure, plan>> /\ pc' # "done"
    BY <1>4 DEF StartSerial, SpawnConcurrent, IInv, RunInv, Planned, planVars
  <2>. QED
    BY <2>1 DEF OutcomeInv, Idx
<1>5. ASSUME NEW n \in Calls, NEW o \in ToolOutcomes, SerialReturn(n, o) PROVE OutcomeInv'
  <2>1. failure' \in {"none", "item"} /\ UNCHANGED plan /\ pc' # "done"
    BY <1>5 DEF SerialReturn, IInv, RunInv, Planned, planVars
  <2>. QED
    BY <2>1 DEF OutcomeInv, Idx
<1>6. ASSUME NEW n \in Calls, NEW o \in ToolOutcomes, ConcurrentReturn(n, o) PROVE OutcomeInv'
  BY <1>6 DEF ConcurrentReturn, OutcomeInv, Idx, planVars
<1>7. CASE Collect
  BY <1>7 DEF Collect, OutcomeInv, Idx, planVars
<1>8. ASSUME NEW n \in Calls, DiscardNext(n) PROVE OutcomeInv'
  <2>1. \A i \in Calls : items[i] \in Untouched => items'[i] \in Untouched
    BY <1>0, <1>8 DEF DiscardNext, Untouched
  <2>. QED
    BY <1>8, <2>1 DEF DiscardNext, OutcomeInv, Idx, planVars
<1>9. CASE Finish
  <2>1. pc' = "done" /\ UNCHANGED <<plan, items, failure>>
    BY <1>9 DEF Finish, planVars, itemVars
  <2>2. \A i \in Calls : items[i] # "none"
    BY <1>9, AllDone DEF Finish
  <2>3. failure = "none" => \A i \in Calls : items[i] = "succeeded"
    BY <1>9, AllDone DEF Finish, FailureInv
  <2>. QED
    BY <2>1, <2>2, <2>3 DEF OutcomeInv, Idx
<1>10. CASE CancelContext \/ ReadEvent \/ UNCHANGED vars
  <2>1. UNCHANGED <<pc, plan, items, failure>>
    BY <1>10 DEF CancelContext, ReadEvent, vars, planVars, itemVars
  <2>. QED
    BY <2>1 DEF OutcomeInv, Idx
<1>. QED
  BY <1>1, <1>2, <1>3, <1>4, <1>5, <1>6, <1>7, <1>8, <1>9, <1>10
     DEF Next, Runner, ToolReturn, Terminated

LEMMA ReportFromInv == IInv /\ FailureInv /\ OutcomeInv => ReportComplete
<1>. SUFFICES ASSUME IInv, FailureInv, OutcomeInv, pc = "done"
              PROVE  /\ \A i \in Calls : Settled(i)
                     /\ failure # "none" <=> \E i \in Calls : ItemFailed(items[i])
                     /\ failure = "ctx" => \E i \in Calls : items[i] = "discarded"
  BY DEF ReportComplete
<1>1. /\ Planned /\ items \in [Calls -> ItemStates]
      /\ failure \in {"none", "item", "ctx"}
  BY DEF Planned, IInv, TypeOK
<1>2. \A i \in Calls : items[i] \notin {"running", "returned", "none"}
  BY <1>1 DEF IInv, RunInv, InFlight, OutcomeInv
<1>3. \A i \in Calls : Settled(i)
  BY <1>1, <1>2 DEF Settled, ItemStates
<1>4. failure = "ctx" => \E i \in Calls : items[i] = "discarded"
  BY <1>2 DEF OutcomeInv, Untouched
<1>5. failure # "none" => \E i \in Calls : ItemFailed(items[i])
  BY <1>1, <1>4 DEF FailureInv, ItemFailed
<1>6. failure = "none" => \A i \in Calls : ~ItemFailed(items[i])
  BY DEF OutcomeInv, ItemFailed
<1>. QED
  BY <1>3, <1>4, <1>5, <1>6

(***************************************************************************)
(* The report of a finished run has a result for every call and carries an *)
(* error exactly when one is not a success, whatever made the run stop.    *)
(***************************************************************************)
THEOREM ReportCorrect == Spec => []ReportComplete
BY InvInit, InvNext, FailureInit, FailureNext, OutcomeInit, OutcomeNext, ReportFromInv, PTL
   DEF Spec
-----------------------------------------------------------------------------
(* The events of Stream.                                                   *)

\* One event for each call that is settled, none for the others.
OnePerCall ==
  streaming =>
    /\ \A k \in DOMAIN sent : sent[k].item \in Calls => Settled(sent[k].item)
    /\ \A i \in Calls : Settled(i) => \E k \in DOMAIN sent : sent[k].item = i
    /\ \A k, l \in DOMAIN sent :
         sent[k].item = sent[l].item /\ sent[k].item \in Calls => k = l

\* Where the event that opens the current batch has been sent.
Opened == {"serial", "serial_run", "concurrent", "collect", "batch_end"}

InsideBatch ==
  streaming =>
    /\ ~Planned => sent = <<>>
    /\ pc \in Opened => \E l \in DOMAIN sent : sent[l] = Event("batch_started", batch, 0)
    /\ \A k \in DOMAIN sent : sent[k].kind = "batch_completed" => sent[k].batch < batch
    /\ \A k \in DOMAIN sent : sent[k].kind = "item_completed" =>
         /\ \E l \in 1..(k - 1) : sent[l] = Event("batch_started", sent[k].batch, 0)
         /\ \A l \in 1..k : sent[l] # Event("batch_completed", sent[k].batch, 0)
         /\ sent[k].item \in Idx(sent[k].batch)

FinalLast ==
  streaming =>
    \A k \in DOMAIN sent : sent[k].kind = "completed" <=> (pc = "done" /\ k = Len(sent))

EventsInv == OnePerCall /\ InsideBatch /\ FinalLast

\* What one more event does to the record of the events.
LEMMA Appended ==
  ASSUME TypeOK, NEW e \in EventRecord, sent' = Append(sent, e)
  PROVE  /\ Len(sent) \in Nat /\ Len(sent') = Len(sent) + 1
         /\ DOMAIN sent = 1..Len(sent) /\ DOMAIN sent' = 1..(Len(sent) + 1)
         /\ \A k \in DOMAIN sent : sent'[k] = sent[k]
         /\ sent'[Len(sent) + 1] = e
         /\ \A k \in DOMAIN sent' : k \in DOMAIN sent \/ k = Len(sent) + 1
<1>1. sent \in Seq(EventRecord)
  BY DEF TypeOK
<1>. QED
  BY <1>1

\* The event a step sends, if it sends one.
Spoken(e) == e \in EventRecord /\ (streaming => sent' = Append(sent, e))

LEMMA CollectSettles ==
  ASSUME IInv, Collect
  PROVE  \E n \in Idx(batch) :
           /\ n \in Calls /\ ~Settled(n) /\ Settled(n)'
           /\ \A i \in Calls : i # n => items'[i] = items[i]
           /\ Spoken(Event("item_completed", batch, n))
<1>. DEFINE d == Head(results)
<1>1. /\ items' = [items EXCEPT ![d.index] = d.status]
      /\ results \in Seq(Completion) /\ results # <<>>
      /\ items \in [Calls -> ItemStates] /\ batch \in Nat
      /\ streaming => sent' = Append(sent, Event("item_completed", batch, d.index))
  BY DEF Collect, Record, Emit, IInv, TypeOK
<1>2. d \in Completion /\ d = results[1] /\ 1 \in DOMAIN results
  BY <1>1
<1>3. /\ d.index \in Calls /\ d.status \in Statuses /\ items[d.index] = "returned"
      /\ d.index \in Idx(batch)
  BY <1>2 DEF Completion, IInv, ChannelInv
<1>4. Event("item_completed", batch, d.index) \in EventRecord
  BY <1>1, <1>3 DEF Event, EventRecord, EventKinds, Calls
<1>. HIDE DEF d
<1>5. PICK n \in Calls : n = d.index
  BY <1>3
<1>6. ~Settled(n) /\ Settled(n)'
  BY <1>1, <1>3, <1>5 DEF Settled, Statuses
<1>. QED
  BY <1>1, <1>3, <1>4, <1>5, <1>6 DEF Spoken

LEMMA SerialSettles ==
  ASSUME IInv, NEW n \in Calls, NEW o \in ToolOutcomes, SerialReturn(n, o)
  PROVE  /\ n \in Idx(batch) /\ ~Settled(n) /\ Settled(n)'
         /\ \A i \in Calls : i # n => items'[i] = items[i]
         /\ Spoken(Event("item_completed", batch, n))
<1>1. /\ pc = "serial_run" /\ Planned /\ items[n] = "running"
      /\ items' = [items EXCEPT ![n] = ResultStatus(o)]
      /\ items \in [Calls -> ItemStates] /\ batch \in Nat
      /\ streaming => sent' = Append(sent, Event("item_completed", batch, n))
  BY DEF SerialReturn, Record, Emit, IInv, TypeOK, Planned
<1>2. n \in Idx(batch)
  <2>1. PICK b \in DOMAIN plan : n \in Idx(b)
    BY <1>1, Locate DEF IInv
  <2>2. b \in Nat
    BY DEF IInv, TypeOK
  <2>. QED
    BY <1>1, <2>1, <2>2 DEF IInv, RunInv, Untouched
<1>3. Event("item_completed", batch, n) \in EventRecord
  BY <1>1 DEF Event, EventRecord, EventKinds, Calls
<1>4. ~Settled(n) /\ Settled(n)'
  BY <1>1, StatusTypes DEF Settled, Statuses
<1>. QED
  BY <1>1, <1>2, <1>3, <1>4 DEF Spoken

LEMMA DiscardSettles ==
  ASSUME IInv, NEW n \in Calls, DiscardNext(n)
  PROVE  /\ ~Settled(n) /\ Settled(n)'
         /\ \A i \in Calls : i # n => items'[i] = items[i]
         /\ Spoken(Event("item_discarded", 0, n))
<1>1. /\ items[n] = "none" /\ items' = [items EXCEPT ![n] = "discarded"]
      /\ items \in [Calls -> ItemStates]
      /\ streaming => sent' = Append(sent, Event("item_discarded", 0, n))
  BY DEF DiscardNext, Emit, IInv, TypeOK
<1>2. Event("item_discarded", 0, n) \in EventRecord
  BY DEF Event, EventRecord, EventKinds, Calls
<1>. QED
  BY <1>1, <1>2 DEF Settled, Statuses, Spoken

LEMMA MarkSpoken ==
  ASSUME IInv, StartBatch \/ BatchEnd \/ Finish
  PROVE  /\ StartBatch => Spoken(Event("batch_started", batch, 0))
         /\ BatchEnd => Spoken(Event("batch_completed", batch, 0))
         /\ Finish => Spoken(Event("completed", 0, 0))
         /\ UNCHANGED <<items, plan>>
<1>1. batch \in Nat
  BY DEF IInv, TypeOK
<1>. QED
  BY <1>1 DEF StartBatch, BatchEnd, Finish, Emit, Spoken, Event, EventRecord, EventKinds,
              itemVars, planVars

\* Steps that send nothing.
Silent ==
  \/ Begin \/ PlanCall \/ PlanDone \/ StopOnContext \/ StartSerial \/ SpawnConcurrent
  \/ CollectEnd
  \/ \E i \in Calls, o \in ToolOutcomes : ConcurrentReturn(i, o)
  \/ CancelContext \/ ReadEvent \/ UNCHANGED vars

LEMMA SilentSettled ==
  ASSUME IInv, Silent
  PROVE  sent' = sent /\ \A i \in Calls : Settled(i)' <=> Settled(i)
<1>0. items \in [Calls -> ItemStates]
  BY DEF IInv, TypeOK
<1>1. sent' = sent
  BY DEF Silent, Begin, PlanCall, PlanDone, StopOnContext, StartSerial, SpawnConcurrent,
         CollectEnd, ConcurrentReturn, CancelContext, ReadEvent, vars, eventVars
<1>2. CASE StartSerial \/ SpawnConcurrent
  <2>1. /\ Planned /\ batch \in DOMAIN plan /\ batch \in Nat
        /\ pc \in {"serial", "concurrent"}
        /\ items' = [i \in Calls |-> IF i \in Idx(batch) THEN "running" ELSE items[i]]
    BY <1>2 DEF StartSerial, SpawnConcurrent, Planned, IInv, RunInv, TypeOK, Idx
  <2>2. \A i \in Idx(batch) : items[i] = "none"
    BY <2>1 DEF IInv, RunInv
  <2>. QED
    BY <1>1, <2>1, <2>2 DEF Settled, Statuses
<1>3. ASSUME NEW n \in Calls, NEW o \in ToolOutcomes, ConcurrentReturn(n, o)
      PROVE  \A i \in Calls : Settled(i)' <=> Settled(i)
  BY <1>0, <1>3 DEF ConcurrentReturn, Settled, Statuses
<1>4. CASE UNCHANGED items
  BY <1>1, <1>4 DEF Settled
<1>. QED
  BY <1>1, <1>2, <1>3, <1>4
     DEF Silent, Begin, PlanCall, PlanDone, StopOnContext, CollectEnd, CancelContext,
         ReadEvent, vars, itemVars

\* Every step is silent, marks the course of the run or settles one call.
LEMMA StepKinds ==
  ASSUME [Next]_vars
  PROVE  \/ Silent \/ StartBatch \/ BatchEnd \/ Finish \/ Collect
         \/ \E n \in Calls, o \in ToolOutcomes : SerialReturn(n, o)
         \/ \E n \in Calls : DiscardNext(n)
BY DEF Silent, Next, Runner, ToolReturn, Terminated

LEMMA OneSettles ==
  ASSUME TypeOK, OnePerCall, streaming, streaming', NEW e \in EventRecord,
         sent' = Append(sent, e), e.item \in Calls,
         ~Settled(e.item), Settled(e.item)',
         \A i \in Calls : i # e.item => items'[i] = items[i]
  PROVE  OnePerCall'
<1>1. \A i \in Calls : i # e.item => (Settled(i)' <=> Settled(i))
  BY DEF Settled
<1>2. \A k \in DOMAIN sent : sent[k].item # e.item
  BY DEF OnePerCall
<1>3. \A k \in DOMAIN sent', i \in Calls : sent'[k].item = i => Settled(i)'
  BY <1>1, <1>2, Appended DEF OnePerCall
<1>4. \A i \in Calls : Settled(i)' => \E k \in DOMAIN sent' : sent'[k].item = i
  <2>1. SUFFICES ASSUME NEW i \in Calls, Settled(i)'
                 PROVE  \E k \in DOMAIN sent' : sent'[k].item = i
    OBVIOUS
  <2>2. CASE i = e.item
    <3>1. Len(sent) + 1 \in DOMAIN sent' /\ sent'[Len(sent) + 1] = e
      BY Appended
    <3>. QED
      BY <2>2, <3>1
  <2>3. CASE i # e.item
    <3>1. PICK k \in DOMAIN sent : sent[k].item = i
      BY <1>1, <2>1, <2>3 DEF OnePerCall
    <3>2. k \in DOMAIN sent' /\ sent'[k] = sent[k]
      BY Appended
    <3>. QED
      BY <3>1, <3>2
  <2>. QED
    BY <2>2, <2>3
<1>5. \A k, l \in DOMAIN sent' :
        sent'[k].item = sent'[l].item /\ sent'[k].item \in Calls => k = l
  BY <1>2, Appended DEF OnePerCall
<1>. QED
  BY <1>3, <1>4, <1>5 DEF OnePerCall

LEMMA OneMarks ==
  ASSUME TypeOK, OnePerCall, streaming, streaming', NEW e \in EventRecord,
         sent' = Append(sent, e), e.item = 0, items' = items
  PROVE  OnePerCall'
<1>1. \A i \in Calls : Settled(i)' <=> Settled(i)
  BY DEF Settled
<1>2. e.item \notin Calls
  BY DEF Calls
<1>3. \A k \in DOMAIN sent', i \in Calls : sent'[k].item = i => Settled(i)'
  BY <1>1, <1>2, Appended DEF OnePerCall
<1>4. \A i \in Calls : Settled(i)' => \E k \in DOMAIN sent' : sent'[k].item = i
  <2>1. SUFFICES ASSUME NEW i \in Calls, Settled(i)'
                 PROVE  \E k \in DOMAIN sent' : sent'[k].item = i
    OBVIOUS
  <2>2. PICK k \in DOMAIN sent : sent[k].item = i
    BY <1>1, <2>1 DEF OnePerCall
  <2>3. k \in DOMAIN sent' /\ sent'[k] = sent[k]
    BY Appended
  <2>. QED
    BY <2>2, <2>3
<1>5. \A k, l \in DOMAIN sent' :
        sent'[k].item = sent'[l].item /\ sent'[k].item \in Calls => k = l
  BY <1>2, Appended DEF OnePerCall
<1>. QED
  BY <1>3, <1>4, <1>5 DEF OnePerCall

LEMMA OneNext == IInv /\ OnePerCall /\ [Next]_vars => OnePerCall'
<1>. SUFFICES ASSUME IInv, OnePerCall, [Next]_vars PROVE OnePerCall'
  OBVIOUS
<1>0. TypeOK /\ streaming' = streaming
  BY DEF IInv, Next, Runner, ToolReturn, Terminated, Begin, PlanCall, PlanDone, StartBatch,
         StopOnContext, StartSerial, SpawnConcurrent, Collect, CollectEnd, BatchEnd,
         DiscardNext, Finish, SerialReturn, ConcurrentReturn, CancelContext, ReadEvent,
         vars, params
<1>1. CASE ~streaming
  BY <1>0, <1>1 DEF OnePerCall
<1>2. CASE streaming
  <2>1. CASE Silent
    BY <1>0, <1>2, <2>1, SilentSettled DEF OnePerCall
  <2>2. CASE StartBatch \/ BatchEnd \/ Finish
    <3>1. PICK e \in EventRecord : e.item = 0 /\ sent' = Append(sent, e)
      BY <1>2, <2>2, MarkSpoken DEF Spoken, Event
    <3>. QED
      BY <1>0, <1>2, <2>2, <3>1, MarkSpoken, OneMarks
  <2>3. ASSUME \E n \in Calls, e \in EventRecord :
                 /\ e.item = n /\ sent' = Append(sent, e)
                 /\ ~Settled(n) /\ Settled(n)'
                 /\ \A i \in Calls : i # n => items'[i] = items[i]
        PROVE  OnePerCall'
    BY <1>0, <1>2, <2>3, OneSettles
  <2>4. CASE Collect
    BY <1>2, <2>3, <2>4, CollectSettles DEF Spoken, Event
  <2>5. ASSUME NEW n \in Calls, NEW o \in ToolOutcomes, SerialReturn(n, o) PROVE OnePerCall'
    BY <1>2, <2>3, <2>5, SerialSettles DEF Spoken, Event
  <2>6. ASSUME NEW n \in Calls, DiscardNext(n) PROVE OnePerCall'
    BY <1>2, <2>3, <2>6, DiscardSettles DEF Spoken, Event
  <2>. QED
    BY <2>1, <2>2, <2>4, <2>5, <2>6, StepKinds
<1>. QED
  BY <1>0, <1>1, <1>2 DEF IInv, TypeOK

\* One more event, said where the run stands, keeps the batches apart.
LEMMA InsideSpeaks ==
  ASSUME TypeOK, InsideBatch, streaming, Planned, Planned', plan' = plan,
         NEW e \in EventRecord, sent' = Append(sent, e),
         batch' = batch \/ batch' = batch + 1,
         pc' \in Opened => \/ e = Event("batch_started", batch', 0)
                           \/ pc \in Opened /\ batch' = batch,
         e.kind = "batch_completed" => e.batch < batch',
         e.kind = "item_completed" => pc \in Opened /\ e.batch = batch /\ e.item \in Idx(batch)
  PROVE  InsideBatch'
<1>. DEFINE m == Len(sent) + 1
<1>1. /\ batch \in Nat /\ m \in Nat /\ \A k \in DOMAIN sent : k \in Nat /\ sent[k].batch \in Nat
      /\ \A k \in DOMAIN sent : k < m /\ 1..k \subseteq DOMAIN sent
  <2>1. sent \in Seq(EventRecord) /\ batch \in Nat
    BY DEF TypeOK
  <2>2. \A k \in DOMAIN sent : sent[k] \in EventRecord
    BY <2>1
  <2>. QED
    BY <2>1, <2>2 DEF EventRecord
<1>2. /\ DOMAIN sent = 1..(m - 1) /\ DOMAIN sent' = 1..m /\ sent'[m] = e
      /\ \A k \in DOMAIN sent : k \in DOMAIN sent' /\ sent'[k] = sent[k]
      /\ \A k \in DOMAIN sent' : k \in DOMAIN sent \/ k = m
  BY Appended
<1>. HIDE DEF m
<1>3. pc' \in Opened => \E l \in DOMAIN sent' : sent'[l] = Event("batch_started", batch', 0)
  <2>1. CASE e = Event("batch_started", batch', 0)
    BY <1>1, <1>2, <2>1
  <2>2. CASE pc \in Opened /\ batch' = batch
    BY <1>2, <2>2 DEF InsideBatch
  <2>. QED
    BY <2>1, <2>2
<1>4. \A k \in DOMAIN sent' : sent'[k].kind = "batch_completed" => sent'[k].batch < batch'
  <2>1. ASSUME NEW k \in DOMAIN sent, sent[k].kind = "batch_completed"
        PROVE  sent[k].batch < batch'
    BY <1>1, <2>1 DEF InsideBatch
  <2>. QED
    BY <1>2, <2>1
<1>5. ASSUME NEW k \in DOMAIN sent', sent'[k].kind = "item_completed"
      PROVE  /\ \E l \in 1..(k - 1) : sent'[l] = Event("batch_started", sent'[k].batch, 0)
             /\ \A l \in 1..k : sent'[l] # Event("batch_completed", sent'[k].batch, 0)
             /\ sent'[k].item \in plan[sent'[k].batch].indexes
  <2>1. CASE k \in DOMAIN sent
    <3>1. /\ sent[k].kind = "item_completed" /\ sent'[k] = sent[k]
          /\ \A l \in 1..k : sent'[l] = sent[l]
          /\ \A l \in 1..(k - 1) : l \in 1..k
      BY <1>1, <1>2, <1>5, <2>1
    <3>. QED
      BY <2>1, <3>1 DEF InsideBatch, Idx
  <2>2. CASE k = m
    <3>1. sent'[k] = e /\ e.kind = "item_completed" /\ e.batch = batch /\ pc \in Opened
          /\ e.item \in Idx(batch)
      BY <1>2, <1>5, <2>2
    <3>2. PICK l \in DOMAIN sent : sent[l] = Event("batch_started", batch, 0)
      BY <3>1 DEF InsideBatch
    <3>3. l \in 1..(k - 1) /\ sent'[l] = sent[l]
      BY <1>2, <2>2
    <3>4. ASSUME NEW n \in 1..k, sent'[n] = Event("batch_completed", batch, 0) PROVE FALSE
      <4>1. sent'[n].kind = "batch_completed" /\ sent'[n].batch = batch /\ n # m
        BY <2>2, <3>1, <3>4 DEF Event
      <4>2. n \in DOMAIN sent /\ sent'[n] = sent[n]
        BY <1>2, <2>2, <4>1
      <4>. QED
        BY <1>1, <4>1, <4>2 DEF InsideBatch
    <3>. QED
      BY <3>1, <3>2, <3>3, <3>4 DEF Idx
  <2>. QED
    BY <1>2, <2>1, <2>2
<1>. QED
  BY <1>3, <1>4, <1>5 DEF InsideBatch, Idx

LEMMA InsideSilent ==
  ASSUME IInv, InsideBatch, Silent
  PROVE  InsideBatch'
<1>0. sent' = sent /\ streaming' = streaming
  BY SilentSettled
     DEF Silent, Begin, PlanCall, PlanDone, StopOnContext, StartSerial, SpawnConcurrent,
         CollectEnd, ConcurrentReturn, CancelContext, ReadEvent, vars, params
<1>1. CASE Begin \/ PlanCall \/ PlanDone
  <2>1. ~Planned /\ pc' \notin Opened
    BY <1>1 DEF Begin, PlanCall, PlanDone, Planned, Opened
  <2>2. CASE streaming
    <3>1. sent = <<>>
      BY <2>1, <2>2 DEF InsideBatch
    <3>2. DOMAIN sent = {}
      BY <3>1
    <3>. QED
      BY <1>0, <2>1, <3>1, <3>2 DEF InsideBatch
  <2>. QED
    BY <1>0, <2>2 DEF InsideBatch
<1>2. ASSUME UNCHANGED <<plan, batch>>, Planned' <=> Planned,
             pc' \in Opened => pc \in Opened
      PROVE  InsideBatch'
  BY <1>0, <1>2 DEF InsideBatch, Idx
<1>3. CASE \/ StopOnContext \/ StartSerial \/ SpawnConcurrent \/ CollectEnd
           \/ CancelContext \/ ReadEvent \/ UNCHANGED vars
  BY <1>2, <1>3 DEF StopOnContext, StartSerial, SpawnConcurrent, CollectEnd, CancelContext,
                    ReadEvent, vars, planVars, Planned, Opened
<1>4. ASSUME NEW n \in Calls, NEW o \in ToolOutcomes, ConcurrentReturn(n, o) PROVE InsideBatch'
  BY <1>2, <1>4 DEF ConcurrentReturn, planVars, Planned, Opened
<1>. QED
  BY <1>1, <1>3, <1>4 DEF Silent

LEMMA InsideNext == IInv /\ InsideBatch /\ [Next]_vars => InsideBatch'
<1>. SUFFICES ASSUME IInv, InsideBatch, [Next]_vars PROVE InsideBatch'
  OBVIOUS
<1>0. TypeOK /\ batch \in Nat /\ streaming' = streaming
  BY DEF IInv, TypeOK, Next, Runner, ToolReturn, Terminated, Begin, PlanCall, PlanDone,
         StartBatch, StopOnContext, StartSerial, SpawnConcurrent, Collect, CollectEnd,
         BatchEnd, DiscardNext, Finish, SerialReturn, ConcurrentReturn, CancelContext,
         ReadEvent, vars, params
<1>1. CASE ~streaming
  BY <1>0, <1>1 DEF InsideBatch
<1>2. CASE streaming
  <2>1. CASE StartBatch
    <3>. DEFINE e == Event("batch_started", batch, 0)
    <3>1. Spoken(e) /\ plan' = plan
      BY <2>1, MarkSpoken
    <3>2. plan[batch] \in Batch /\ pc = "head" /\ pc' = plan[batch].mode /\ batch' = batch
      BY <2>1 DEF StartBatch, IInv, TypeOK
    <3>3. Planned /\ Planned'
      BY <3>2 DEF Planned, Batch
    <3>4. e.kind = "batch_started"
      BY DEF Event
    <3>. QED
      BY <1>0, <1>2, <3>1, <3>2, <3>3, <3>4, InsideSpeaks DEF Spoken
  <2>2. CASE BatchEnd
    <3>. DEFINE e == Event("batch_completed", batch, 0)
    <3>1. Spoken(e) /\ plan' = plan
      BY <2>2, MarkSpoken
    <3>2. /\ pc = "batch_end" /\ pc' = "head" /\ batch' = batch + 1
          /\ Planned /\ Planned' /\ pc' \notin Opened
      BY <2>2 DEF BatchEnd, Planned, Opened
    <3>3. e.kind = "batch_completed" /\ e.batch = batch /\ e.batch < batch'
      BY <1>0, <3>2 DEF Event
    <3>. QED
      BY <1>0, <1>2, <3>1, <3>2, <3>3, InsideSpeaks DEF Spoken
  <2>3. CASE Finish
    <3>. DEFINE e == Event("completed", 0, 0)
    <3>1. Spoken(e) /\ plan' = plan
      BY <2>3, MarkSpoken
    <3>2. batch' = batch /\ Planned /\ Planned' /\ pc' \notin Opened
      BY <2>3 DEF Finish, Planned, Opened
    <3>3. e.kind = "completed"
      BY DEF Event
    <3>. QED
      BY <1>0, <1>2, <3>1, <3>2, <3>3, InsideSpeaks DEF Spoken
  <2>4. ASSUME NEW n \in Calls, DiscardNext(n) PROVE InsideBatch'
    <3>. DEFINE e == Event("item_discarded", 0, n)
    <3>1. Spoken(e) /\ plan' = plan
      BY <2>4, DiscardSettles DEF DiscardNext, planVars
    <3>2. batch' = batch /\ Planned /\ Planned' /\ pc' \notin Opened
      BY <2>4 DEF DiscardNext, Planned, Opened
    <3>3. e.kind = "item_discarded"
      BY DEF Event
    <3>. QED
      BY <1>0, <1>2, <3>1, <3>2, <3>3, InsideSpeaks DEF Spoken
  <2>5. ASSUME NEW n \in Idx(batch), Spoken(Event("item_completed", batch, n)),
               pc \in Opened, Planned, Planned', UNCHANGED <<plan, batch>>
        PROVE  InsideBatch'
    <3>. DEFINE e == Event("item_completed", batch, n)
    <3>1. e.kind = "item_completed" /\ e.batch = batch /\ e.item = n
      BY DEF Event
    <3>. QED
      BY <1>0, <1>2, <2>5, <3>1, InsideSpeaks DEF Spoken
  <2>6. CASE Collect
    BY <2>5, <2>6, CollectSettles DEF Collect, planVars, Planned, Opened
  <2>7. ASSUME NEW n \in Calls, NEW o \in ToolOutcomes, SerialReturn(n, o) PROVE InsideBatch'
    BY <2>5, <2>7, SerialSettles DEF SerialReturn, planVars, Planned, Opened
  <2>. QED
    BY <2>1, <2>2, <2>3, <2>4, <2>6, <2>7, InsideSilent, StepKinds
<1>. QED
  BY <1>0, <1>1, <1>2 DEF IInv, TypeOK

LEMMA FinalSpeaks ==
  ASSUME TypeOK, FinalLast, streaming, pc # "done",
         NEW e \in EventRecord, sent' = Append(sent, e),
         e.kind = "completed" <=> pc' = "done"
  PROVE  FinalLast'
BY Appended DEF FinalLast

LEMMA FinalNext == IInv /\ FinalLast /\ [Next]_vars => FinalLast'
<1>. SUFFICES ASSUME IInv, FinalLast, [Next]_vars PROVE FinalLast'
  OBVIOUS
<1>0. TypeOK /\ streaming' = streaming
  BY DEF IInv, Next, Runner, ToolReturn, Terminated, Begin, PlanCall, PlanDone, StartBatch,
         StopOnContext, StartSerial, SpawnConcurrent, Collect, CollectEnd, BatchEnd,
         DiscardNext, Finish, SerialReturn, ConcurrentReturn, CancelContext, ReadEvent,
         vars, params
<1>1. CASE ~streaming
  BY <1>0, <1>1 DEF FinalLast
<1>2. CASE streaming
  <2>1. CASE Silent
    <3>1. pc' = "done" <=> pc = "done"
      BY <2>1 DEF Silent, Begin, PlanCall, PlanDone, StopOnContext, StartSerial,
                  SpawnConcurrent, CollectEnd, ConcurrentReturn, CancelContext, ReadEvent, vars
    <3>. QED
      BY <1>0, <2>1, <3>1, SilentSettled DEF FinalLast
  <2>2. CASE StartBatch
    <3>1. plan[batch] \in Batch
      BY <2>2 DEF StartBatch, IInv, TypeOK
    <3>2. pc # "done" /\ pc' # "done"
      BY <2>2, <3>1 DEF StartBatch, Batch
    <3>. QED
      BY <1>0, <1>2, <2>2, <3>2, MarkSpoken, FinalSpeaks DEF Spoken, Event
  <2>3. CASE BatchEnd
    <3>1. pc # "done" /\ pc' # "done"
      BY <2>3 DEF BatchEnd
    <3>. QED
      BY <1>0, <1>2, <2>3, <3>1, MarkSpoken, FinalSpeaks DEF Spoken, Event
  <2>4. CASE Finish
    <3>1. pc # "done" /\ pc' = "done"
      BY <2>4 DEF Finish
    <3>. QED
      BY <1>0, <1>2, <2>4, <3>1, MarkSpoken, FinalSpeaks DEF Spoken, Event
  <2>5. CASE Collect
    <3>1. pc # "done" /\ pc' # "done"
      BY <2>5 DEF Collect
    <3>. QED
      BY <1>0, <1>2, <2>5, <3>1, CollectSettles, FinalSpeaks DEF Spoken, Event
  <2>6. ASSUME NEW n \in Calls, NEW o \in ToolOutcomes, SerialReturn(n, o) PROVE FinalLast'
    <3>1. pc # "done" /\ pc' # "done"
      BY <2>6 DEF SerialReturn
    <3>. QED
      BY <1>0, <1>2, <2>6, <3>1, SerialSettles, FinalSpeaks DEF Spoken, Event
  <2>7. ASSUME NEW n \in Calls, DiscardNext(n) PROVE FinalLast'
    <3>1. pc # "done" /\ pc' # "done"
      BY <2>7 DEF DiscardNext
    <3>. QED
      BY <1>0, <1>2, <2>7, <3>1, DiscardSettles, FinalSpeaks DEF Spoken, Event
  <2>. QED
    BY <2>1, <2>2, <2>3, <2>4, <2>5, <2>6, <2>7, StepKinds
<1>. QED
  BY <1>0, <1>1, <1>2 DEF IInv, TypeOK

LEMMA EventsInit == Init => EventsInv
<1>. SUFFICES ASSUME Init PROVE EventsInv
  OBVIOUS
<1>1. /\ sent = <<>> /\ pc = "begin"
      /\ \A i \in Calls : items[i] = "none"
  BY DEF Init
<1>2. DOMAIN sent = {}
  BY <1>1
<1>. QED
  BY <1>1, <1>2 DEF EventsInv, OnePerCall, InsideBatch, FinalLast, Settled, Statuses, Opened

LEMMA EventsNext == IInv /\ EventsInv /\ [Next]_vars => EventsInv'
BY OneNext, InsideNext, FinalNext DEF EventsInv

LEMMA StoryFromInv == IInv /\ EventsInv => EventsTellTheRun
<1>. SUFFICES ASSUME IInv, EventsInv, streaming
              PROVE  /\ \A i \in Calls :
                          Cardinality({k \in DOMAIN sent : sent[k].item = i})
                            = (IF Settled(i) THEN 1 ELSE 0)
                     /\ \A k \in DOMAIN sent : sent[k].kind = "item_completed" =>
                          /\ \E l \in 1..(k - 1) : sent[l] = Event("batch_started", sent[k].batch, 0)
                          /\ Event("batch_completed", sent[k].batch, 0) \notin {sent[l] : l \in 1..k}
                          /\ sent[k].item \in plan[sent[k].batch].indexes
                     /\ \A k \in DOMAIN sent :
                          sent[k].kind = "completed" <=> (pc = "done" /\ k = Len(sent))
  BY DEF EventsTellTheRun
<1>1. ASSUME NEW i \in Calls
      PROVE  Cardinality({k \in DOMAIN sent : sent[k].item = i})
               = (IF Settled(i) THEN 1 ELSE 0)
  <2>. DEFINE E == {k \in DOMAIN sent : sent[k].item = i}
  <2>1. CASE Settled(i)
    <3>1. PICK k \in DOMAIN sent : sent[k].item = i
      BY <2>1 DEF EventsInv, OnePerCall
    <3>2. E = {k}
      BY <3>1 DEF EventsInv, OnePerCall
    <3>3. Cardinality({k}) = 1
      BY FS_Singleton
    <3>. QED
      BY <2>1, <3>2, <3>3
  <2>2. CASE ~Settled(i)
    <3>1. E = {}
      BY <2>2 DEF EventsInv, OnePerCall
    <3>2. Cardinality({}) = 0
      BY FS_EmptySet
    <3>. QED
      BY <2>2, <3>1, <3>2
  <2>. QED
    BY <2>1, <2>2
<1>. QED
  BY <1>1 DEF EventsInv, InsideBatch, FinalLast, Idx

(***************************************************************************)
(* Stream's events tell the run as it went: one for each call settled, a   *)
(* completion only between the events of its batch, nothing after the      *)
(* final one; for any plan and any order the tools come back in.           *)
(***************************************************************************)
THEOREM StoryCorrect == Spec => []EventsTellTheRun
BY InvInit, InvNext, EventsInit, EventsNext, StoryFromInv, PTL DEF Spec
=============================================================================
