-------------------------- MODULE TurnEngineProofs --------------------------
(***************************************************************************)
(* Proofs about TurnEngine for any number of passes, calls, events and any *)
(* channel capacity: types, the numbering of the events, the finalizer's   *)
(* report, the stream the reader is promised, the conversation handed to   *)
(* the next request and what a completed turn has answered.                *)
(*                                                                         *)
(* Numbers relates sequence to the events, PlaceInv and StreamInv relate   *)
(* the program counter to who is emitting and to what was emitted; TalkInv *)
(* and OweInv add the calls a live turn still owes a result, AnnounceInv   *)
(* that tools run only once the turn has announced a call.                 *)
(***************************************************************************)
EXTENDS TurnEngine, SequenceTheorems, TLAPS

-----------------------------------------------------------------------------
(* The numbering.  While the turn is live, sequence counts the events that *)
(* were sent and the one being sent under emitMu.                          *)

Numbers ==
  /\ \A p, q \in Emitters : sending[p] # NoEvent /\ sending[q] # NoEvent => p = q
  /\ \A p \in Emitters : sending[p] # NoEvent =>
       sending[p].seq = Len(emitted) /\ sending[p].kind \in Kinds /\ sending[p].by = p
  /\ ~ctxDone /\ MutexFree => sequence = Len(emitted)
  /\ ~ctxDone /\ ~MutexFree => sequence = Len(emitted) + 1
  /\ SequenceDense

EmitTypes ==
  /\ sending \in [Emitters -> Event]
  /\ sequence \in Nat /\ emitted \in Seq(Event)
  /\ taken \in 0..Len(emitted)
  /\ Len(emitted) - taken <= OutCap

\* A step that leaves the emit closure alone.
LEMMA QuietStep ==
  ASSUME EmitTypes, Numbers, UNCHANGED emitVars,
         taken' = taken, ctxDone => ctxDone'
  PROVE  EmitTypes' /\ Numbers'
<1>1. sending' = sending /\ sequence' = sequence /\ emitted' = emitted
  BY DEF emitVars
<1>2. EmitTypes'
  BY <1>1 DEF EmitTypes
<1>3. MutexFree' = MutexFree /\ SequenceDense' = SequenceDense
  BY <1>1 DEF MutexFree, SequenceDense
<1>. QED
  BY <1>1, <1>2, <1>3 DEF Numbers

LEMMA EnterStep ==
  ASSUME EmitTypes, Numbers,
         NEW p \in Emitters, NEW kind \in Kinds, NEW call \in Nat,
         EnterEmit(p, kind, call), taken' = taken, ctxDone' = ctxDone
  PROVE  EmitTypes' /\ Numbers'
<1>. DEFINE e == [kind |-> kind, call |-> call, by |-> p, seq |-> sequence]
<1>1. /\ MutexFree /\ sequence' = sequence + 1 /\ emitted' = emitted
      /\ sending' = IF ctxDone THEN sending ELSE [sending EXCEPT ![p] = e]
  BY DEF EnterEmit
<1>2. e \in Event /\ e.kind = kind /\ e.by = p /\ e.seq = sequence
  BY DEF EmitTypes, Event
<1>3. e # NoEvent
  <2>1. kind # "none" /\ NoEvent.kind = "none"
    BY DEF Kinds, Terminal, NoEvent
  <2>. QED
    BY <1>2, <2>1
<1>. HIDE DEF e
<1>4. EmitTypes'
  BY <1>1, <1>2 DEF EmitTypes
<1>5. SequenceDense'
  BY <1>1 DEF Numbers, SequenceDense
<1>6. CASE ctxDone
  <2>1. sending' = sending
    BY <1>1, <1>6
  <2>. QED
    BY <1>1, <1>4, <1>5, <1>6, <2>1 DEF Numbers, MutexFree
<1>7. CASE ~ctxDone
  <2>1. sending' = [sending EXCEPT ![p] = e]
    BY <1>1, <1>7
  <2>2. sending'[p] = e /\ \A q \in Emitters : q # p => sending'[q] = NoEvent
    BY <1>1, <2>1 DEF EmitTypes, MutexFree
  <2>3. ~MutexFree'
    BY <1>3, <2>2 DEF MutexFree
  <2>4. sequence = Len(emitted) /\ sequence' = Len(emitted') + 1
    BY <1>1, <1>7 DEF Numbers
  <2>. QED
    BY <1>1, <1>2, <1>4, <1>5, <2>2, <2>3, <2>4 DEF Numbers
<1>. QED
  BY <1>6, <1>7

\* The event that leaves takes the place its number says.
LEMMA SendStep ==
  ASSUME EmitTypes, Numbers, NEW p \in Emitters, EmitSend(p)
  PROVE  EmitTypes' /\ Numbers'
<1>1. /\ sending[p] # NoEvent
      /\ emitted' = Append(emitted, sending[p])
      /\ sending' = [sending EXCEPT ![p] = NoEvent]
      /\ sequence' = sequence /\ ctxDone' = ctxDone /\ taken' = taken
      /\ Len(emitted) - taken < OutCap
  BY DEF EmitSend, Room, callerVars
<1>2. sending[p] \in Event /\ NoEvent \in Event
  BY DEF EmitTypes, Event, NoEvent, Emitters
<1>3. emitted \in Seq(Event) /\ taken \in 0..Len(emitted)
  BY DEF EmitTypes
<1>4. /\ emitted' \in Seq(Event) /\ Len(emitted') = Len(emitted) + 1
      /\ emitted'[Len(emitted) + 1] = sending[p]
      /\ \A k \in 1..Len(emitted) : emitted'[k] = emitted[k]
  BY <1>1, <1>2, <1>3
<1>5. EmitTypes'
  BY <1>1, <1>2, <1>3, <1>4, BoundsAssumption DEF EmitTypes
<1>6. \A q \in Emitters : sending'[q] = NoEvent
  BY <1>1 DEF EmitTypes, Numbers
<1>7. MutexFree' /\ ~MutexFree
  BY <1>1, <1>6 DEF MutexFree
<1>8. SequenceDense'
  <2>. SUFFICES ASSUME NEW k \in DOMAIN emitted' PROVE emitted'[k].seq + 1 = k
    BY DEF SequenceDense
  <2>1. sending[p].seq = Len(emitted) /\ k \in 1..(Len(emitted) + 1)
    BY <1>1, <1>3, <1>4 DEF Numbers
  <2>2. CASE k \in 1..Len(emitted)
    BY <1>3, <1>4, <2>2 DEF Numbers, SequenceDense
  <2>3. CASE k = Len(emitted) + 1
    BY <1>4, <2>1, <2>3
  <2>. QED
    BY <1>3, <2>1, <2>2, <2>3
<1>9. ~ctxDone => sequence' = Len(emitted')
  BY <1>1, <1>4, <1>7 DEF Numbers
<1>. QED
  BY <1>1, <1>5, <1>6, <1>7, <1>8, <1>9 DEF Numbers

LEMMA AbortStep ==
  ASSUME EmitTypes, Numbers, NEW p \in Emitters, EmitAbort(p)
  PROVE  EmitTypes' /\ Numbers'
<1>1. /\ ctxDone /\ ctxDone' = ctxDone /\ taken' = taken
      /\ emitted' = emitted /\ sequence' = sequence
      /\ sending' = [sending EXCEPT ![p] = NoEvent]
  BY DEF EmitAbort, callerVars
<1>2. NoEvent \in Event
  BY DEF Event, NoEvent, Emitters
<1>3. EmitTypes'
  BY <1>1, <1>2 DEF EmitTypes
<1>4. SequenceDense'
  BY <1>1 DEF Numbers, SequenceDense
<1>5. \A q \in Emitters : sending'[q] # NoEvent => sending'[q] = sending[q]
  BY <1>1 DEF EmitTypes
<1>. QED
  BY <1>1, <1>3, <1>4, <1>5 DEF Numbers

LEMMA ReceiveStep ==
  ASSUME EmitTypes, Numbers, Receive
  PROVE  EmitTypes' /\ Numbers'
<1>1. /\ UNCHANGED <<sending, sequence, emitted, ctxDone>>
      /\ taken < Len(emitted) /\ taken' = taken + 1
  BY DEF Receive, emitVars
<1>2. EmitTypes'
  BY <1>1, BoundsAssumption DEF EmitTypes
<1>. QED
  BY <1>1, <1>2 DEF Numbers, MutexFree, SequenceDense

-----------------------------------------------------------------------------
(* Types.                                                                  *)

Places == {"idle", "refused", "start", "prepare", "memory", "request", "consume",
           "tools", "running", "emit", "return", "close", "done"}

ControlTypes ==
  /\ cfgVars \in BOOLEAN \X BOOLEAN \X BOOLEAN \X BOOLEAN
  /\ pc \in Places
  /\ then \in {"idle", "prepare", "memory", "consume", "tools", "running", "return"}
  /\ memoryLeft \in 0..MaxMemory
  /\ shouldFinalize \in BOOLEAN /\ report \in Nat /\ outClosed \in BOOLEAN
  /\ ctxDone \in BOOLEAN
  /\ executing \in SUBSET Calls /\ toolEvents \in [Calls -> 0..MaxToolEvents]

PassTypes ==
  /\ pass \in 0..MaxPasses /\ streamLeft \in 0..MaxStream
  /\ toolCalls \in Seq(Calls) /\ answered \in 0..Len(toolCalls)
  /\ conv \in Seq(Message) /\ nextCall \in 1..(MaxCalls + 1)

LEMMA TypeParts == TypeOK <=> ControlTypes /\ PassTypes /\ EmitTypes
BY DEF TypeOK, ControlTypes, PassTypes, EmitTypes, cfgVars, Places

LEMMA EnterControl ==
  ASSUME ControlTypes, NEW kind, NEW call,
         NEW next \in {"prepare", "memory", "consume", "tools", "running", "return"},
         TurnEmit(kind, call, next)
  PROVE  /\ pc' \in Places
         /\ then' \in {"idle", "prepare", "memory", "consume", "tools", "running", "return"}
BY DEF TurnEmit, Places

\* The call whose result is emitted next is one of the pass.
LEMMA NextAnswer ==
  ASSUME PassTypes, answered # Len(toolCalls)
  PROVE  toolCalls[answered + 1] \in Calls /\ answered + 1 \in 0..Len(toolCalls)
<1>1. toolCalls \in Seq(Calls) /\ answered \in 0..Len(toolCalls)
  BY DEF PassTypes
<1>2. answered + 1 \in 1..Len(toolCalls)
  BY <1>1
<1>. QED
  BY <1>1, <1>2

LEMMA ControlTypesNext == TypeOK /\ [Next]_vars => ControlTypes'
<1>. SUFFICES ASSUME ControlTypes, PassTypes, [Next]_vars, Len(emitted) \in Nat
              PROVE  ControlTypes'
  <2>1. TypeOK => Len(emitted) \in Nat
    BY DEF TypeOK
  <2>. QED
    BY <2>1, TypeParts
<1>. USE BoundsAssumption
<1>1. ASSUME NEW kind, NEW next \in {"prepare", "memory", "consume", "tools", "running", "return"},
             NEW call, TurnEmit(kind, call, next),
             UNCHANGED <<cfgVars, toolVars, endVars, callerVars>>, memoryLeft' \in 0..MaxMemory
      PROVE  ControlTypes'
  BY <1>1, EnterControl DEF ControlTypes, cfgVars, toolVars, endVars, callerVars
<1>2. ASSUME NEW next \in Places, pc' = next,
             UNCHANGED <<then, cfgVars, memoryLeft, toolVars, endVars, callerVars>>
      PROVE  ControlTypes'
  BY <1>2 DEF ControlTypes, cfgVars, toolVars, endVars, callerVars
<1>3. CASE Start \/ PrepareFails \/ NoSession \/ RequestFails \/ ConsumeInterrupted \/ StreamClosed
  BY <1>1, <1>3 DEF Start, PrepareFails, NoSession, RequestFails, ConsumeInterrupted,
                    StreamClosed, TurnEvent, restVars, ControlTypes
<1>4. CASE StreamTurn \/ MemoryDone \/ StreamClosedWithCalls
  BY <1>2, <1>4 DEF StreamTurn, MemoryDone, StreamClosedWithCalls, GoOn, restVars, Places
<1>5. CASE Prepare
  BY <1>5 DEF Prepare, ControlTypes, Places, cfgVars, toolVars, callerVars
<1>6. CASE EmitMemory
  <2>1. memoryLeft' \in 0..MaxMemory
    BY <1>6 DEF EmitMemory, ControlTypes
  <2>. QED
    BY <1>1, <1>6, <2>1 DEF EmitMemory
<1>7. CASE Request \/ EndPass
  BY <1>2, <1>7 DEF Request, EndPass, Places
<1>8. CASE ConsumeMessage \/ ConsumeToolCall \/ ConsumeError
  BY <1>1, <1>8 DEF ConsumeMessage, ConsumeToolCall, ConsumeError, ConsumeEvent, ControlTypes
<1>9. CASE ConsumeSilent
  BY <1>9 DEF ConsumeSilent, ControlTypes, cfgVars, toolVars, endVars, callerVars
<1>10. CASE CallTool
  <2>1. toolCalls[answered + 1] \in Calls
    BY <1>10, NextAnswer DEF CallTool, AllAnswered
  <2>. QED
    BY <1>10, <2>1 DEF CallTool, ControlTypes, Places, cfgVars, endVars, callerVars
<1>11. CASE RunBatch
  <2>1. \A k \in DOMAIN toolCalls : toolCalls[k] \in Calls
    BY DEF PassTypes
  <2>. QED
    BY <1>11, <2>1 DEF RunBatch, ControlTypes, Places, cfgVars, endVars, callerVars
<1>12. CASE EmitResult
  BY <1>1, <1>12 DEF EmitResult, ControlTypes
<1>13. CASE Finalize
  BY <1>13 DEF Finalize, ControlTypes, Places, cfgVars, toolVars, callerVars
<1>14. CASE CloseOut
  BY <1>14 DEF CloseOut, ControlTypes, Places, cfgVars, toolVars, callerVars
<1>15. ASSUME NEW p \in Emitters, EmitStep(p) PROVE ControlTypes'
  BY <1>15 DEF EmitStep, EmitSend, EmitAbort, ControlTypes, Places,
               cfgVars, toolVars, endVars, callerVars
<1>16. ASSUME NEW c \in Calls, NEW kind \in ToolKinds, ToolEmit(c, kind) PROVE ControlTypes'
  <2>1. toolEvents' \in [Calls -> 0..MaxToolEvents]
    BY <1>16 DEF ToolEmit, ControlTypes
  <2>. QED
    BY <1>16, <2>1 DEF ToolEmit, ControlTypes, cfgVars, endVars, callerVars
<1>17. ASSUME NEW c \in Calls, ToolReturn(c) PROVE ControlTypes'
  BY <1>17 DEF ToolReturn, ControlTypes, cfgVars, endVars, callerVars
<1>18. CASE Receive
  BY <1>18 DEF Receive, ControlTypes, cfgVars, toolVars, endVars
<1>19. CASE CancelContext
  BY <1>19 DEF CancelContext, ControlTypes, cfgVars, toolVars, endVars
<1>20. CASE UNCHANGED vars
  BY <1>20 DEF vars, restVars, ControlTypes, cfgVars, toolVars, endVars, callerVars
<1>. QED
  BY <1>3, <1>4, <1>5, <1>6, <1>7, <1>8, <1>9, <1>10, <1>11, <1>12, <1>13, <1>14, <1>15,
     <1>16, <1>17, <1>18, <1>19, <1>20
     DEF Next, EngineStep, SessionStep, Terminated

LEMMA PassTypesNext == TypeOK /\ [Next]_vars => PassTypes'
<1>. SUFFICES ASSUME ControlTypes, PassTypes, [Next]_vars PROVE PassTypes'
  BY TypeParts
<1>. USE BoundsAssumption
<1>1. ASSUME UNCHANGED passVars PROVE PassTypes'
  BY <1>1 DEF passVars, PassTypes
<1>2. CASE \/ Start \/ PrepareFails \/ NoSession \/ RequestFails \/ ConsumeInterrupted
           \/ StreamClosed \/ StreamTurn \/ MemoryDone \/ StreamClosedWithCalls
  BY <1>1, <1>2 DEF Start, PrepareFails, NoSession, RequestFails, ConsumeInterrupted,
     StreamClosed, StreamTurn, MemoryDone, StreamClosedWithCalls, GoOn, TurnEvent, restVars
<1>3. CASE \/ Prepare \/ EmitMemory \/ CallTool \/ RunBatch \/ Finalize \/ CloseOut
           \/ Receive \/ CancelContext \/ UNCHANGED vars
  BY <1>1, <1>3 DEF Prepare, EmitMemory, CallTool, RunBatch, Finalize, CloseOut, Receive,
     CancelContext, vars, restVars
<1>4. ASSUME NEW p \in Emitters, EmitStep(p) PROVE PassTypes'
  BY <1>1, <1>4 DEF EmitStep, EmitSend, EmitAbort
<1>5. ASSUME NEW c \in Calls, ToolReturn(c) \/ \E kind \in ToolKinds : ToolEmit(c, kind)
      PROVE PassTypes'
  BY <1>1, <1>5 DEF ToolReturn, ToolEmit
<1>6. CASE Request
  <2>1. toolCalls' = <<>> /\ answered' = 0 /\ pass' \in 0..MaxPasses /\ streamLeft' \in 0..MaxStream
    BY <1>6 DEF Request, PassTypes
  <2>2. toolCalls' \in Seq(Calls) /\ Len(toolCalls') = 0
    BY <2>1
  <2>. QED
    BY <1>6, <2>1, <2>2 DEF Request, PassTypes
<1>7. CASE ConsumeSilent \/ ConsumeMessage \/ ConsumeError
  BY <1>7 DEF ConsumeSilent, ConsumeMessage, ConsumeError, ConsumeEvent, PassTypes
<1>8. CASE ConsumeToolCall
  <2>1. toolCalls \in Seq(Calls) /\ nextCall \in Calls /\ answered \in 0..Len(toolCalls)
    BY <1>8 DEF ConsumeToolCall, PassTypes
  <2>2. toolCalls' = Append(toolCalls, nextCall)
    BY <1>8 DEF ConsumeToolCall
  <2>3. toolCalls' \in Seq(Calls) /\ answered \in 0..Len(toolCalls')
    BY <2>1, <2>2
  <2>. QED
    BY <1>8, <2>1, <2>3 DEF ConsumeToolCall, PassTypes, Calls
<1>9. CASE EmitResult
  <2>1. answered' \in 0..Len(toolCalls)
    BY <1>9, NextAnswer DEF EmitResult, AllAnswered
  <2>. QED
    BY <1>9, <2>1 DEF EmitResult, PassTypes
<1>10. CASE EndPass
  <2>1. toolCalls \in Seq(Calls) /\ answered \in 0..Len(toolCalls)
    BY DEF PassTypes
  <2>2. SubSeq(toolCalls, 1, answered) \in Seq(Calls)
    BY <2>1
  <2>3. /\ [role |-> "assistant", calls |-> toolCalls] \in Message
        /\ [role |-> "tool", calls |-> SubSeq(toolCalls, 1, answered)] \in Message
    BY <2>1, <2>2 DEF Message
  <2>4. Continuation \in Seq(Message)
    BY <2>3 DEF Continuation
  <2>5. conv' \in Seq(Message)
    BY <1>10, <2>4 DEF EndPass, PassTypes
  <2>. QED
    BY <1>10, <2>5 DEF EndPass, PassTypes
<1>. QED
  BY <1>2, <1>3, <1>4, <1>5, <1>6, <1>7, <1>8, <1>9, <1>10
     DEF Next, EngineStep, SessionStep, Terminated

\* What a step is to the emit closure.
LEMMA StepKinds ==
  ASSUME TypeOK, [Next]_vars
  PROVE  \/ UNCHANGED emitVars /\ taken' = taken /\ (ctxDone => ctxDone')
         \/ \E p \in Emitters, kind \in Kinds, call \in Nat :
              EnterEmit(p, kind, call) /\ taken' = taken /\ ctxDone' = ctxDone
         \/ \E p \in Emitters : EmitSend(p) \/ EmitAbort(p)
         \/ Receive
<1>. USE BoundsAssumption
<1>0. ControlTypes /\ PassTypes
  BY TypeParts
<1>1. CASE \/ StreamTurn \/ Prepare \/ MemoryDone \/ Request \/ ConsumeSilent
           \/ StreamClosedWithCalls \/ CallTool \/ RunBatch \/ EndPass
           \/ Finalize \/ CloseOut \/ CancelContext \/ UNCHANGED vars
  BY <1>1 DEF StreamTurn, Prepare, MemoryDone, Request, ConsumeSilent, StreamClosedWithCalls,
     CallTool, RunBatch, EndPass, Finalize, CloseOut, CancelContext, vars, restVars, callerVars,
     GoOn
<1>2. ASSUME NEW kind \in Kinds, NEW call \in Nat, NEW next, TurnEmit(kind, call, next),
             UNCHANGED callerVars
      PROVE  \E p \in Emitters, k \in Kinds, c \in Nat :
               EnterEmit(p, k, c) /\ taken' = taken /\ ctxDone' = ctxDone
  BY <1>2 DEF TurnEmit, Emitters, callerVars
<1>3. {"started", "memory_read", "message", "tool_call", "tool_result",
       "completed", "error"} \subseteq Kinds
  BY DEF Kinds, Terminal
<1>4. CASE \/ Start \/ PrepareFails \/ NoSession \/ RequestFails \/ ConsumeInterrupted
           \/ StreamClosed \/ EmitMemory \/ ConsumeMessage \/ ConsumeError
  BY <1>2, <1>3, <1>4 DEF Start, PrepareFails, NoSession, RequestFails, ConsumeInterrupted,
     StreamClosed, EmitMemory, ConsumeMessage, ConsumeError, ConsumeEvent, TurnEvent, restVars
<1>5. CASE ConsumeToolCall
  BY <1>2, <1>3, <1>5 DEF ConsumeToolCall, Calls
<1>6. CASE EmitResult
  <2>1. toolCalls[answered + 1] \in Nat
    BY <1>0, <1>6, NextAnswer DEF EmitResult, AllAnswered, Calls
  <2>. QED
    BY <1>2, <1>3, <1>6, <2>1 DEF EmitResult
<1>7. ASSUME NEW c \in Calls, NEW kind \in ToolKinds, ToolEmit(c, kind)
      PROVE  \E p \in Emitters, k \in Kinds, n \in Nat :
               EnterEmit(p, k, n) /\ taken' = taken /\ ctxDone' = ctxDone
  <2>1. kind \in Kinds /\ c \in Emitters
    BY ToolKindsAssumption DEF Emitters
  <2>. QED
    BY <1>7, <2>1 DEF ToolEmit, callerVars
<1>8. ASSUME NEW c \in Calls, ToolReturn(c)
      PROVE  UNCHANGED emitVars /\ taken' = taken /\ (ctxDone => ctxDone')
  BY <1>8 DEF ToolReturn, callerVars
<1>. QED
  BY <1>1, <1>4, <1>5, <1>6, <1>7, <1>8 DEF Next, EngineStep, SessionStep, Terminated, EmitStep

LEMMA EmitNext ==
  TypeOK /\ Numbers /\ [Next]_vars => EmitTypes' /\ Numbers'
BY TypeParts, StepKinds, QuietStep, EnterStep, SendStep, AbortStep, ReceiveStep

LEMMA EmitInit == Init => TypeOK /\ Numbers
<1>. SUFFICES ASSUME Init PROVE TypeOK /\ Numbers
  OBVIOUS
<1>. USE BoundsAssumption DEF Init
<1>1. /\ emitted = <<>> /\ conv = <<>> /\ toolCalls = <<>>
      /\ taken = 0 /\ answered = 0 /\ sequence = 0
  OBVIOUS
<1>2. /\ emitted \in Seq(Event) /\ Len(emitted) = 0 /\ conv \in Seq(Message)
      /\ toolCalls \in Seq(Calls) /\ Len(toolCalls) = 0
  BY <1>1
<1>3. NoEvent \in Event
  BY DEF Event, NoEvent, Emitters
<1>4. sending \in [Emitters -> Event] /\ \A p \in Emitters : sending[p] = NoEvent
  BY <1>3
<1>5. EmitTypes
  BY <1>1, <1>2, <1>4 DEF EmitTypes
<1>6. PassTypes
  BY <1>1, <1>2 DEF PassTypes
<1>7. ControlTypes
  <2>1. 0 \in 0..MaxMemory /\ 0 \in 0..MaxToolEvents
    OBVIOUS
  <2>2. toolEvents \in [Calls -> 0..MaxToolEvents]
    BY <2>1
  <2>3. cfgVars \in BOOLEAN \X BOOLEAN \X BOOLEAN \X BOOLEAN
    BY DEF cfgVars
  <2>4. pc \in Places /\ then = "idle"
    BY DEF Places
  <2>. QED
    BY <2>1, <2>2, <2>3, <2>4 DEF ControlTypes
<1>8. Numbers
  BY <1>1, <1>2, <1>4 DEF Numbers, MutexFree, SequenceDense
<1>. QED
  BY <1>5, <1>6, <1>7, <1>8, TypeParts

LEMMA NumberingNext == TypeOK /\ Numbers /\ [Next]_vars => TypeOK' /\ Numbers'
<1>. SUFFICES ASSUME TypeOK, Numbers, [Next]_vars PROVE TypeOK' /\ Numbers'
  OBVIOUS
<1>1. EmitTypes' /\ Numbers'
  BY EmitNext
<1>2. ControlTypes' /\ PassTypes'
  BY ControlTypesNext, PassTypesNext
<1>3. TypeOK'
  BY <1>1, <1>2 DEF TypeOK, ControlTypes, PassTypes, EmitTypes, cfgVars, Places
<1>. QED
  BY <1>1, <1>3

(***************************************************************************)
(* The turn's variables keep their types and the event channel never holds *)
(* more than its capacity.                                                 *)
(***************************************************************************)
THEOREM TypeCorrect == Spec => []TypeOK
BY EmitInit, NumberingNext, PTL DEF Spec

(***************************************************************************)
(* The events of a turn are numbered without a gap and in the order they   *)
(* are received, whatever tools emit next to the turn's goroutine and      *)
(* wherever the turn is cancelled: engine.go:91-115.                       *)
(***************************************************************************)
THEOREM SequenceCorrect == Spec => []SequenceDense
<1>1. Numbers => SequenceDense
  BY DEF Numbers
<1>. QED
  BY <1>1, EmitInit, NumberingNext, PTL DEF Spec

-----------------------------------------------------------------------------
(* Where the turn stands.  PlaceInv ties the program counter to who is     *)
(* emitting and to the end of the turn, StreamInv ties it to the events    *)
(* that were sent.                                                         *)

Ending == {"return", "close", "done"}
Middle == {"prepare", "memory", "request", "consume", "tools", "running"}
ReportOf == IF shouldFinalize /\ hasFinalizer THEN Len(emitted) ELSE 0

PlaceInv ==
  /\ pc = "emit" <=> sending[Turn] # NoEvent
  /\ \A c \in Calls : sending[c] # NoEvent => c \in executing
  /\ executing # {} => pc = "running"
  /\ outClosed <=> pc = "done"
  /\ pc \in {"close", "done"} => report = ReportOf
  /\ pc \notin {"close", "done"} => report = 0

\* The last event is the turn's own and ends it.
Ended ==
  /\ emitted # <<>>
  /\ emitted[Len(emitted)].by = Turn /\ emitted[Len(emitted)].kind \in Terminal

StreamInv ==
  /\ pc = "emit" => /\ sending[Turn].kind = "started" <=> then = "prepare"
                    /\ sending[Turn].kind \in Terminal <=> then = "return"
                    /\ then = "prepare" <=> emitted = <<>>
                    /\ then \in Middle \cup {"return"}
  /\ pc \in {"idle", "refused", "start"} => emitted = <<>>
  /\ pc \in Middle => emitted # <<>>
  /\ Ended => pc \in Ending
  /\ pc \in Ending => Ended \/ ctxDone

IInv == TypeOK /\ Numbers /\ PlaceInv /\ StreamInv

\* The goroutine of the turn enters an emit from one of its places.
LEMMA TurnEmitStep ==
  ASSUME IInv, NEW kind \in Kinds, NEW call, NEW next \in Middle \cup {"return"},
         TurnEmit(kind, call, next),
         pc \in Middle \cup {"start"}, executing = {},
         pc = "start" <=> next = "prepare",
         kind = "started" <=> next = "prepare",
         kind \in Terminal <=> next = "return",
         UNCHANGED <<cfgVars, toolVars, endVars, callerVars>>
  PROVE  PlaceInv' /\ StreamInv'
<1>. DEFINE e == [kind |-> kind, call |-> call, by |-> Turn, seq |-> sequence]
<1>1. /\ MutexFree /\ emitted' = emitted /\ executing' = executing
      /\ sending' = IF ctxDone THEN sending ELSE [sending EXCEPT ![Turn] = e]
      /\ then' = next /\ pc' = IF ctxDone THEN "return" ELSE "emit"
      /\ UNCHANGED <<shouldFinalize, report, outClosed, hasFinalizer, ctxDone>>
  BY DEF TurnEmit, EnterEmit, toolVars, endVars, callerVars, cfgVars
<1>2. e.kind = kind /\ e # NoEvent
  <2>1. kind # "none" /\ NoEvent.kind = "none"
    BY DEF Kinds, Terminal, NoEvent
  <2>. QED
    BY <2>1
<1>. HIDE DEF e
<1>3. /\ Turn \in Emitters /\ Turn \notin Calls /\ Calls \subseteq Emitters
      /\ DOMAIN sending = Emitters
  BY BoundsAssumption DEF Turn, Emitters, Calls, IInv, TypeOK
<1>4. \A p \in Emitters : sending[p] = NoEvent
  BY <1>1 DEF MutexFree
<1>5. \A c \in Calls : sending'[c] = NoEvent
  BY <1>1, <1>3, <1>4
<1>6. (pc' = "emit" <=> sending'[Turn] # NoEvent) /\ (pc' = "emit" => sending'[Turn] = e)
  BY <1>1, <1>2, <1>3, <1>4
<1>7. pc \notin {"close", "done"} /\ pc' \notin {"close", "done"}
  BY <1>1 DEF Middle
<1>8. PlaceInv'
  BY <1>1, <1>3, <1>5, <1>6, <1>7 DEF IInv, PlaceInv
<1>9. ~Ended /\ Ended' = Ended
  BY <1>1 DEF IInv, StreamInv, Ended, Ending, Middle
<1>10. StreamInv'
  BY <1>1, <1>2, <1>5, <1>6, <1>9 DEF IInv, StreamInv, Ending, Middle
<1>. QED
  BY <1>8, <1>10

\* The goroutine moves from one of its places to another without an event.
LEMMA TurnMoveStep ==
  ASSUME IInv, pc # "emit", pc' # "emit", UNCHANGED <<emitVars, callerVars, hasFinalizer>>,
         executing' # {} => pc' = "running", executing \subseteq executing',
         pc' \in Middle => pc \in Middle,
         pc' \in {"idle", "refused", "start"} => pc \in {"idle", "refused", "start"},
         pc' \in Ending => pc \in Ending, pc \in Ending => pc' \in Ending,
         outClosed' <=> pc' = "done",
         pc' \in {"close", "done"} => report' = ReportOf',
         pc' \notin {"close", "done"} => report' = 0
  PROVE  PlaceInv' /\ StreamInv'
<1>1. UNCHANGED <<sending, emitted, ctxDone>>
  BY DEF emitVars, callerVars
<1>2. PlaceInv'
  BY <1>1 DEF IInv, PlaceInv
<1>3. Ended' = Ended
  BY <1>1 DEF Ended
<1>4. StreamInv'
  BY <1>1, <1>3 DEF IInv, StreamInv
<1>. QED
  BY <1>2, <1>4

LEMMA SendPlaces ==
  ASSUME IInv, NEW p \in Emitters, EmitSend(p)
  PROVE  PlaceInv' /\ StreamInv'
<1>1. /\ sending[p] # NoEvent
      /\ emitted' = Append(emitted, sending[p])
      /\ sending' = [sending EXCEPT ![p] = NoEvent]
      /\ pc' = IF p = Turn THEN then ELSE pc
      /\ UNCHANGED <<then, executing, shouldFinalize, report, outClosed, hasFinalizer, ctxDone>>
  BY DEF EmitSend, toolVars, endVars, callerVars, cfgVars
<1>2. emitted \in Seq(Event) /\ sending \in [Emitters -> Event]
  BY DEF IInv, TypeOK
<1>3. sending[p] \in Event
  BY <1>2
<1>4. emitted' # <<>> /\ emitted'[Len(emitted')] = sending[p]
  BY <1>1, <1>2, <1>3
<1>5. Turn \in Emitters /\ Turn \notin Calls /\ Emitters = {Turn} \cup Calls
  BY BoundsAssumption DEF Turn, Emitters, Calls
<1>6. sending[p].by = p /\ \A q \in Emitters : sending'[q] = NoEvent
  BY <1>1, <1>2 DEF IInv, Numbers
<1>7. CASE p = Turn
  <2>1. /\ pc = "emit" /\ pc' = then /\ executing = {}
        /\ then \in Middle \cup {"return"}
        /\ (sending[p].kind \in Terminal) <=> (then = "return")
    BY <1>1, <1>7 DEF IInv, PlaceInv, StreamInv
  <2>2. pc' # "emit" /\ pc' \notin {"close", "done"} /\ pc \notin {"close", "done"}
    BY <2>1 DEF Middle
  <2>3. PlaceInv'
    BY <1>1, <1>5, <1>6, <2>1, <2>2 DEF IInv, PlaceInv
  <2>4. Ended' <=> pc' = "return"
    BY <1>4, <1>6, <1>7, <2>1 DEF Ended
  <2>5. StreamInv'
    BY <1>1, <1>4, <1>5, <1>6, <2>1, <2>2, <2>4 DEF StreamInv, Middle, Ending
  <2>. QED
    BY <2>3, <2>5
<1>8. CASE p \in Calls
  <2>1. pc = "running" /\ pc' = pc
    BY <1>1, <1>5, <1>8 DEF IInv, PlaceInv
  <2>2. PlaceInv'
    BY <1>1, <1>5, <1>6, <2>1 DEF IInv, PlaceInv
  <2>3. ~Ended'
    BY <1>4, <1>5, <1>6, <1>8 DEF Ended
  <2>4. StreamInv'
    BY <1>1, <1>4, <1>5, <1>6, <2>1, <2>3 DEF StreamInv, Middle, Ending
  <2>. QED
    BY <2>2, <2>4
<1>. QED
  BY <1>5, <1>7, <1>8

LEMMA AbortPlaces ==
  ASSUME IInv, NEW p \in Emitters, EmitAbort(p)
  PROVE  PlaceInv' /\ StreamInv'
<1>1. /\ sending[p] # NoEvent /\ ctxDone
      /\ sending' = [sending EXCEPT ![p] = NoEvent]
      /\ pc' = IF p = Turn THEN "return" ELSE pc
      /\ UNCHANGED <<emitted, then, executing, shouldFinalize, report, outClosed, hasFinalizer, ctxDone>>
  BY DEF EmitAbort, toolVars, endVars, callerVars, cfgVars
<1>2. sending \in [Emitters -> Event] /\ Ended' = Ended
  BY <1>1 DEF IInv, TypeOK, Ended
<1>3. Turn \in Emitters /\ Turn \notin Calls /\ Emitters = {Turn} \cup Calls
  BY BoundsAssumption DEF Turn, Emitters, Calls
<1>4. \A q \in Emitters : sending'[q] = NoEvent
  BY <1>1, <1>2 DEF IInv, Numbers
<1>5. CASE p = Turn
  <2>1. pc = "emit" /\ pc' = "return" /\ executing = {}
    BY <1>1, <1>5 DEF IInv, PlaceInv
  <2>2. PlaceInv'
    BY <1>1, <1>3, <1>4, <2>1 DEF IInv, PlaceInv
  <2>3. StreamInv'
    BY <1>1, <1>2, <1>3, <1>4, <2>1 DEF StreamInv, Middle, Ending
  <2>. QED
    BY <2>2, <2>3
<1>6. CASE p \in Calls
  <2>1. pc = "running" /\ pc' = pc
    BY <1>1, <1>3, <1>6 DEF IInv, PlaceInv
  <2>2. PlaceInv'
    BY <1>1, <1>3, <1>4, <2>1 DEF IInv, PlaceInv
  <2>3. StreamInv'
    BY <1>1, <1>2, <1>3, <1>4, <2>1 DEF IInv, StreamInv, Middle, Ending
  <2>. QED
    BY <2>2, <2>3
<1>. QED
  BY <1>3, <1>5, <1>6

LEMMA ToolEmitPlaces ==
  ASSUME IInv, NEW c \in Calls, NEW kind \in ToolKinds, ToolEmit(c, kind)
  PROVE  PlaceInv' /\ StreamInv'
<1>. DEFINE e == [kind |-> kind, call |-> 0, by |-> c, seq |-> sequence]
<1>1. /\ c \in executing /\ MutexFree
      /\ sending' = IF ctxDone THEN sending ELSE [sending EXCEPT ![c] = e]
      /\ UNCHANGED <<emitted, pc, then, executing, shouldFinalize, report, outClosed,
                     hasFinalizer, ctxDone>>
  BY DEF ToolEmit, EnterEmit, endVars, callerVars, cfgVars
<1>. HIDE DEF e
<1>3. Turn \in Emitters /\ Turn # c /\ Calls \subseteq Emitters /\ DOMAIN sending = Emitters
  BY BoundsAssumption DEF Turn, Emitters, Calls, IInv, TypeOK
<1>4. /\ sending'[Turn] = sending[Turn]
      /\ \A q \in Calls : sending'[q] # NoEvent => q = c /\ sending'[q] = e
  BY <1>1, <1>3 DEF MutexFree
<1>5. PlaceInv'
  BY <1>1, <1>4 DEF IInv, PlaceInv
<1>6. Ended' = Ended
  BY <1>1 DEF Ended
<1>7. StreamInv'
  BY <1>1, <1>4, <1>6 DEF IInv, StreamInv
<1>. QED
  BY <1>5, <1>7

LEMMA PlaceNext == IInv /\ [Next]_vars => PlaceInv' /\ StreamInv'
<1>. SUFFICES ASSUME IInv, [Next]_vars PROVE PlaceInv' /\ StreamInv'
  OBVIOUS
<1>a. /\ pc # "running" => executing = {}
      /\ outClosed <=> pc = "done"
      /\ pc \notin {"close", "done"} => report = 0
  BY DEF IInv, PlaceInv
<1>b. {"started", "memory_read", "message", "tool_call", "tool_result",
       "completed", "error"} = Kinds
  BY DEF Kinds, Terminal
<1>1. CASE Start
  BY <1>1, <1>a, <1>b, TurnEmitStep DEF Start, TurnEvent, restVars, Middle, Terminal
<1>2. CASE PrepareFails \/ RequestFails \/ ConsumeInterrupted
  BY <1>2, <1>a, <1>b, TurnEmitStep
     DEF PrepareFails, RequestFails, ConsumeInterrupted, TurnEvent, restVars, Middle, Terminal
<1>3. CASE NoSession \/ StreamClosed
  BY <1>3, <1>a, <1>b, TurnEmitStep
     DEF NoSession, StreamClosed, TurnEvent, restVars, Middle, Terminal
<1>4. CASE EmitMemory
  BY <1>4, <1>a, <1>b, TurnEmitStep DEF EmitMemory, Middle, Terminal
<1>5. CASE ConsumeMessage \/ ConsumeError
  BY <1>5, <1>a, <1>b, TurnEmitStep DEF ConsumeMessage, ConsumeError, ConsumeEvent, Middle, Terminal
<1>6. CASE ConsumeToolCall
  BY <1>6, <1>a, <1>b, TurnEmitStep DEF ConsumeToolCall, Middle, Terminal
<1>7. CASE EmitResult
  BY <1>7, <1>b, TurnEmitStep DEF EmitResult, Middle, Terminal
<1>8. CASE StreamTurn \/ MemoryDone \/ StreamClosedWithCalls
  BY <1>8, <1>a, TurnMoveStep
     DEF StreamTurn, MemoryDone, StreamClosedWithCalls, GoOn, restVars, toolVars, endVars,
         cfgVars, Middle, Ending
<1>9. CASE Prepare
  BY <1>9, <1>a, TurnMoveStep DEF Prepare, toolVars, cfgVars, Middle, Ending
<1>10. CASE Request \/ EndPass
  BY <1>10, <1>a, TurnMoveStep DEF Request, EndPass, toolVars, endVars, cfgVars, Middle, Ending
<1>11. CASE CallTool \/ RunBatch
  BY <1>11, <1>a, TurnMoveStep DEF CallTool, RunBatch, endVars, cfgVars, Middle, Ending
<1>12. CASE Finalize
  <2>1. ReportOf' = ReportOf
    BY <1>12 DEF Finalize, ReportOf, cfgVars, emitVars
  <2>2. report' = ReportOf
    BY <1>12, <1>a DEF Finalize, ReportOf
  <2>. QED
    BY <1>12, <1>a, <2>1, <2>2, TurnMoveStep DEF Finalize, toolVars, cfgVars, Middle, Ending
<1>13. CASE CloseOut
  <2>1. ReportOf' = ReportOf
    BY <1>13 DEF CloseOut, ReportOf, cfgVars, emitVars
  <2>2. report = ReportOf
    BY <1>13 DEF CloseOut, IInv, PlaceInv
  <2>. QED
    BY <1>13, <1>a, <2>1, <2>2, TurnMoveStep DEF CloseOut, toolVars, cfgVars, Middle, Ending
<1>14. CASE ConsumeSilent \/ Receive \/ CancelContext \/ UNCHANGED vars
  <2>1. /\ UNCHANGED <<cfgVars, pc, then, executing, emitVars, endVars>>
        /\ ctxDone => ctxDone'
    BY <1>14 DEF ConsumeSilent, Receive, CancelContext, vars, restVars, toolVars, callerVars
  <2>2. ReportOf' = ReportOf /\ Ended' = Ended
    BY <2>1 DEF ReportOf, Ended, cfgVars, emitVars, endVars
  <2>3. PlaceInv'
    BY <2>1, <2>2 DEF IInv, PlaceInv, emitVars, endVars
  <2>4. StreamInv'
    BY <2>1, <2>2 DEF IInv, StreamInv, emitVars
  <2>. QED
    BY <2>3, <2>4
<1>15. ASSUME NEW c \in Calls, ToolReturn(c) PROVE PlaceInv' /\ StreamInv'
  <2>1. /\ UNCHANGED <<cfgVars, pc, then, emitVars, endVars, ctxDone>>
        /\ executing' = executing \ {c} /\ sending[c] = NoEvent
    BY <1>15 DEF ToolReturn, callerVars
  <2>2. ReportOf' = ReportOf /\ Ended' = Ended
    BY <2>1 DEF ReportOf, Ended, cfgVars, emitVars, endVars
  <2>3. PlaceInv'
    BY <2>1, <2>2 DEF IInv, PlaceInv, emitVars, endVars
  <2>4. StreamInv'
    BY <2>1, <2>2 DEF IInv, StreamInv, emitVars
  <2>. QED
    BY <2>3, <2>4
<1>. QED
  BY <1>1, <1>2, <1>3, <1>4, <1>5, <1>6, <1>7, <1>8, <1>9, <1>10, <1>11, <1>12, <1>13,
     <1>14, <1>15, SendPlaces, AbortPlaces, ToolEmitPlaces
     DEF Next, EngineStep, SessionStep, Terminated, EmitStep

LEMMA InvInit == Init => IInv
<1>. SUFFICES ASSUME Init PROVE IInv
  OBVIOUS
<1>1. TypeOK /\ Numbers
  BY EmitInit
<1>2. PlaceInv
  BY BoundsAssumption DEF Init, PlaceInv, Emitters
<1>3. StreamInv
  BY BoundsAssumption DEF Init, StreamInv, Emitters, Ended, Middle, Ending
<1>. QED
  BY <1>1, <1>2, <1>3 DEF IInv

LEMMA InvNext == IInv /\ [Next]_vars => IInv'
BY NumberingNext, PlaceNext DEF IInv

LEMMA FinalizedFromInv == IInv => FinalizedWithEverything
<1>. SUFFICES ASSUME IInv, outClosed
              PROVE  /\ hasFinalizer /\ shouldFinalize => report = Len(emitted)
                     /\ ~(hasFinalizer /\ shouldFinalize) => report = 0
                     /\ executing = {} /\ MutexFree
  BY DEF FinalizedWithEverything
<1>1. pc = "done" /\ report = ReportOf /\ executing = {}
  BY DEF IInv, PlaceInv
<1>2. \A p \in Emitters : sending[p] = NoEvent
  BY <1>1 DEF IInv, PlaceInv, Emitters
<1>. QED
  BY <1>1, <1>2 DEF ReportOf, MutexFree

(***************************************************************************)
(* When the stream of a prepared turn is closed its finalizer has been     *)
(* given every event of the stream, and no one is left who could emit.     *)
(***************************************************************************)
THEOREM FinalizationCorrect == Spec => []FinalizedWithEverything
BY InvInit, InvNext, FinalizedFromInv, PTL DEF Spec

-----------------------------------------------------------------------------
(* The conversation.  TalkInv: a pass that reaches its tools made a call,  *)
(* and a live turn outside a pass has answered all the calls it holds; a   *)
(* message whose calls were refused is the last the conversation gets.     *)

\* Where the goroutine is, or will be once its event is sent.
Place == IF pc = "emit" THEN then ELSE pc

BetweenPasses == {"idle", "start", "prepare", "memory", "request"}
AtTools == {"tools", "running"}

Balanced(m) ==
  \A k \in DOMAIN m : m[k].role = "assistant" =>
    /\ k + 1 \in DOMAIN m
    /\ m[k + 1] = [role |-> "tool", calls |-> m[k].calls]

\* The last message may lack its results.
BalancedButLast(m) ==
  \A k \in DOMAIN m : m[k].role = "assistant" =>
    \/ /\ k + 1 \in DOMAIN m
       /\ m[k + 1] = [role |-> "tool", calls |-> m[k].calls]
    \/ k = Len(m)

\* A turn whose context is done gets no further than the next stream.
Stuck ==
  \/ Place = "request"
  \/ Place = "consume" /\ toolCalls = <<>>
  \/ Place \in Ending

TalkInv ==
  /\ Place \in AtTools => toolCalls # <<>>
  /\ Place = "consume" => answered = 0
  /\ Place = "tools" /\ batchMode => answered = 0
  /\ ~ctxDone /\ Place \in BetweenPasses => answered = Len(toolCalls)
  /\ \/ Balanced(conv)
     \/ ctxDone /\ batchMode /\ Stuck /\ BalancedButLast(conv)

\* What two more messages do to a conversation.
LEMMA PairAdded ==
  ASSUME NEW m \in Seq(Message), NEW pair \in Seq(Message), Len(pair) = 2
  PROVE  /\ Len(m) \in Nat /\ DOMAIN m = 1..Len(m)
         /\ DOMAIN (m \o pair) = 1..(Len(m) + 2)
         /\ \A k \in 1..Len(m) : (m \o pair)[k] = m[k]
         /\ (m \o pair)[Len(m) + 1] = pair[1]
         /\ (m \o pair)[Len(m) + 2] = pair[2]
<1>1. Len(m) \in Nat /\ DOMAIN m = 1..Len(m) /\ DOMAIN (m \o pair) = 1..Len(m \o pair)
  BY ConcatProperties, LenProperties
<1>2. Len(m \o pair) = Len(m) + Len(pair)
  BY ConcatProperties
<1>3. \A k \in 1..(Len(m) + Len(pair)) :
        (m \o pair)[k] = IF k <= Len(m) THEN m[k] ELSE pair[k - Len(m)]
  BY ConcatProperties, Zenon
<1>. QED
  BY <1>1, <1>2, <1>3

\* A balanced conversation stays so when calls and all their results are added.
LEMMA BalancedExtend ==
  ASSUME NEW m \in Seq(Message), NEW cs \in Seq(Calls), Balanced(m)
  PROVE  Balanced(m \o (<<[role |-> "assistant", calls |-> cs]>>
                          \o <<[role |-> "tool", calls |-> cs]>>))
<1>. DEFINE a == [role |-> "assistant", calls |-> cs]
            t == [role |-> "tool", calls |-> cs]
            q == m \o (<<a>> \o <<t>>)
            n == Len(m)
<1>1. a \in Message /\ t \in Message /\ a.calls = cs /\ t.role = "tool"
  BY DEF Message
<1>2. /\ n \in Nat /\ DOMAIN m = 1..n /\ DOMAIN q = 1..(n + 2)
      /\ \A k \in 1..n : q[k] = m[k]
      /\ q[n + 1] = a /\ q[n + 2] = t
  <2>. HIDE DEF a, t
  <2>. DEFINE pair == <<a>> \o <<t>>
  <2>1. pair \in Seq(Message) /\ Len(pair) = 2 /\ pair[1] = a /\ pair[2] = t
    BY <1>1
  <2>. HIDE DEF pair
  <2>. QED
    BY <2>1, PairAdded DEF pair
<1>3. \A k \in DOMAIN q : k \in 1..n \/ k = n + 1 \/ k = n + 2
  BY <1>2
<1>. HIDE DEF q, n
<1>4. ASSUME NEW k \in DOMAIN q, q[k].role = "assistant"
      PROVE  k + 1 \in DOMAIN q /\ q[k + 1] = [role |-> "tool", calls |-> q[k].calls]
  <2>1. CASE k \in 1..n
    <3>1. k + 1 \in 1..n /\ m[k + 1] = [role |-> "tool", calls |-> m[k].calls]
      BY <1>2, <1>4, <2>1 DEF Balanced
    <3>. QED
      BY <1>2, <2>1, <3>1
  <2>2. CASE k = n + 1
    <3>1. q[k] = a /\ k + 1 = n + 2 /\ k + 1 \in DOMAIN q
      BY <1>2, <2>2
    <3>. QED
      BY <1>1, <1>2, <3>1
  <2>3. CASE k = n + 2
    BY <1>1, <1>2, <1>4, <2>3
  <2>. QED
    BY <1>3, <2>1, <2>2, <2>3
<1>. QED
  BY <1>4 DEF Balanced, q

\* Calls without results at the end leave the messages before them balanced.
LEMMA RefusedExtend ==
  ASSUME NEW m \in Seq(Message), NEW a \in Message, Balanced(m)
  PROVE  BalancedButLast(m \o <<a>>)
<1>. DEFINE q == m \o <<a>>
            n == Len(m)
<1>1. /\ n \in Nat /\ DOMAIN m = 1..n /\ DOMAIN q = 1..(n + 1) /\ Len(q) = n + 1
      /\ \A k \in 1..n : q[k] = m[k]
  OBVIOUS
<1>. HIDE DEF q, n
<1>2. ASSUME NEW k \in DOMAIN q, q[k].role = "assistant", k # n + 1
      PROVE  k + 1 \in DOMAIN q /\ q[k + 1] = [role |-> "tool", calls |-> q[k].calls]
  <2>1. k \in 1..n
    BY <1>1, <1>2
  <2>2. k + 1 \in 1..n /\ m[k + 1] = [role |-> "tool", calls |-> m[k].calls]
    BY <1>1, <1>2, <2>1 DEF Balanced
  <2>. QED
    BY <1>1, <2>1, <2>2
<1>. QED
  BY <1>1, <1>2 DEF BalancedButLast, q

LEMMA TalkFrame ==
  ASSUME TalkInv, UNCHANGED <<batchMode, toolCalls, answered, conv>>, ctxDone => ctxDone',
         Place' \in AtTools => Place \in AtTools,
         Place' = "consume" => Place = "consume",
         Place' = "tools" => Place = "tools" \/ ~batchMode,
         ~ctxDone /\ Place' \in BetweenPasses => Place \in BetweenPasses,
         ctxDone /\ Stuck => Stuck'
  PROVE  TalkInv'
BY DEF TalkInv

LEMMA TalkEndPass ==
  ASSUME IInv, TalkInv, EndPass
  PROVE  TalkInv'
<1>1. /\ conv \in Seq(Message) /\ toolCalls \in Seq(Calls) /\ answered \in 0..Len(toolCalls)
      /\ conv' = conv \o Continuation /\ pc' = "request" /\ pc \in AtTools
      /\ UNCHANGED <<toolCalls, answered, ctxDone, batchMode>>
      /\ Place' = "request" /\ toolCalls # <<>>
  BY DEF EndPass, IInv, TypeOK, callerVars, cfgVars, AtTools, Place, TalkInv
<1>2. Balanced(conv)
  BY <1>1 DEF TalkInv, Stuck, AtTools, Place, Ending
<1>3. CASE answered = Len(toolCalls)
  <2>1. answered > 0
    BY <1>1, <1>3
  <2>2. SubSeq(toolCalls, 1, answered) = toolCalls
    BY <1>1, <1>3
  <2>3. Continuation = <<[role |-> "assistant", calls |-> toolCalls]>>
                         \o <<[role |-> "tool", calls |-> toolCalls]>>
    BY <2>1, <2>2 DEF Continuation
  <2>4. Balanced(conv')
    BY <1>1, <1>2, <2>3, BalancedExtend
  <2>. QED
    BY <1>1, <1>3, <2>4 DEF TalkInv, AtTools
<1>4. CASE answered # Len(toolCalls)
  <2>1. pc = "tools" /\ batchMode /\ ctxDone
    BY <1>4 DEF EndPass, AllAnswered
  <2>2. answered = 0
    BY <2>1 DEF TalkInv, Place
  <2>3. Continuation = <<[role |-> "assistant", calls |-> toolCalls]>>
    BY <2>2 DEF Continuation
  <2>4. [role |-> "assistant", calls |-> toolCalls] \in Message
    BY <1>1 DEF Message
  <2>5. BalancedButLast(conv')
    BY <1>1, <1>2, <2>3, <2>4, RefusedExtend
  <2>. QED
    BY <1>1, <2>1, <2>5 DEF TalkInv, AtTools, Stuck
<1>. QED
  BY <1>3, <1>4

LEMMA TalkNext == IInv /\ TalkInv /\ [Next]_vars => TalkInv'
<1>. SUFFICES ASSUME IInv, TalkInv, [Next]_vars PROVE TalkInv'
  OBVIOUS
<1>a. ASSUME NEW kind, NEW call, NEW next, TurnEmit(kind, call, next)
      PROVE  Place' = (IF ctxDone THEN "return" ELSE next)
  BY <1>a DEF TurnEmit, Place
<1>1. CASE Start \/ PrepareFails \/ NoSession \/ RequestFails \/ ConsumeInterrupted \/ StreamClosed
  <2>1. UNCHANGED <<batchMode, toolCalls, answered, conv, ctxDone>>
    BY <1>1 DEF Start, PrepareFails, NoSession, RequestFails, ConsumeInterrupted,
       StreamClosed, TurnEvent, restVars, passVars, callerVars, cfgVars
  <2>2. Place' \in {"prepare", "return"} /\ (ctxDone => Place' = "return")
    BY <1>1, <1>a DEF Start, PrepareFails, NoSession, RequestFails, ConsumeInterrupted,
       StreamClosed, TurnEvent
  <2>3. Place' = "prepare" => Place = "start"
    BY <1>1, <1>a DEF Start, PrepareFails, NoSession, RequestFails, ConsumeInterrupted,
       StreamClosed, TurnEvent, Place
  <2>. QED
    BY <2>1, <2>2, <2>3, TalkFrame DEF AtTools, BetweenPasses, Stuck, Ending
<1>2. CASE EmitMemory \/ ConsumeMessage \/ ConsumeError
  <2>1. UNCHANGED <<batchMode, toolCalls, answered, conv, ctxDone>>
    BY <1>2 DEF EmitMemory, ConsumeMessage, ConsumeError, ConsumeEvent, passVars, callerVars,
       cfgVars
  <2>2. /\ pc \in {"memory", "consume"} /\ Place' \in {pc, "return"}
        /\ ctxDone => Place' = "return"
    BY <1>2, <1>a DEF EmitMemory, ConsumeMessage, ConsumeError, ConsumeEvent
  <2>. QED
    BY <2>1, <2>2, TalkFrame DEF AtTools, BetweenPasses, Stuck, Ending, Place
<1>3. CASE ConsumeToolCall
  <2>1. /\ UNCHANGED <<batchMode, answered, conv, ctxDone>> /\ Place = "consume"
        /\ Place' = IF ctxDone THEN "return" ELSE "consume"
    BY <1>3, <1>a DEF ConsumeToolCall, callerVars, cfgVars, Place
  <2>. QED
    BY <2>1 DEF TalkInv, AtTools, BetweenPasses, Stuck, Ending
<1>4. CASE EmitResult
  <2>1. /\ UNCHANGED <<batchMode, toolCalls, conv, ctxDone>> /\ Place = "running"
        /\ Place' \in {"return", IF batchMode THEN "running" ELSE "tools"}
    BY <1>4, <1>a DEF EmitResult, callerVars, cfgVars, Place
  <2>. QED
    BY <2>1 DEF TalkInv, AtTools, BetweenPasses, Stuck, Ending
<1>5. CASE StreamTurn \/ MemoryDone \/ Prepare
  BY <1>5, TalkFrame
     DEF StreamTurn, MemoryDone, Prepare, GoOn, restVars, passVars, callerVars, cfgVars,
         AtTools, BetweenPasses, Place, Stuck, Ending
<1>6. CASE StreamClosedWithCalls
  BY <1>6 DEF StreamClosedWithCalls, GoOn, restVars, passVars, callerVars, cfgVars, TalkInv,
              Place, AtTools, BetweenPasses, Stuck, Ending
<1>7. CASE Request
  BY <1>7 DEF Request, callerVars, cfgVars, TalkInv, Place, AtTools, BetweenPasses, Stuck, Ending
<1>8. CASE CallTool \/ RunBatch
  BY <1>8, TalkFrame DEF CallTool, RunBatch, passVars, callerVars, cfgVars, AtTools,
     BetweenPasses, Place, Stuck, Ending
<1>9. CASE Finalize \/ CloseOut
  BY <1>9, TalkFrame DEF Finalize, CloseOut, passVars, callerVars, cfgVars, AtTools,
     BetweenPasses, Place, Stuck, Ending
<1>10. CASE ConsumeSilent \/ Receive \/ CancelContext \/ UNCHANGED vars
  BY <1>10, TalkFrame
     DEF ConsumeSilent, Receive, CancelContext, vars, restVars, passVars, callerVars, cfgVars,
         Place, Stuck
<1>11. ASSUME NEW c \in Calls, ToolReturn(c) \/ \E kind \in ToolKinds : ToolEmit(c, kind)
       PROVE  TalkInv'
  BY <1>11, TalkFrame DEF ToolReturn, ToolEmit, passVars, callerVars, cfgVars, Place, Stuck
<1>12. ASSUME NEW p \in Emitters, EmitSend(p) PROVE TalkInv'
  <2>1. /\ sending[p] # NoEvent
        /\ UNCHANGED <<batchMode, then, toolCalls, answered, conv, ctxDone>>
        /\ pc' = IF p = Turn THEN then ELSE pc
    BY <1>12 DEF EmitSend, passVars, callerVars, cfgVars
  <2>2. then # "emit" /\ (p = Turn => pc = "emit")
    BY <2>1 DEF IInv, TypeOK, PlaceInv
  <2>3. Place' = Place
    BY <2>1, <2>2 DEF Place
  <2>. QED
    BY <2>1, <2>3, TalkFrame DEF Stuck
<1>13. ASSUME NEW p \in Emitters, EmitAbort(p) PROVE TalkInv'
  <2>1. /\ UNCHANGED <<batchMode, then, toolCalls, answered, conv, ctxDone>>
        /\ pc' = "return" \/ pc' = pc
    BY <1>13 DEF EmitAbort, passVars, callerVars, cfgVars
  <2>. QED
    BY <2>1, TalkFrame DEF Place, AtTools, BetweenPasses, Stuck, Ending
<1>. QED
  BY <1>1, <1>2, <1>3, <1>4, <1>5, <1>6, <1>7, <1>8, <1>9, <1>10, <1>11, <1>12, <1>13,
     TalkEndPass
     DEF Next, EngineStep, SessionStep, Terminated, EmitStep

LEMMA TalkInit == Init => TalkInv
<1>. SUFFICES ASSUME Init PROVE TalkInv
  OBVIOUS
<1>1. conv = <<>> /\ toolCalls = <<>> /\ answered = 0 /\ pc = "idle"
  BY DEF Init
<1>2. DOMAIN conv = {} /\ Len(toolCalls) = 0
  BY <1>1
<1>. QED
  BY <1>1, <1>2 DEF TalkInv, Place, AtTools, Balanced

(***************************************************************************)
(* Each request carries the results of exactly the calls the assistant     *)
(* made, in serial and in batch mode and whatever the passes before it     *)
(* did; of a cancelled turn only the last message may lack them, and it    *)
(* stays the last.                                                         *)
(***************************************************************************)
THEOREM ConversationCorrect == Spec => []ConversationBalanced
<1>1. TalkInv => ConversationBalanced
  BY DEF TalkInv, Balanced, BalancedButLast, ConversationBalanced, AnsweredAt
<1>. QED
  BY <1>1, InvInit, InvNext, TalkInit, TalkNext, PTL DEF Spec

-----------------------------------------------------------------------------
(* The turn implements TurnStream.                                         *)

Log == [k \in DOMAIN emitted |->
          [kind |-> emitted[k].kind, own |-> emitted[k].by = Turn]]

LogEvent == [kind : Kinds \cup {"none"}, own : BOOLEAN]

LEMMA LogFacts ==
  ASSUME emitted \in Seq(Event)
  PROVE  /\ Log \in Seq(LogEvent) /\ Len(Log) = Len(emitted) /\ DOMAIN Log = DOMAIN emitted
         /\ \A k \in DOMAIN emitted :
              Log[k].kind = emitted[k].kind /\ (Log[k].own <=> emitted[k].by = Turn)
         /\ Log = <<>> <=> emitted = <<>>
         /\ Stream!Ended <=> Ended
         /\ Stream!Announced <=> Own("tool_call") # {}
<1>1. DOMAIN emitted = 1..Len(emitted) /\ Len(emitted) \in Nat
  OBVIOUS
<1>2. \A k \in DOMAIN emitted : emitted[k] \in Event
  BY <1>1
<1>3. \A k \in DOMAIN emitted :
        [kind |-> emitted[k].kind, own |-> emitted[k].by = Turn] \in LogEvent
  BY <1>2 DEF Event, LogEvent
<1>4. Log \in Seq(LogEvent) /\ Len(Log) = Len(emitted) /\ DOMAIN Log = DOMAIN emitted
  BY <1>1, <1>3 DEF Log
<1>5. \A k \in DOMAIN emitted :
        Log[k].kind = emitted[k].kind /\ (Log[k].own <=> emitted[k].by = Turn)
  BY DEF Log
<1>6. Log = <<>> <=> emitted = <<>>
  BY <1>4
<1>7. Stream!Ended <=> Ended
  <2>1. Stream!Ended <=> Log # <<>> /\ Log[Len(Log)].own /\ Log[Len(Log)].kind \in Terminal
    BY DEF Stream!Ended, Stream!Terminal, Terminal, Log
  <2>2. emitted # <<>> => Len(Log) \in DOMAIN emitted
    BY <1>1, <1>4
  <2>. QED
    BY <1>4, <1>5, <1>6, <2>1, <2>2 DEF Ended
<1>8. Stream!Announced <=> Own("tool_call") # {}
  <2>1. Stream!Announced <=> \E k \in DOMAIN Log : Log[k].own /\ Log[k].kind = "tool_call"
    BY DEF Stream!Announced, Log
  <2>. QED
    BY <1>4, <1>5, <2>1 DEF Own
<1>. QED
  BY <1>4, <1>5, <1>6, <1>7, <1>8

LEMMA AppendIs ==
  ASSUME NEW S, NEW s \in Seq(S), NEW f \in S
  PROVE  Append(s, f) = [k \in 1..(Len(s) + 1) |-> IF k \in 1..Len(s) THEN s[k] ELSE f]
<1>. DEFINE g == Append(s, f)
<1>1. /\ g \in Seq(S) /\ Len(g) = Len(s) + 1 /\ g[Len(s) + 1] = f
      /\ \A k \in 1..Len(s) : g[k] = s[k]
  BY AppendProperties
<1>. HIDE DEF g
<1>2. g = [k \in 1..Len(g) |-> g[k]] /\ Len(s) \in Nat
  BY <1>1
<1>3. \A k \in 1..(Len(s) + 1) : g[k] = IF k \in 1..Len(s) THEN s[k] ELSE f
  BY <1>1, <1>2
<1>4. g = [k \in 1..(Len(s) + 1) |-> IF k \in 1..Len(s) THEN s[k] ELSE f]
  BY <1>1, <1>2, <1>3
<1>. QED
  BY <1>4 DEF g

LEMMA LogAppend ==
  ASSUME emitted \in Seq(Event), NEW e \in Event, emitted' = Append(emitted, e)
  PROVE  Log' = Append(Log, [kind |-> e.kind, own |-> e.by = Turn])
<1>. DEFINE f == [kind |-> e.kind, own |-> e.by = Turn]
<1>1. /\ emitted' \in Seq(Event) /\ Len(emitted') = Len(emitted) + 1
      /\ \A k \in 1..Len(emitted) : emitted'[k] = emitted[k]
      /\ emitted'[Len(emitted) + 1] = e
  OBVIOUS
<1>2. /\ Log \in Seq(LogEvent) /\ Len(Log) = Len(emitted)
      /\ \A k \in 1..Len(emitted) :
           Log[k] = [kind |-> emitted[k].kind, own |-> emitted[k].by = Turn]
  BY LogFacts DEF Log
<1>3. Log' = [k \in 1..(Len(emitted) + 1) |->
                [kind |-> emitted'[k].kind, own |-> emitted'[k].by = Turn]]
  BY <1>1 DEF Log
<1>a. f \in LogEvent
  BY DEF Event, LogEvent
<1>. HIDE DEF f
<1>4. Append(Log, f) = [k \in 1..(Len(emitted) + 1) |->
                          IF k \in 1..Len(emitted) THEN Log[k] ELSE f]
  BY <1>a, <1>2, AppendIs
<1>. QED
  BY <1>1, <1>2, <1>3, <1>4 DEF f

(***************************************************************************)
(* Tools run only after the turn has announced them: while a pass holds    *)
(* calls, one was announced, or the first of them is being announced.      *)
(***************************************************************************)
AnnounceInv ==
  toolCalls # <<>> /\ Place \notin Ending =>
    Own("tool_call") # {} \/ sending[Turn].kind = "tool_call"

\* A step after which the pass holds no calls it did not hold before.
LEMMA AnnounceFrame ==
  ASSUME AnnounceInv, toolCalls' = toolCalls \/ toolCalls' = <<>>, emitted' = emitted,
         sending'[Turn] = sending[Turn] \/ sending[Turn] = NoEvent \/ Place' \in Ending,
         Place \in Ending => Place' \in Ending
  PROVE  AnnounceInv'
<1>1. Own("tool_call")' = Own("tool_call") /\ NoEvent.kind # "tool_call"
  BY DEF Own, NoEvent
<1>. QED
  BY <1>1 DEF AnnounceInv

LEMMA AnnounceNext == IInv /\ AnnounceInv /\ [Next]_vars => AnnounceInv'
<1>. SUFFICES ASSUME IInv, AnnounceInv, [Next]_vars PROVE AnnounceInv'
  OBVIOUS
<1>0. /\ emitted \in Seq(Event) /\ sending \in [Emitters -> Event]
      /\ Turn \in Emitters /\ Turn \notin Calls /\ Emitters = {Turn} \cup Calls
      /\ then # "emit" /\ (pc # "emit" => sending[Turn] = NoEvent)
  BY BoundsAssumption DEF Turn, Emitters, Calls, IInv, TypeOK, PlaceInv
<1>1. CASE \/ Start \/ PrepareFails \/ NoSession \/ RequestFails \/ ConsumeInterrupted
           \/ StreamClosed \/ EmitMemory \/ ConsumeMessage \/ ConsumeError \/ EmitResult
  <2>1. /\ toolCalls' = toolCalls /\ emitted' = emitted
        /\ pc \notin Ending \cup {"emit"}
    BY <1>1 DEF Start, PrepareFails, NoSession, RequestFails, ConsumeInterrupted, StreamClosed,
       EmitMemory, ConsumeMessage, ConsumeError, EmitResult, ConsumeEvent, TurnEvent, TurnEmit,
       EnterEmit, restVars, passVars, Ending
  <2>. QED
    BY <1>0, <2>1, AnnounceFrame DEF Place
<1>2. CASE ConsumeToolCall
  <2>1. /\ sending' = IF ctxDone THEN sending
                      ELSE [sending EXCEPT ![Turn] =
                              [kind |-> "tool_call", call |-> nextCall, by |-> Turn, seq |-> sequence]]
        /\ pc' = IF ctxDone THEN "return" ELSE "emit"
    BY <1>2 DEF ConsumeToolCall, TurnEmit, EnterEmit
  <2>2. CASE ctxDone
    BY <2>1, <2>2 DEF AnnounceInv, Place, Ending
  <2>3. CASE ~ctxDone
    BY <1>0, <2>1, <2>3 DEF AnnounceInv
  <2>. QED
    BY <2>2, <2>3
<1>3. CASE \/ StreamTurn \/ MemoryDone \/ StreamClosedWithCalls \/ Prepare \/ CallTool
           \/ RunBatch \/ EndPass \/ Finalize \/ CloseOut \/ Request
           \/ ConsumeSilent \/ Receive \/ CancelContext \/ UNCHANGED vars
  <2>1. /\ toolCalls' = toolCalls \/ toolCalls' = <<>>
        /\ UNCHANGED <<emitted, sending>>
    BY <1>3 DEF StreamTurn, MemoryDone, StreamClosedWithCalls, Prepare, CallTool, RunBatch,
       EndPass, Finalize, CloseOut, Request, ConsumeSilent, Receive, CancelContext, GoOn, vars,
       restVars, passVars, emitVars
  <2>2. Place \in Ending => Place' \in Ending
    BY <1>3 DEF StreamTurn, MemoryDone, StreamClosedWithCalls, Prepare, CallTool, RunBatch,
       EndPass, Finalize, CloseOut, Request, ConsumeSilent, Receive, CancelContext, GoOn, vars,
       Place, Ending
  <2>. QED
    BY <2>1, <2>2, AnnounceFrame
<1>4. ASSUME NEW p \in Emitters, EmitSend(p) PROVE AnnounceInv'
  <2>1. /\ sending[p] # NoEvent /\ emitted' = Append(emitted, sending[p])
        /\ sending' = [sending EXCEPT ![p] = NoEvent]
        /\ pc' = (IF p = Turn THEN then ELSE pc) /\ UNCHANGED <<then, toolCalls>>
    BY <1>4 DEF EmitSend, passVars
  <2>2. /\ Place' = Place
        /\ p # Turn => sending[Turn] = NoEvent
        /\ sending[p].by = p
    BY <1>0, <2>1 DEF Place, IInv, PlaceInv, Numbers
  <2>3. Own("tool_call") # {} \/ (p = Turn /\ sending[p].kind = "tool_call")
          => Own("tool_call")' # {}
    <3>1. /\ Len(emitted) + 1 \in DOMAIN emitted' /\ emitted'[Len(emitted) + 1] = sending[p]
          /\ \A k \in DOMAIN emitted : k \in DOMAIN emitted' /\ emitted'[k] = emitted[k]
      BY <1>0, <2>1
    <3>. QED
      BY <2>2, <3>1 DEF Own
  <2>4. NoEvent.kind # "tool_call"
    BY DEF NoEvent
  <2>. QED
    BY <2>1, <2>2, <2>3, <2>4 DEF AnnounceInv
<1>5. ASSUME NEW p \in Emitters, EmitAbort(p) PROVE AnnounceInv'
  <2>1. /\ sending[p] # NoEvent /\ sending' = [sending EXCEPT ![p] = NoEvent]
        /\ pc' = (IF p = Turn THEN "return" ELSE pc) /\ UNCHANGED <<then, toolCalls, emitted>>
    BY <1>5 DEF EmitAbort, passVars
  <2>2. CASE p = Turn
    BY <1>0, <2>1, <2>2, AnnounceFrame DEF Place, Ending
  <2>3. CASE p # Turn
    BY <1>0, <2>1, <2>3, AnnounceFrame DEF Place
  <2>. QED
    BY <2>2, <2>3
<1>6. ASSUME NEW c \in Calls, ToolReturn(c) \/ \E kind \in ToolKinds : ToolEmit(c, kind)
      PROVE  AnnounceInv'
  <2>1. /\ UNCHANGED <<toolCalls, emitted, pc, then>> /\ sending'[Turn] = sending[Turn]
    BY <1>0, <1>6 DEF ToolReturn, ToolEmit, EnterEmit, passVars, emitVars
  <2>. QED
    BY <2>1, AnnounceFrame DEF Place
<1>. QED
  BY <1>1, <1>2, <1>3, <1>4, <1>5, <1>6
     DEF Next, EngineStep, SessionStep, Terminated, EmitStep

LEMMA AnnounceInit == Init => AnnounceInv
BY DEF Init, AnnounceInv

LEMMA StreamInit == Init => Stream!Init
BY DEF Init, Stream!Init

LEMMA StreamNext == IInv /\ TalkInv /\ AnnounceInv /\ [Next]_vars => [Stream!Next]_Stream!vars
<1>. SUFFICES ASSUME IInv, TalkInv, AnnounceInv, [Next]_vars PROVE [Stream!Next]_Stream!vars
  OBVIOUS
<1>0. emitted \in Seq(Event) /\ sending \in [Emitters -> Event]
  BY DEF IInv, TypeOK
<1>1. ASSUME UNCHANGED <<emitted, outClosed, ctxDone>> PROVE UNCHANGED Stream!vars
  BY <1>1 DEF Stream!vars
<1>2. ASSUME NEW p \in Emitters, EmitSend(p) PROVE Stream!Next
  <2>1. /\ sending[p] # NoEvent /\ emitted' = Append(emitted, sending[p])
        /\ outClosed' = outClosed /\ ctxDone' = ctxDone
    BY <1>2 DEF EmitSend, endVars, callerVars
  <2>2. sending[p] \in Event /\ sending[p].kind \in Kinds /\ sending[p].by = p
    BY <1>0, <2>1 DEF IInv, Numbers
  <2>3. pc \in {"emit", "running"} /\ ~outClosed
    BY <2>1 DEF IInv, PlaceInv, Emitters
  <2>4. ~Stream!Ended
    BY <1>0, <2>3, LogFacts DEF IInv, StreamInv, Ending
  <2>5. PICK kind \in Stream!Kinds : kind = sending[p].kind
    BY <2>2 DEF Kinds, Terminal, Stream!Kinds, Stream!Terminal
  <2>6. Log' = Append(Log, [kind |-> kind, own |-> p = Turn])
    BY <1>0, <2>1, <2>2, <2>5, LogAppend
  <2>7. CASE p = Turn
    <3>1. Log = <<>> <=> kind = "started"
      BY <1>0, <2>1, <2>5, <2>7, LogFacts DEF IInv, PlaceInv, StreamInv
    <3>2. Stream!Publish(kind)
      BY <2>1, <2>3, <2>4, <2>6, <2>7, <3>1 DEF Stream!Publish, Log
    <3>. QED
      BY <2>5, <3>2 DEF Stream!Next
  <2>8. CASE p # Turn
    <3>1. p \in Calls /\ pc = "running" /\ sending[Turn] = NoEvent
      BY <2>1, <2>8 DEF IInv, PlaceInv, Emitters
    <3>2. toolCalls # <<>> /\ Place \notin Ending
      BY <3>1 DEF TalkInv, Place, AtTools, Ending
    <3>3. Own("tool_call") # {}
      BY <3>1, <3>2 DEF AnnounceInv, NoEvent
    <3>4. Stream!Announced
      BY <1>0, <3>3, LogFacts
    <3>5. Stream!ToolPublish(kind)
      BY <2>1, <2>3, <2>4, <2>6, <2>8, <3>4 DEF Stream!ToolPublish, Log
    <3>. QED
      BY <2>5, <3>5 DEF Stream!Next
  <2>. QED
    BY <2>7, <2>8
<1>3. CASE CloseOut
  <2>1. /\ pc = "close" /\ outClosed' = TRUE /\ UNCHANGED <<emitted, ctxDone>>
    BY <1>3 DEF CloseOut, emitVars, callerVars
  <2>2. ~outClosed /\ (Ended \/ ctxDone)
    BY <2>1 DEF IInv, PlaceInv, StreamInv, Ending
  <2>3. Stream!Close
    BY <1>0, <2>1, <2>2, LogFacts DEF Stream!Close
  <2>. QED
    BY <2>3 DEF Stream!Next
<1>4. CASE CancelContext
  <2>1. Stream!Cancel
    BY <1>4 DEF CancelContext, Stream!Cancel, emitVars, endVars
  <2>. QED
    BY <2>1 DEF Stream!Next
<1>5. ASSUME NEW kind, NEW call, NEW next, TurnEmit(kind, call, next),
             UNCHANGED <<outClosed, ctxDone>>
      PROVE  UNCHANGED Stream!vars
  BY <1>1, <1>5 DEF TurnEmit, EnterEmit
<1>6. CASE \/ Start \/ PrepareFails \/ NoSession \/ RequestFails \/ ConsumeInterrupted
           \/ StreamClosed \/ EmitMemory \/ ConsumeMessage \/ ConsumeError
           \/ ConsumeToolCall \/ EmitResult
  BY <1>5, <1>6 DEF Start, PrepareFails, NoSession, RequestFails, ConsumeInterrupted,
     StreamClosed, EmitMemory, ConsumeMessage, ConsumeError, ConsumeToolCall, EmitResult,
     ConsumeEvent, TurnEvent, restVars, endVars, callerVars
<1>7. CASE \/ StreamTurn \/ Prepare \/ MemoryDone \/ Request \/ ConsumeSilent
           \/ StreamClosedWithCalls \/ CallTool \/ RunBatch \/ EndPass
           \/ Finalize \/ Receive \/ UNCHANGED vars
  BY <1>1, <1>7 DEF StreamTurn, Prepare, MemoryDone, Request, ConsumeSilent,
     StreamClosedWithCalls, CallTool, RunBatch, EndPass, Finalize, Receive, GoOn,
     vars, restVars, emitVars, endVars, callerVars
<1>8. ASSUME NEW c \in Calls, ToolReturn(c) \/ \E kind \in ToolKinds : ToolEmit(c, kind)
      PROVE  UNCHANGED Stream!vars
  BY <1>1, <1>8 DEF ToolReturn, ToolEmit, EnterEmit, emitVars, endVars, callerVars
<1>9. ASSUME NEW p \in Emitters, EmitAbort(p) PROVE UNCHANGED Stream!vars
  BY <1>1, <1>9 DEF EmitAbort, endVars, callerVars
<1>. QED
  BY <1>2, <1>3, <1>4, <1>6, <1>7, <1>8, <1>9
     DEF Next, EngineStep, SessionStep, Terminated, EmitStep

(***************************************************************************)
(* A reader sees "started" first, nothing after the event the turn ends    *)
(* itself with, events of tools only after a call was announced, and a     *)
(* close that comes once, after a terminal event of the turn or a          *)
(* cancellation: whatever kinds the tools emit, terminal ones as well.     *)
(***************************************************************************)
THEOREM StreamImplemented == Spec => ImplementsTurnStream
BY InvInit, InvNext, TalkInit, TalkNext, AnnounceInit, AnnounceNext, StreamInit, StreamNext, PTL
   DEF Spec, ImplementsTurnStream, Stream!Spec

-----------------------------------------------------------------------------
(* The results a turn owes.  OweInv: until the turn is cancelled each call *)
(* announced and not answered is one the pass still holds, or the one      *)
(* whose result is being sent; no call is left when "completed" is sent.   *)

\* The call n was announced and has no result after that.
Pending(n) ==
  \E k \in Own("tool_call") :
    /\ emitted[k].call = n
    /\ \A l \in Own("tool_result") : l > k => emitted[l].call # n

NothingPending == \A n \in Nat : ~Pending(n)

\* The pass holds the call n without a result, or its result is being sent.
Owes(n) ==
  \/ \E j \in DOMAIN toolCalls : j > answered /\ toolCalls[j] = n
  \/ sending[Turn].kind = "tool_result" /\ sending[Turn].call = n

HasCompleted == Own("completed") # {}

OweInv ==
  /\ ~ctxDone => \A n \in Nat : Pending(n) => Owes(n)
  /\ ~ctxDone /\ sending[Turn].kind = "tool_call" => Owes(sending[Turn].call)
  /\ sending[Turn].kind = "completed" => NothingPending
  /\ HasCompleted => pc \in Ending /\ NothingPending

\* A live turn between two passes owes nothing.
LEMMA NothingOwed ==
  ASSUME IInv, TalkInv, OweInv, ~ctxDone, sending[Turn] = NoEvent,
         toolCalls = <<>> \/ Place \in BetweenPasses
  PROVE  NothingPending
<1>1. toolCalls \in Seq(Calls) /\ answered \in 0..Len(toolCalls)
  BY DEF IInv, TypeOK
<1>2. answered = Len(toolCalls)
  <2>1. CASE toolCalls = <<>>
    <3>1. Len(toolCalls) = 0
      BY <2>1
    <3>. QED
      BY <1>1, <3>1
  <2>. QED
    BY <2>1 DEF TalkInv
<1>3. \A j \in DOMAIN toolCalls : ~(j > answered)
  BY <1>1, <1>2
<1>4. sending[Turn].kind # "tool_result"
  BY DEF NoEvent
<1>. QED
  BY <1>3, <1>4 DEF OweInv, Owes, NothingPending

\* The goroutine of the turn enters an emit.
LEMMA OweEnter ==
  ASSUME IInv, OweInv, NEW kind \in Kinds, NEW call \in Nat, NEW next,
         TurnEmit(kind, call, next), ctxDone' = ctxDone, pc \notin Ending,
         ~ctxDone => \A n \in Nat : Owes(n) => Owes(n)',
         ~ctxDone /\ kind = "tool_call" => Owes(call)',
         ~ctxDone /\ kind = "completed" => NothingPending
  PROVE  OweInv'
<1>. DEFINE e == [kind |-> kind, call |-> call, by |-> Turn, seq |-> sequence]
<1>1. /\ MutexFree /\ emitted' = emitted
      /\ sending' = IF ctxDone THEN sending ELSE [sending EXCEPT ![Turn] = e]
  BY DEF TurnEmit, EnterEmit
<1>2. e.kind = kind /\ e.call = call
  OBVIOUS
<1>. HIDE DEF e
<1>3. /\ Turn \in Emitters /\ Turn \notin Calls /\ Calls \subseteq Emitters
      /\ DOMAIN sending = Emitters
  BY BoundsAssumption DEF Turn, Emitters, Calls, IInv, TypeOK
<1>4. /\ \A c \in Calls : sending'[c] = NoEvent
      /\ sending'[Turn] = IF ctxDone THEN NoEvent ELSE e
  BY <1>1, <1>3 DEF MutexFree
<1>5. \A n \in Nat : Pending(n)' <=> Pending(n)
  BY <1>1 DEF Pending, Own
<1>6. ~HasCompleted /\ ~HasCompleted'
  BY <1>1 DEF OweInv, HasCompleted, Own
<1>7. CASE ctxDone
  BY <1>4, <1>6, <1>7 DEF OweInv, NoEvent
<1>8. CASE ~ctxDone
  <2>1. kind = "tool_call" => Owes(sending[Turn].call)'
    BY <1>2, <1>4, <1>8 DEF Owes
  <2>2. sending'[Turn] = e
    BY <1>4, <1>8
  <2>3. (\A n \in Nat : Pending(n) => Owes(n))'
    BY <1>5, <1>8 DEF OweInv
  <2>4. kind = "completed" => NothingPending'
    BY <1>5, <1>8 DEF NothingPending
  <2>. QED
    BY <1>2, <1>4, <1>6, <2>1, <2>2, <2>3, <2>4 DEF OweInv
<1>. QED
  BY <1>7, <1>8

\* A step that emits nothing and leaves the calls of the pass alone.
LEMMA OweFrame ==
  ASSUME OweInv, UNCHANGED <<toolCalls, answered, emitted>>, ctxDone => ctxDone',
         sending'[Turn] = sending[Turn],
         pc \in Ending => pc' \in Ending
  PROVE  OweInv'
<1>1. /\ \A n \in Nat : Pending(n)' <=> Pending(n)
      /\ \A n : Owes(n)' <=> Owes(n)
      /\ HasCompleted' <=> HasCompleted
  BY DEF Pending, Owes, HasCompleted, Own
<1>2. NothingPending' <=> NothingPending
  BY <1>1 DEF NothingPending
<1>3. (~ctxDone /\ sending[Turn].kind = "tool_call" => Owes(sending[Turn].call))'
  <2>1. Owes(sending[Turn].call)' <=> Owes(sending[Turn].call)
    BY DEF Owes
  <2>. QED
    BY <2>1 DEF OweInv
<1>. QED
  BY <1>1, <1>2, <1>3 DEF OweInv

\* What the event that leaves does to the calls pending.
LEMMA PendingSend ==
  ASSUME IInv, NEW e \in Event, emitted' = Append(emitted, e)
  PROVE  /\ \A n \in Nat : Pending(n)' =>
              \/ Pending(n) /\ ~(e.by = Turn /\ e.kind = "tool_result" /\ e.call = n)
              \/ e.by = Turn /\ e.kind = "tool_call" /\ e.call = n
         /\ HasCompleted' <=> HasCompleted \/ (e.by = Turn /\ e.kind = "completed")
<1>. DEFINE m == Len(emitted) + 1
<1>1. emitted \in Seq(Event)
  BY DEF IInv, TypeOK
<1>2. /\ m \in Nat /\ DOMAIN emitted = 1..(m - 1) /\ DOMAIN emitted' = 1..m
      /\ emitted'[m] = e /\ m \in DOMAIN emitted'
      /\ \A k \in DOMAIN emitted : k \in DOMAIN emitted' /\ emitted'[k] = emitted[k] /\ m > k
      /\ \A k \in DOMAIN emitted' : k \in DOMAIN emitted \/ k = m
  BY <1>1
<1>. HIDE DEF m
<1>3. /\ \A kind : Own(kind) \subseteq Own(kind)'
      /\ \A kind : \A k \in Own(kind)' : k \in Own(kind) \/ (k = m /\ e.by = Turn /\ e.kind = kind)
      /\ e.by = Turn => m \in Own(e.kind)'
      /\ \A kind : \A k \in Own(kind) : emitted'[k] = emitted[k] /\ m > k
  BY <1>2 DEF Own
<1>4. ASSUME NEW n \in Nat, Pending(n)'
      PROVE  \/ Pending(n) /\ ~(e.by = Turn /\ e.kind = "tool_result" /\ e.call = n)
             \/ e.by = Turn /\ e.kind = "tool_call" /\ e.call = n
  <2>1. PICK k \in Own("tool_call")' :
          /\ emitted'[k].call = n
          /\ \A l \in Own("tool_result")' : l > k => emitted'[l].call # n
    BY <1>4 DEF Pending
  <2>2. CASE k = m /\ e.by = Turn /\ e.kind = "tool_call"
    BY <1>2, <2>1, <2>2
  <2>3. CASE k \in Own("tool_call")
    <3>1. Pending(n)
      BY <1>3, <2>1, <2>3 DEF Pending
    <3>2. ~(e.by = Turn /\ e.kind = "tool_result" /\ e.call = n)
      BY <1>2, <1>3, <2>1, <2>3
    <3>. QED
      BY <3>1, <3>2
  <2>. QED
    BY <1>3, <2>1, <2>2, <2>3
<1>5. HasCompleted' <=> HasCompleted \/ (e.by = Turn /\ e.kind = "completed")
  BY <1>3 DEF HasCompleted
<1>. QED
  BY <1>4, <1>5

LEMMA OweSend ==
  ASSUME IInv, OweInv, NEW p \in Emitters, EmitSend(p)
  PROVE  OweInv'
<1>. DEFINE e == sending[p]
<1>1. /\ e # NoEvent /\ emitted' = Append(emitted, e)
      /\ sending' = [sending EXCEPT ![p] = NoEvent]
      /\ pc' = IF p = Turn THEN then ELSE pc
      /\ UNCHANGED <<then, toolCalls, answered, ctxDone>>
  BY DEF EmitSend, passVars, callerVars
<1>2. sending \in [Emitters -> Event] /\ e \in Event
  BY DEF IInv, TypeOK
<1>3. Turn \in Emitters /\ Turn \notin Calls /\ Emitters = {Turn} \cup Calls
  BY BoundsAssumption DEF Turn, Emitters, Calls
<1>4. e.by = p /\ \A q \in Emitters : sending'[q] = NoEvent
  BY <1>1, <1>2 DEF IInv, Numbers
<1>5. pc \notin Ending /\ ~HasCompleted
  BY <1>1, <1>3 DEF IInv, PlaceInv, OweInv, Ending
<1>6. sending'[Turn].kind = "none"
  BY <1>3, <1>4 DEF NoEvent
<1>7. /\ \A n \in Nat : Pending(n)' =>
           \/ Pending(n) /\ ~(e.by = Turn /\ e.kind = "tool_result" /\ e.call = n)
           \/ e.by = Turn /\ e.kind = "tool_call" /\ e.call = n
      /\ HasCompleted' <=> e.by = Turn /\ e.kind = "completed"
  BY <1>1, <1>2, <1>5, PendingSend
<1>8. CASE p = Turn
  <2>1. \A n \in Nat : Owes(n) /\ ~(e.kind = "tool_result" /\ e.call = n) => Owes(n)'
    BY <1>1, <1>8 DEF Owes
  <2>2. ~ctxDone /\ e.kind = "tool_call" => Owes(e.call)
    BY <1>8 DEF OweInv
  <2>3. ~ctxDone => \A n \in Nat : Pending(n)' => Owes(n)'
    BY <1>4, <1>7, <1>8, <2>1, <2>2 DEF OweInv
  <2>4. e.kind = "completed" => pc' = "return" /\ NothingPending'
    <3>1. SUFFICES ASSUME e.kind = "completed" PROVE pc' = "return" /\ NothingPending'
      OBVIOUS
    <3>2. pc = "emit" /\ then = "return"
      BY <1>1, <1>8, <3>1 DEF IInv, PlaceInv, StreamInv, Terminal
    <3>3. NothingPending'
      BY <1>7, <1>8, <3>1 DEF OweInv, NothingPending
    <3>. QED
      BY <1>1, <1>8, <3>2, <3>3
  <2>. QED
    BY <1>1, <1>3, <1>4, <1>6, <1>7, <2>3, <2>4 DEF OweInv, Ending
<1>9. CASE p \in Calls
  <2>1. e.by # Turn /\ sending[Turn] = NoEvent
    BY <1>1, <1>3, <1>4, <1>9 DEF IInv, Numbers
  <2>2. \A n \in Nat : Pending(n)' => Pending(n)
    BY <1>7, <2>1
  <2>3. \A n : Owes(n)' <=> Owes(n)
    BY <1>1, <1>3, <1>4, <2>1 DEF Owes
  <2>4. ~ctxDone => \A n \in Nat : Pending(n)' => Owes(n)'
    BY <2>2, <2>3 DEF OweInv
  <2>. QED
    BY <1>1, <1>3, <1>4, <1>6, <1>7, <2>1, <2>4 DEF OweInv
<1>. QED
  BY <1>3, <1>8, <1>9

LEMMA OweAbort ==
  ASSUME IInv, OweInv, NEW p \in Emitters, EmitAbort(p)
  PROVE  OweInv'
<1>1. /\ ctxDone /\ ctxDone' = ctxDone /\ emitted' = emitted
      /\ sending[p] # NoEvent /\ sending' = [sending EXCEPT ![p] = NoEvent]
      /\ sending \in [Emitters -> Event]
      /\ pc' = IF p = Turn THEN "return" ELSE pc
  BY DEF EmitAbort, callerVars, IInv, TypeOK
<1>2. Turn \in Emitters /\ Turn \notin Calls /\ Emitters = {Turn} \cup Calls
  BY BoundsAssumption DEF Turn, Emitters, Calls
<1>3. \A q \in Emitters : sending'[q] = NoEvent
  BY <1>1 DEF IInv, Numbers
<1>4. ~HasCompleted'
  BY <1>1, <1>2 DEF OweInv, HasCompleted, Own, IInv, PlaceInv, Ending
<1>5. sending'[Turn].kind = "none"
  BY <1>2, <1>3 DEF NoEvent
<1>. QED
  BY <1>1, <1>2, <1>3, <1>4, <1>5 DEF OweInv

LEMMA OweNext == IInv /\ TalkInv /\ OweInv /\ [Next]_vars => OweInv'
<1>. SUFFICES ASSUME IInv, TalkInv, OweInv, [Next]_vars PROVE OweInv'
  OBVIOUS
<1>a. {"started", "memory_read", "message", "tool_call", "tool_result",
       "completed", "error"} = Kinds
  BY DEF Kinds, Terminal
<1>b. pc # "emit" => sending[Turn] = NoEvent
  BY DEF IInv, PlaceInv
<1>c. ASSUME UNCHANGED <<toolCalls, answered>>, sending[Turn] = NoEvent
      PROVE  \A n \in Nat : Owes(n) => Owes(n)'
  BY <1>c DEF Owes, NoEvent
<1>1. CASE Start \/ PrepareFails \/ RequestFails \/ ConsumeInterrupted
  BY <1>1, <1>a, <1>b, <1>c, OweEnter
     DEF Start, PrepareFails, RequestFails, ConsumeInterrupted, TurnEvent, restVars, passVars,
         callerVars, Ending
<1>2. CASE NoSession \/ StreamClosed
  <2>1. ~ctxDone => NothingPending
    BY <1>2, <1>b, NothingOwed
       DEF NoSession, StreamClosed, TurnEvent, Place, BetweenPasses
  <2>. QED
    BY <1>2, <1>a, <1>b, <1>c, <2>1, OweEnter
       DEF NoSession, StreamClosed, TurnEvent, restVars, passVars, callerVars, Ending
<1>3. CASE EmitMemory \/ ConsumeMessage \/ ConsumeError
  BY <1>3, <1>a, <1>b, <1>c, OweEnter
     DEF EmitMemory, ConsumeMessage, ConsumeError, ConsumeEvent, passVars, callerVars, Ending
<1>4. CASE ConsumeToolCall
  <2>1. /\ toolCalls' = Append(toolCalls, nextCall) /\ answered' = answered
        /\ TurnEmit("tool_call", nextCall, "consume")
        /\ ctxDone' = ctxDone /\ pc = "consume" /\ nextCall \in Calls
    BY <1>4 DEF ConsumeToolCall, callerVars
  <2>2. toolCalls \in Seq(Calls) /\ answered \in 0..Len(toolCalls)
    BY DEF IInv, TypeOK
  <2>3. /\ \A j \in DOMAIN toolCalls : j \in DOMAIN toolCalls' /\ toolCalls'[j] = toolCalls[j]
        /\ Len(toolCalls) + 1 \in DOMAIN toolCalls' /\ Len(toolCalls) + 1 > answered
        /\ toolCalls'[Len(toolCalls) + 1] = nextCall
    BY <2>1, <2>2
  <2>4. PICK c \in Nat : c = nextCall
    BY <2>1 DEF Calls
  <2>5. \A n \in Nat : Owes(n) => Owes(n)'
    BY <1>b, <2>1, <2>3 DEF Owes, NoEvent
  <2>6. Owes(c)'
    BY <2>1, <2>3, <2>4 DEF Owes
  <2>. QED
    BY <1>a, <2>1, <2>4, <2>5, <2>6, OweEnter DEF Ending
<1>5. CASE EmitResult
  <2>1. /\ toolCalls' = toolCalls /\ answered' = answered + 1 /\ ~AllAnswered
        /\ TurnEmit("tool_result", toolCalls[answered + 1],
                    IF batchMode THEN "running" ELSE "tools")
        /\ ctxDone' = ctxDone /\ pc = "running"
    BY <1>5 DEF EmitResult, callerVars
  <2>2. toolCalls \in Seq(Calls) /\ answered \in 0..Len(toolCalls) /\ PassTypes
    BY TypeParts DEF IInv, TypeOK
  <2>3. toolCalls[answered + 1] \in Calls
    BY <2>1, <2>2, NextAnswer DEF AllAnswered
  <2>4. PICK c \in Nat : c = toolCalls[answered + 1]
    BY <2>3 DEF Calls
  <2>5. ~ctxDone => sending'[Turn].kind = "tool_result" /\ sending'[Turn].call = c
    <3>1. Turn \in DOMAIN sending
      BY BoundsAssumption DEF Turn, Emitters, IInv, TypeOK
    <3>. QED
      BY <2>1, <2>4, <3>1 DEF TurnEmit, EnterEmit
  <2>6. \A j \in DOMAIN toolCalls : j > answered => j > answered + 1 \/ j = answered + 1
    BY <2>2
  <2>7. ~ctxDone => \A n \in Nat : Owes(n) => Owes(n)'
    BY <1>b, <2>1, <2>4, <2>5, <2>6 DEF Owes, NoEvent
  <2>. QED
    BY <1>a, <2>1, <2>4, <2>7, OweEnter DEF Ending
<1>6. CASE \/ StreamTurn \/ MemoryDone \/ StreamClosedWithCalls \/ Prepare \/ CallTool
           \/ RunBatch \/ EndPass \/ Finalize \/ CloseOut
           \/ ConsumeSilent \/ Receive \/ CancelContext \/ UNCHANGED vars
  <2>1. UNCHANGED <<toolCalls, answered, emitted, sending>> /\ (ctxDone => ctxDone')
    BY <1>6 DEF StreamTurn, MemoryDone, StreamClosedWithCalls, Prepare, CallTool, RunBatch,
       EndPass, Finalize, CloseOut, ConsumeSilent, Receive, CancelContext, GoOn, vars,
       restVars, passVars, emitVars, callerVars
  <2>2. pc \in Ending => pc' \in Ending
    BY <1>6 DEF StreamTurn, MemoryDone, StreamClosedWithCalls, Prepare, CallTool, RunBatch,
       EndPass, Finalize, CloseOut, ConsumeSilent, Receive, CancelContext, GoOn, vars, Ending
  <2>. QED
    BY <2>1, <2>2, OweFrame
<1>7. CASE Request
  <2>1. /\ pc = "request" /\ toolCalls' = <<>> /\ UNCHANGED <<emitted, sending, ctxDone>>
    BY <1>7 DEF Request, emitVars, callerVars
  <2>2. sending[Turn].kind = "none" /\ sending[Turn] = NoEvent
    BY <1>b, <2>1 DEF NoEvent
  <2>3. ~ctxDone => NothingPending
    BY <2>1, <2>2, NothingOwed DEF Place, BetweenPasses
  <2>4. /\ \A n \in Nat : Pending(n)' <=> Pending(n)
        /\ ~HasCompleted'
    BY <2>1 DEF Pending, HasCompleted, Own, OweInv, Ending
  <2>. QED
    BY <2>1, <2>2, <2>3, <2>4 DEF OweInv, NothingPending
<1>8. ASSUME NEW c \in Calls, ToolReturn(c) PROVE OweInv'
  BY <1>8, OweFrame DEF ToolReturn, passVars, emitVars, callerVars
<1>9. ASSUME NEW c \in Calls, NEW kind \in ToolKinds, ToolEmit(c, kind) PROVE OweInv'
  <2>1. /\ UNCHANGED <<toolCalls, answered, emitted, ctxDone, pc>>
        /\ sending' = IF ctxDone THEN sending
                      ELSE [sending EXCEPT ![c] =
                              [kind |-> kind, call |-> 0, by |-> c, seq |-> sequence]]
        /\ sending \in [Emitters -> Event]
    BY <1>9 DEF ToolEmit, EnterEmit, passVars, callerVars, IInv, TypeOK
  <2>2. Turn \in Emitters /\ Turn # c /\ Calls \subseteq Emitters
    BY BoundsAssumption DEF Turn, Emitters, Calls
  <2>3. sending'[Turn] = sending[Turn]
    BY <2>1, <2>2
  <2>. QED
    BY <2>1, <2>3, OweFrame
<1>. QED
  BY <1>1, <1>2, <1>3, <1>4, <1>5, <1>6, <1>7, <1>8, <1>9, OweSend, OweAbort
     DEF Next, EngineStep, SessionStep, Terminated, EmitStep

LEMMA OweInit == Init => OweInv
<1>. SUFFICES ASSUME Init PROVE OweInv
  OBVIOUS
<1>1. emitted = <<>> /\ Turn \in Emitters /\ Calls \subseteq Emitters
      /\ \A p \in Emitters : sending[p] = NoEvent
  BY DEF Init, Emitters
<1>2. DOMAIN emitted = {}
  BY <1>1
<1>. QED
  BY <1>1, <1>2 DEF OweInv, Pending, HasCompleted, Own, NoEvent

LEMMA AnsweredFromInv == IInv /\ OweInv => CompletedMeansAnswered
<1>. SUFFICES ASSUME IInv, OweInv, HasCompleted, NEW k \in Own("tool_call")
              PROVE  \E l \in Own("tool_result") : l > k /\ emitted[l].call = emitted[k].call
  BY DEF CompletedMeansAnswered, HasCompleted
<1>1. emitted \in Seq(Event) /\ k \in DOMAIN emitted
  BY DEF IInv, TypeOK, Own
<1>2. emitted[k] \in Event
  BY <1>1
<1>3. emitted[k].call \in Nat
  BY <1>2 DEF Event
<1>4. ~Pending(emitted[k].call)
  BY <1>3 DEF OweInv, NothingPending
<1>. QED
  BY <1>4 DEF Pending

(***************************************************************************)
(* A turn says it completed only after a result of its own for each call   *)
(* it announced, whatever its tools emit in between and even when its      *)
(* context is cancelled while it says so.                                  *)
(***************************************************************************)
THEOREM CompletionCorrect == Spec => []CompletedMeansAnswered
BY InvInit, InvNext, TalkInit, TalkNext, OweInit, OweNext, AnsweredFromInv, PTL DEF Spec
=============================================================================
