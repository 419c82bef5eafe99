---------------------------- MODULE TurnEngine ----------------------------
(***************************************************************************)
(* One turn of orchestrator.Engine: the goroutine of runTurn with its model*)
(* passes and tool calls, the emit closure with its mutex and its bounded  *)
(* channel, the tools that emit events of their own while they execute,    *)
(* the model session that feeds the passes, the reader of the stream and   *)
(* the caller who may cancel the turn.                                     *)
(*                                                                         *)
(* Messages and results are abstracted to their kinds and to the calls     *)
(* they carry; calls are numbered in the order the model makes them.       *)
(***************************************************************************)
EXTENDS Naturals, Sequences, FiniteSets

CONSTANTS
  MaxPasses,        \* defaultMaxModelPasses
  OutCap,           \* capacity of the event channel
  MaxCalls,         \* bound: tool calls the model makes in a turn
  MaxStream,        \* bound: events of one model stream
  MaxToolEvents,    \* bound: events a tool emits while it executes
  MaxMemory,        \* bound: memory entries a prepared turn carries
  ToolKinds         \* kinds of the events tools emit

Calls == 1..MaxCalls
Turn == 0                         \* the turn's goroutine, among the emitters
Emitters == {Turn} \cup Calls

Terminal == {"completed", "error"}
Kinds == {"started", "memory_read", "message", "tool_call", "tool_result"} \cup Terminal

ASSUME BoundsAssumption ==
  /\ MaxPasses \in Nat \ {0} /\ OutCap \in Nat \ {0}
  /\ MaxCalls \in Nat /\ MaxStream \in Nat /\ MaxToolEvents \in Nat /\ MaxMemory \in Nat

\* eventctx hands tools the emit of the turn, whatever they emit with it.
ASSUME ToolKindsAssumption == ToolKinds \subseteq Kinds

VARIABLES
  \* configuration of the engine
  booted, hasSession, hasFinalizer, batchMode,
  \* the turn's goroutine
  pc, then,         \* where it stands, and where an emit that succeeds leads
  memoryLeft,       \* entries of normalized.Memory not yet emitted
  shouldFinalize,
  report,           \* number of events the finalizer was given, 0 before it ran
  pass,             \* model passes started
  streamLeft,       \* bound on what is left of this pass's stream
  toolCalls,        \* calls of this pass
  answered,         \* how many of them have a result
  conv,             \* messages that earlier passes added to the conversation
  nextCall,         \* number of the next call the model makes
  \* the tools
  executing,        \* calls whose tool is running
  toolEvents,       \* events each tool has emitted
  \* emit
  ctxDone,
  sending,          \* the event each emitter is sending, under emitMu
  sequence,
  emitted,          \* emittedEvents; the channel holds those not yet taken
  outClosed,
  \* the reader
  taken             \* events received

cfgVars == <<booted, hasSession, hasFinalizer, batchMode>>
passVars == <<pass, streamLeft, toolCalls, answered, conv, nextCall>>
toolVars == <<executing, toolEvents>>
emitVars == <<sending, sequence, emitted>>
endVars == <<shouldFinalize, report, outClosed>>
callerVars == <<ctxDone, taken>>
restVars == <<cfgVars, memoryLeft, passVars, toolVars, endVars, callerVars>>
vars == <<pc, then, emitVars, restVars>>

Event == [kind : Kinds \cup {"none"}, call : Nat, by : Emitters, seq : Nat]
NoEvent == [kind |-> "none", call |-> 0, by |-> Turn, seq |-> 0]

\* A message of the conversation: the calls an assistant makes, or their results.
Message == [role : {"assistant", "tool"}, calls : Seq(Calls)]

Init ==
  /\ booted \in BOOLEAN /\ hasSession \in BOOLEAN
  /\ hasFinalizer \in BOOLEAN /\ batchMode \in BOOLEAN
  /\ pc = "idle" /\ then = "idle"
  /\ memoryLeft = 0
  /\ shouldFinalize = FALSE /\ report = 0
  /\ pass = 0 /\ streamLeft = 0
  /\ toolCalls = <<>> /\ answered = 0
  /\ conv = <<>> /\ nextCall = 1
  /\ executing = {} /\ toolEvents = [c \in Calls |-> 0]
  /\ ctxDone = FALSE
  /\ sending = [p \in Emitters |-> NoEvent]
  /\ sequence = 0 /\ emitted = <<>> /\ outClosed = FALSE
  /\ taken = 0

-----------------------------------------------------------------------------
(* emit: numbering and context check under emitMu, then a send that waits  *)
(* for room in the channel or for the context.                             *)

\* emitMu is free: nobody is between its Lock and its Unlock.
MutexFree == \A p \in Emitters : sending[p] = NoEvent

\* Seeded fault: the mutex is not taken.
EnterEmitUnlocked(p, kind, call) ==
  /\ sending[p] = NoEvent
  /\ sequence' = sequence + 1
  /\ sending' = IF ctxDone THEN sending
                ELSE [sending EXCEPT ![p] = [kind |-> kind, call |-> call, by |-> p, seq |-> sequence]]
  /\ UNCHANGED emitted

\* Every attempt takes a number; one that finds the context done sends nothing.
EnterEmit(p, kind, call) ==
  /\ MutexFree
  /\ sequence' = sequence + 1
  /\ sending' = IF ctxDone THEN sending
                ELSE [sending EXCEPT ![p] = [kind |-> kind, call |-> call, by |-> p, seq |-> sequence]]
  /\ UNCHANGED emitted

\* Where the turn's goroutine goes from an emit: on, or out of runTurn.
TurnEmit(kind, call, next) ==
  /\ EnterEmit(Turn, kind, call)
  /\ then' = next
  /\ pc' = IF ctxDone THEN "return" ELSE "emit"

\* Seeded fault: the send does not wait for room.
RoomAlways == TRUE

Room == Len(emitted) - taken < OutCap

EmitSend(p) ==
  /\ sending[p] # NoEvent
  /\ Room
  /\ emitted' = Append(emitted, sending[p])
  /\ sending' = [sending EXCEPT ![p] = NoEvent]
  /\ pc' = IF p = Turn THEN then ELSE pc
  /\ UNCHANGED <<cfgVars, then, memoryLeft, passVars, toolVars, sequence, endVars, callerVars>>

\* Seeded fault: the send does not look at the context.
EmitAbortNever(p) ==
  /\ FALSE
  /\ UNCHANGED vars

EmitAbort(p) ==
  /\ sending[p] # NoEvent
  /\ ctxDone
  /\ sending' = [sending EXCEPT ![p] = NoEvent]
  /\ pc' = IF p = Turn THEN "return" ELSE pc
  /\ UNCHANGED <<cfgVars, then, memoryLeft, passVars, toolVars, sequence, emitted,
                 endVars, callerVars>>

-----------------------------------------------------------------------------
(* The turn up to its first model pass.                                    *)

\* The goroutine emits an event, or moves on; nothing else changes.
TurnEvent(at, kind, next) ==
  /\ pc = at
  /\ TurnEmit(kind, 0, next)
  /\ UNCHANGED restVars

GoOn(at, next) ==
  /\ pc = at
  /\ pc' = next
  /\ UNCHANGED <<then, emitVars, restVars>>

StreamTurn == GoOn("idle", IF ctxDone \/ ~booted THEN "refused" ELSE "start")

Start == TurnEvent("start", "started", "prepare")

PrepareFails == TurnEvent("prepare", "error", "return")

Prepare ==
  /\ pc = "prepare"
  /\ memoryLeft' \in 0..MaxMemory
  /\ shouldFinalize' = TRUE
  /\ pc' = "memory"
  /\ UNCHANGED <<cfgVars, then, passVars, toolVars, emitVars, report, outClosed,
                 callerVars>>

EmitMemory ==
  /\ pc = "memory" /\ memoryLeft > 0
  /\ memoryLeft' = memoryLeft - 1
  /\ TurnEmit("memory_read", 0, "memory")
  /\ UNCHANGED <<cfgVars, passVars, toolVars, endVars, callerVars>>

MemoryDone == memoryLeft = 0 /\ hasSession /\ GoOn("memory", "request")

NoSession == memoryLeft = 0 /\ ~hasSession /\ TurnEvent("memory", "completed", "return")

-----------------------------------------------------------------------------
(* A model pass: the request, its stream, the calls made in it.            *)

Request ==
  /\ pc = "request" /\ pass < MaxPasses
  /\ pass' = pass + 1
  /\ streamLeft' = MaxStream
  /\ toolCalls' = <<>> /\ answered' = 0
  /\ pc' = "consume"
  /\ UNCHANGED <<cfgVars, then, memoryLeft, conv, nextCall, toolVars, emitVars,
                 endVars, callerVars>>

\* The session refuses the request, or the passes are used up.
RequestFails == TurnEvent("request", "error", "return")

\* The select of consumeModelPass took the context; its emit cannot succeed.
ConsumeInterrupted == ctxDone /\ TurnEvent("consume", "error", "return")

\* "started" is dropped and "completed" is held back until the stream closes.
ConsumeSilent ==
  /\ pc = "consume" /\ streamLeft > 0
  /\ streamLeft' = streamLeft - 1
  /\ UNCHANGED <<cfgVars, pc, then, memoryLeft, pass, toolCalls, answered, conv,
                 nextCall, toolVars, emitVars, endVars, callerVars>>

ConsumeEvent(kind, next) ==
  /\ pc = "consume" /\ streamLeft > 0
  /\ streamLeft' = streamLeft - 1
  /\ TurnEmit(kind, 0, next)
  /\ UNCHANGED <<cfgVars, memoryLeft, pass, toolCalls, answered, conv, nextCall,
                 toolVars, endVars, callerVars>>

ConsumeMessage == ConsumeEvent("message", "consume")

ConsumeToolCall ==
  /\ pc = "consume" /\ streamLeft > 0 /\ nextCall \in Calls
  /\ streamLeft' = streamLeft - 1
  /\ toolCalls' = Append(toolCalls, nextCall)
  /\ nextCall' = nextCall + 1
  /\ TurnEmit("tool_call", nextCall, "consume")
  /\ UNCHANGED <<cfgVars, memoryLeft, pass, answered, conv, toolVars, endVars,
                 callerVars>>

\* Seeded fault: the pass goes on after an error event of the stream.
ConsumeErrorGoesOn == ConsumeEvent("error", "consume")

ConsumeError == ConsumeEvent("error", "return")

\* Seeded fault: a held back "completed" ends the turn, calls or no calls.
StreamClosedEager == TurnEvent("consume", "completed", "return")

\* Seeded fault: a closed stream is read as one more event, an empty one.
StreamClosedUnseen == pc = "consume" /\ UNCHANGED vars

\* The stream is closed and made no call: the turn is complete.
StreamClosed == toolCalls = <<>> /\ TurnEvent("consume", "completed", "return")

StreamClosedWithCalls == toolCalls # <<>> /\ GoOn("consume", "tools")

-----------------------------------------------------------------------------
(* executeToolCalls: one call after the other, or all of them to the batch *)
(* runtime, whose own order of execution is BatchRuntime's subject.        *)

AllAnswered == answered = Len(toolCalls)

CallTool ==
  /\ pc = "tools" /\ ~batchMode /\ ~AllAnswered
  /\ executing' = {toolCalls[answered + 1]}
  /\ pc' = "running"
  /\ UNCHANGED <<cfgVars, then, memoryLeft, passVars, toolEvents, emitVars, endVars, callerVars>>

RunBatch ==
  /\ pc = "tools" /\ batchMode
  /\ ~ctxDone
  /\ executing' = {toolCalls[k] : k \in DOMAIN toolCalls}
  /\ pc' = "running"
  /\ UNCHANGED <<cfgVars, then, memoryLeft, passVars, toolEvents, emitVars, endVars, callerVars>>

EmitResult ==
  /\ pc = "running" /\ executing = {} /\ ~AllAnswered
  /\ answered' = answered + 1
  /\ TurnEmit("tool_result", toolCalls[answered + 1], IF batchMode THEN "running" ELSE "tools")
  /\ UNCHANGED <<cfgVars, memoryLeft, pass, streamLeft, toolCalls, conv, nextCall,
                 toolVars, endVars, callerVars>>

\* Seeded fault: the results are left out of the conversation.
ContinuationLost ==
  <<[role |-> "assistant", calls |-> toolCalls]>>

\* continuationMessages: the assistant's calls, then the results there are.
Continuation ==
  <<[role |-> "assistant", calls |-> toolCalls]>> \o
  (IF answered > 0 THEN <<[role |-> "tool", calls |-> SubSeq(toolCalls, 1, answered)]>>
                   ELSE <<>>)

\* The batch runtime refuses to run under a context that is done: no results.
EndPass ==
  /\ \/ pc = "tools" /\ ~batchMode /\ AllAnswered
     \/ pc = "tools" /\ batchMode /\ ctxDone
     \/ pc = "running" /\ executing = {} /\ AllAnswered
  /\ conv' = conv \o Continuation
  /\ pc' = "request"
  /\ UNCHANGED <<cfgVars, then, memoryLeft, pass, streamLeft, toolCalls, answered,
                 nextCall, toolVars, emitVars, endVars, callerVars>>

\* A tool emits through the context it was called with.
ToolEmit(c, kind) ==
  /\ c \in executing /\ toolEvents[c] < MaxToolEvents
  /\ toolEvents' = [toolEvents EXCEPT ![c] = @ + 1]
  /\ EnterEmit(c, kind, 0)
  /\ UNCHANGED <<cfgVars, pc, then, memoryLeft, passVars, executing, endVars, callerVars>>

ToolReturn(c) ==
  /\ c \in executing /\ sending[c] = NoEvent
  /\ executing' = executing \ {c}
  /\ UNCHANGED <<cfgVars, pc, then, memoryLeft, passVars, toolEvents, emitVars,
                 endVars, callerVars>>

-----------------------------------------------------------------------------
(* The deferred calls of runTurn, last in first out.                       *)

\* Seeded fault: the finalizer is skipped for a turn that was cancelled.
FinalizeUnlessCancelled ==
  /\ pc = "return"
  /\ report' = IF shouldFinalize /\ hasFinalizer /\ ~ctxDone THEN Len(emitted) ELSE report
  /\ pc' = "close"
  /\ UNCHANGED <<cfgVars, then, memoryLeft, passVars, toolVars, emitVars,
                 shouldFinalize, outClosed, callerVars>>

Finalize ==
  /\ pc = "return"
  /\ report' = IF shouldFinalize /\ hasFinalizer THEN Len(emitted) ELSE report
  /\ pc' = "close"
  /\ UNCHANGED <<cfgVars, then, memoryLeft, passVars, toolVars, emitVars,
                 shouldFinalize, outClosed, callerVars>>

CloseOut ==
  /\ pc = "close"
  /\ outClosed' = TRUE
  /\ pc' = "done"
  /\ UNCHANGED <<cfgVars, then, memoryLeft, passVars, toolVars, emitVars,
                 shouldFinalize, report, callerVars>>

-----------------------------------------------------------------------------
(* The caller.                                                             *)

Receive ==
  /\ taken < Len(emitted)
  /\ taken' = taken + 1
  /\ UNCHANGED <<cfgVars, pc, then, memoryLeft, passVars, toolVars, emitVars,
                 endVars, ctxDone>>

CancelContext ==
  /\ ~ctxDone /\ pc \notin {"done", "refused"}
  /\ ctxDone' = TRUE
  /\ UNCHANGED <<cfgVars, pc, then, memoryLeft, passVars, toolVars, emitVars,
                 endVars, taken>>

-----------------------------------------------------------------------------

\* What the model session decides by sending on its stream or closing it.
SessionStep ==
  \/ ConsumeSilent \/ ConsumeMessage \/ ConsumeToolCall \/ ConsumeError
  \/ StreamClosed \/ StreamClosedWithCalls

\* Steps of the turn's goroutine that wait for no one but the channel's reader.
EngineStep ==
  \/ StreamTurn \/ Start \/ PrepareFails \/ Prepare
  \/ EmitMemory \/ MemoryDone \/ NoSession
  \/ Request \/ RequestFails \/ ConsumeInterrupted
  \/ CallTool \/ RunBatch \/ EmitResult \/ EndPass
  \/ Finalize \/ CloseOut

EmitStep(p) == EmitSend(p) \/ EmitAbort(p)

Terminated ==
  /\ pc \in {"done", "refused"} /\ taken = Len(emitted)
  /\ UNCHANGED vars

Next ==
  \/ EngineStep
  \/ SessionStep
  \/ \E p \in Emitters : EmitStep(p)
  \/ \E c \in Calls, kind \in ToolKinds : ToolEmit(c, kind)
  \/ \E c \in Calls : ToolReturn(c)
  \/ Receive
  \/ CancelContext
  \/ Terminated

Spec == Init /\ [][Next]_vars

(***************************************************************************)
(* Goroutines are scheduled and the collaborators the turn calls return:   *)
(* preparer, session, finalizer and tools.  Neither the reader nor the     *)
(* model's stream owes the turn anything.                                  *)
(***************************************************************************)
Fairness ==
  /\ WF_vars(EngineStep)
  /\ \A p \in Emitters : WF_vars(EmitStep(p))
  /\ \A c \in Calls : WF_vars(ToolReturn(c))

FairSpec == Spec /\ Fairness

-----------------------------------------------------------------------------
(* Properties.                                                             *)

\* Types, and the bound of the channel.
TypeOK ==
  /\ booted \in BOOLEAN /\ hasSession \in BOOLEAN
  /\ hasFinalizer \in BOOLEAN /\ batchMode \in BOOLEAN
  /\ pc \in {"idle", "refused", "start", "prepare", "memory", "request", "consume",
             "tools", "running", "emit", "return", "close", "done"}
  /\ then \in {"idle", "prepare", "memory", "consume", "tools", "running", "return"}
  /\ memoryLeft \in 0..MaxMemory
  /\ shouldFinalize \in BOOLEAN /\ report \in Nat
  /\ pass \in 0..MaxPasses /\ streamLeft \in 0..MaxStream
  /\ toolCalls \in Seq(Calls) /\ answered \in 0..Len(toolCalls)
  /\ conv \in Seq(Message) /\ nextCall \in 1..(MaxCalls + 1)
  /\ executing \in SUBSET Calls /\ toolEvents \in [Calls -> 0..MaxToolEvents]
  /\ ctxDone \in BOOLEAN
  /\ sending \in [Emitters -> Event]
  /\ sequence \in Nat /\ emitted \in Seq(Event) /\ outClosed \in BOOLEAN
  /\ taken \in 0..Len(emitted)
  /\ Len(emitted) - taken <= OutCap

(***************************************************************************)
(* The numbers a reader sees count the events it sees, whoever emitted     *)
(* them and however their emits interleave: no gap, no repetition, no two  *)
(* events out of order.  emit, engine.go:91-115.                           *)
(***************************************************************************)
SequenceDense ==
  \A k \in DOMAIN emitted : emitted[k].seq + 1 = k

(***************************************************************************)
(* Every request carries a conversation in which each assistant message    *)
(* that makes calls is followed by the results of exactly those calls:     *)
(* what providers demand.  The one exception is the last message of a      *)
(* cancelled turn, whose calls the batch runtime refused to run: the error *)
(* is dropped, and the turn must get no further than the request behind    *)
(* it.  engine.go:199-218, 296-346.                                        *)
(***************************************************************************)
AnsweredAt(k) ==
  k + 1 \in DOMAIN conv /\ conv[k + 1] = [role |-> "tool", calls |-> conv[k].calls]

ConversationBalanced ==
  \A k \in DOMAIN conv : conv[k].role = "assistant" =>
    \/ AnsweredAt(k)
    \/ k = Len(conv) /\ ctxDone /\ batchMode

\* The events the turn itself has sent of a kind.
Own(kind) == {k \in DOMAIN emitted : emitted[k].by = Turn /\ emitted[k].kind = kind}

(***************************************************************************)
(* A turn that says it completed has answered every call it announced, the *)
(* result after the announcement, whatever its tools put in between.       *)
(* runTurn's loop, consumeModelPass, executeToolCalls, engine.go:189-346.  *)
(***************************************************************************)
CompletedMeansAnswered ==
  Own("completed") # {} =>
    \A k \in Own("tool_call") :
      \E l \in Own("tool_result") : l > k /\ emitted[l].call = emitted[k].call

(***************************************************************************)
(* The finalizer of a prepared turn has run by the time the stream is      *)
(* closed, cancelled or not, and its report holds every event the reader   *)
(* gets: nothing is emitted behind its back.                               *)
(***************************************************************************)
FinalizedWithEverything ==
  outClosed =>
    /\ hasFinalizer /\ shouldFinalize => report = Len(emitted)
    /\ ~(hasFinalizer /\ shouldFinalize) => report = 0
    /\ executing = {} /\ MutexFree

(***************************************************************************)
(* A cancelled turn closes its stream, even if nobody reads it and the     *)
(* model never says another word.                                          *)
(***************************************************************************)
CancelEndsTurn == ctxDone ~> pc \in {"done", "refused"}

(***************************************************************************)
(* A turn that is read, over a session whose streams go on until they are  *)
(* closed, closes its stream within the pass limit.                        *)
(***************************************************************************)
ReaderEndsTurn ==
  WF_vars(Receive) /\ WF_vars(SessionStep) => <>(pc \in {"done", "refused"})

\* The turn implements the stream its reader is promised.
Stream == INSTANCE TurnStream
  WITH log <- [k \in DOMAIN emitted |->
                 [kind |-> emitted[k].kind, own |-> emitted[k].by = Turn]],
       closed <- outClosed,
       cancelled <- ctxDone

ImplementsTurnStream == Stream!Spec
=============================================================================
