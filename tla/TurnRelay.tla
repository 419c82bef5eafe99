----------------------------- MODULE TurnRelay -----------------------------
(***************************************************************************)
(* What becomes of a turn's stream on its way to whoever asked for the     *)
(* turn: the relay goroutine of Runtime.StreamTurn, RunTurn that reads     *)
(* what it relays, RunOneShot that reads a session's stream, and the       *)
(* kernel's agent runner that reads the engine's and whose return decides  *)
(* the outcome of an agent task.                                           *)
(*                                                                         *)
(* The producer is any TurnStream behind a bounded channel, as TurnEngine  *)
(* and ProviderSession are, among whose events the tools of the turn       *)
(* publish events of their own, of any kind.                               *)
(***************************************************************************)
EXTENDS Naturals, Sequences, FiniteSets

CONSTANTS
  Modes,            \* of "stream", "run", "oneshot" and "agent"
  StreamCap,        \* capacity of the producer's channel
  OutCap,           \* capacity of the relay's channel
  MaxEvents,        \* bound: events of the turn's own before its terminal one
  MaxToolEvents     \* bound: events published by tools

ASSUME ModesAssumption == Modes \subseteq {"stream", "run", "oneshot", "agent"}

ASSUME RelayAssumption ==
  StreamCap \in Nat \ {0} /\ OutCap \in Nat \ {0} /\ MaxEvents \in Nat /\ MaxToolEvents \in Nat

VARIABLES
  mode, ctx,
  \* the producer
  stream,           \* the events sent on its channel
  turnClosed,
  taken,            \* how many were received from it
  \* the relay of StreamTurn
  relay, held,      \* where it stands, and the event in its hand
  out, outClosed,
  read,             \* events received from out
  \* who asked
  caller,
  answer,           \* what the call returned
  outcome           \* of the agent task

turnVars == <<stream, turnClosed>>
relayVars == <<relay, held, out, outClosed>>
callerVars == <<caller, answer, outcome>>
vars == <<mode, ctx, turnVars, taken, relayVars, read, callerVars>>

Producer == INSTANCE TurnStream
  WITH log <- stream, closed <- turnClosed, cancelled <- ctx # "live"

Terminal == Producer!Terminal
Kinds == Producer!Kinds

\* The turn has come to an end of its own.
Over == Producer!Ended

Completed == Over /\ stream[Len(stream)].kind = "completed"

Event == [kind : Kinds, own : BOOLEAN]
NoEvent == [kind |-> "started", own |-> FALSE]

Relayed == mode \in {"stream", "run"}

Init ==
  /\ mode \in Modes /\ ctx = "live"
  /\ stream = <<>> /\ turnClosed = FALSE /\ taken = 0
  /\ relay = "none" /\ held = NoEvent
  /\ out = <<>> /\ outClosed = FALSE /\ read = 0
  /\ caller = "idle" /\ answer = "none" /\ outcome = "none"

-----------------------------------------------------------------------------
(* The call up to the stream, or to the error it returns instead.          *)

Refuse ==
  /\ caller = "idle"
  /\ caller' = "returned" /\ answer' = "refused"
  /\ UNCHANGED <<mode, ctx, turnVars, taken, relayVars, read, outcome>>

\* StreamTurn returns the channel of its relay; the others go on to read.
Begin ==
  /\ caller = "idle" /\ ctx = "live"
  /\ caller' = IF mode = "stream" THEN "returned" ELSE "reading"
  /\ relay' = IF Relayed THEN "recv" ELSE "none"
  /\ answer' = IF mode = "stream" THEN "channel" ELSE answer
  /\ UNCHANGED <<mode, ctx, turnVars, taken, held, out, outClosed, read, outcome>>

Begun == caller # "idle" /\ answer # "refused"

-----------------------------------------------------------------------------
(* The producer.                                                           *)

\* Seeded fault: the producer's channel has no bound.
RoomAlways == TRUE

Room == Len(stream) - taken < StreamCap

\* The events of the turn's own, or those of its tools.
Count(own) == Cardinality({k \in DOMAIN stream : stream[k].own = own})

ProducerSends ==
  /\ Begun /\ Room
  /\ UNCHANGED <<mode, ctx, taken, relayVars, read, callerVars>>

Publish(kind) ==
  /\ ProducerSends
  /\ Count(TRUE) < MaxEvents \/ kind \in Terminal
  /\ Producer!Publish(kind)

\* A tool publishes through the context it was called with, what it likes.
ToolPublish(kind) ==
  /\ ProducerSends
  /\ mode # "oneshot" /\ Count(FALSE) < MaxToolEvents
  /\ Producer!ToolPublish(kind)

CloseStream ==
  /\ Begun
  /\ UNCHANGED <<mode, ctx, taken, relayVars, read, callerVars>>
  /\ Producer!Close

-----------------------------------------------------------------------------
(* The relay.                                                              *)

RelayTake ==
  /\ relay = "recv" /\ taken < Len(stream)
  /\ held' = stream[taken + 1]
  /\ taken' = taken + 1
  /\ relay' = "send"
  /\ UNCHANGED <<mode, ctx, turnVars, out, outClosed, read, callerVars>>

\* Seeded fault: an event nobody has room for is dropped.
RelaySendOrDrop ==
  /\ relay = "send"
  /\ out' = IF Len(out) - read < OutCap THEN Append(out, held) ELSE out
  /\ relay' = "recv" /\ held' = NoEvent
  /\ UNCHANGED <<mode, ctx, turnVars, taken, outClosed, read, callerVars>>

\* publicEvent keeps the kind and leaves the sequence number behind.
RelaySend ==
  /\ relay = "send" /\ Len(out) - read < OutCap
  /\ out' = Append(out, held)
  /\ relay' = "recv" /\ held' = NoEvent
  /\ UNCHANGED <<mode, ctx, turnVars, taken, outClosed, read, callerVars>>

\* The deferred close of out.
RelayEnds ==
  /\ outClosed' = TRUE
  /\ relay' = "gone" /\ held' = NoEvent
  /\ UNCHANGED <<mode, ctx, turnVars, taken, out, read, callerVars>>

\* Seeded fault: the send looks at no context.
RelayQuitNever == FALSE /\ RelayEnds

RelayQuit == relay = "send" /\ ctx # "live" /\ RelayEnds

RelayDone == relay = "recv" /\ turnClosed /\ taken = Len(stream) /\ RelayEnds

-----------------------------------------------------------------------------
(* The loops over the stream.                                              *)

\* What the loop ranges over, and how far it has come.
Source == IF Relayed THEN out ELSE stream
SourceClosed == IF Relayed THEN outClosed ELSE turnClosed
Seen == IF Relayed THEN read ELSE taken

Advance ==
  /\ Seen < Len(Source)
  /\ IF Relayed THEN read' = read + 1 /\ UNCHANGED taken
                ELSE taken' = taken + 1 /\ UNCHANGED read
  /\ UNCHANGED <<mode, ctx, turnVars, relayVars>>

Return(with) ==
  /\ caller' = "returned"
  /\ answer' = with
  /\ UNCHANGED outcome

\* Whoever holds the channel StreamTurn returned reads it, or does not.
ReaderTakes ==
  /\ mode = "stream"
  /\ Advance
  /\ UNCHANGED callerVars

\* Seeded fault: an error event is collected like any other.
RunTurnTakesAll ==
  /\ caller = "reading" /\ mode \in {"run", "oneshot"}
  /\ Advance
  /\ UNCHANGED callerVars

\* RunTurn and runOneShot return with the first error event.
RunTurnTakes ==
  /\ caller = "reading" /\ mode \in {"run", "oneshot"}
  /\ Advance
  /\ IF Source[Seen + 1].kind = "error" THEN Return("error") ELSE UNCHANGED callerVars

\* forwardAgentEvent passes all but these on to the task.
Forwarded(event) == event.kind \notin {"started", "completed"}

RunnerTakes ==
  /\ caller = "reading" /\ mode = "agent"
  /\ Advance
  /\ caller' = IF Forwarded(Source[Seen + 1]) THEN "emit" ELSE "reading"
  /\ UNCHANGED <<answer, outcome>>

\* Seeded fault: the runner goes on after an error event.
RunnerEmitsOn ==
  /\ caller = "emit"
  /\ caller' = "reading" /\ UNCHANGED <<answer, outcome>>
  /\ UNCHANGED <<mode, ctx, turnVars, taken, relayVars, read>>

\* The task's emit returns once its channel has room.
RunnerEmits ==
  /\ caller = "emit"
  /\ IF Source[Seen].kind = "error" THEN Return("error")
     ELSE caller' = "reading" /\ UNCHANGED <<answer, outcome>>
  /\ UNCHANGED <<mode, ctx, turnVars, taken, relayVars, read>>

HadToolCall == \E k \in 1..Seen : Source[k].kind = "tool_call"

\* The end of the stream: no error, however it came to its end, but for a
\* one-shot that was asked for tools.
LoopEnds ==
  /\ caller = "reading"
  /\ SourceClosed /\ Seen = Len(Source)
  /\ Return(IF mode = "oneshot" /\ HadToolCall THEN "tools" ELSE "nil")
  /\ UNCHANGED <<mode, ctx, turnVars, taken, relayVars, read>>

\* runTask: only a cancelled context, or an error that wraps one, is a stop.
Outcomes ==
  IF ctx = "canceled" THEN {"stopped"}
  ELSE IF answer = "nil" THEN {"completed"}
  ELSE IF answer = "error" THEN {"failed", "stopped"}
  ELSE {"failed"}

TaskEnds ==
  /\ mode = "agent" /\ caller = "returned" /\ outcome = "none"
  /\ outcome' \in Outcomes
  /\ UNCHANGED <<mode, ctx, turnVars, taken, relayVars, read, caller, answer>>

ContextDone(cause) ==
  /\ ctx = "live"
  /\ ctx' = cause
  /\ UNCHANGED <<mode, turnVars, taken, relayVars, read, callerVars>>

-----------------------------------------------------------------------------
RelayStep == RelayTake \/ RelaySend \/ RelayQuit \/ RelayDone

CallerStep == RunTurnTakes \/ RunnerTakes \/ LoopEnds

Settled ==
  /\ caller = "returned"
  /\ answer # "refused" => turnClosed /\ relay \in {"none", "gone"}

Terminated == Settled /\ (mode = "agent" => outcome # "none") /\ UNCHANGED vars

Next ==
  \/ Refuse \/ Begin
  \/ \E kind \in Kinds : Publish(kind) \/ ToolPublish(kind)
  \/ CloseStream
  \/ RelayStep
  \/ CallerStep \/ RunnerEmits \/ ReaderTakes
  \/ TaskEnds
  \/ \E cause \in {"canceled", "deadline"} : ContextDone(cause)
  \/ Terminated

Spec == Init /\ [][Next]_vars

(***************************************************************************)
(* The goroutines run on.  The producer closes a stream that is over or    *)
(* cancelled (TurnEngine!CancelEndsTurn, ProviderSession!CancelEndsStream);*)
(* neither it nor the reader of StreamTurn's channel owes more.            *)
(***************************************************************************)
Fairness == WF_vars(RelayStep) /\ WF_vars(CallerStep) /\ WF_vars(CloseStream)

FairSpec == Spec /\ Fairness

-----------------------------------------------------------------------------
(* Properties.                                                             *)

\* Types, and the bounds of the two channels.
TypeOK ==
  /\ mode \in Modes /\ ctx \in {"live", "canceled", "deadline"}
  /\ stream \in Seq(Event) /\ turnClosed \in BOOLEAN /\ taken \in 0..Len(stream)
  /\ Len(stream) - taken <= StreamCap
  /\ relay \in {"none", "recv", "send", "gone"} /\ held \in Event
  /\ out \in Seq(Event) /\ outClosed \in BOOLEAN /\ read \in 0..Len(out)
  /\ Len(out) - read <= OutCap
  /\ caller \in {"idle", "reading", "emit", "returned"}
  /\ answer \in {"none", "channel", "refused", "error", "tools", "nil"}
  /\ outcome \in {"none", "completed", "failed", "stopped"}

(***************************************************************************)
(* The channel StreamTurn returns keeps the promise of the engine's and    *)
(* carries its events, of the turn and of its tools, each once and in      *)
(* order and without a gap; it is closed only behind the turn's terminal   *)
(* event or because the context is done.  turnmesh.go:430-441.             *)
(***************************************************************************)
Stream == INSTANCE TurnStream
  WITH log <- out, closed <- outClosed, cancelled <- ctx # "live"

RelaysTurnStream ==
  /\ Stream!Spec
  /\ [](\A k \in DOMAIN out : k \in DOMAIN stream /\ out[k] = stream[k])

ToolFailed == \E k \in DOMAIN stream : stream[k].kind = "error" /\ ~stream[k].own

(***************************************************************************)
(* RunTurn, RunOneShot and the agent runner return without an error only   *)
(* when they have been told everything and no error was in it: of a turn   *)
(* that completed, its finalizer included, or, once the context is done,   *)
(* of what there is.  RunTurn alone may take a failed turn for one that    *)
(* did not fail: its relay leaves with the error in hand or behind it when *)
(* it sees the context done first (turnmesh.go:434-437, 473).  They return *)
(* an error only when there was one.                                       *)
(***************************************************************************)
AnswerTellsTheTurn ==
  /\ answer = "nil" =>
       /\ SourceClosed /\ Seen = Len(Source)
       /\ \A k \in 1..Seen : Source[k].kind # "error"
       /\ (Completed /\ turnClosed /\ Seen = Len(stream)) \/ ctx # "live"
       /\ Over /\ ~Completed => Relayed /\ Len(out) < Len(stream)
  /\ answer = "error" => (Over /\ ~Completed) \/ ToolFailed

(***************************************************************************)
(* A task that is completed had its turn complete, unless a deadline of    *)
(* its context has passed: the engine then closes the stream without a     *)
(* terminal event and runTask looks for a cancelled context alone.         *)
(***************************************************************************)
TaskTellsTheTurn ==
  outcome = "completed" => (Completed /\ turnClosed) \/ ctx = "deadline"

(***************************************************************************)
(* Once the context is done, or the turn is over and is read, the caller   *)
(* has its answer and no goroutine stays behind, the one of RunTurn that   *)
(* left with the first error included; but for a turn in which a tool      *)
(* published an error of its own, which RunTurn leaves in the middle.  A   *)
(* task's emit has to find room in the task's channel for that.            *)
(***************************************************************************)
NobodyLeftBehind ==
  WF_vars(RunnerEmits) =>
    (Begun /\ (ctx # "live" \/ (Over /\ mode # "stream" /\ ~ToolFailed)) ~> Settled)
=============================================================================
