-------------------------- MODULE TurnRelayProofs --------------------------
(***************************************************************************)
(* Proofs about TurnRelay for channels of any capacity, turns of any       *)
(* length and any number of events published by tools: types, what the     *)
(* callers are told of the turn, and the stream that StreamTurn returns.   *)
(***************************************************************************)
EXTENDS TurnRelay, TLAPS

-----------------------------------------------------------------------------
(* The inductive invariant.                                                *)

\* "started" is first, a terminal event of the turn last, and before an event
\* of a tool the turn has announced a call.
TurnInv ==
  /\ \A k \in 1..Len(stream) :
       /\ stream[k].own => (stream[k].kind = "started" <=> k = 1)
       /\ stream[k].own /\ stream[k].kind \in Terminal => k = Len(stream)
       /\ ~stream[k].own =>
            \E j \in 1..(k - 1) : stream[j].own /\ stream[j].kind = "tool_call"
  /\ turnClosed => Over \/ ctx # "live"

\* What the relay has sent is a prefix of what it received, and all of it but
\* for the event in its hand until it is told to leave.
RelayInv ==
  /\ outClosed <=> relay = "gone"
  /\ relay = "none" => out = <<>>
  /\ relay = "none" <=> ~Relayed \/ ~Begun
  /\ ~Begun => stream = <<>>
  /\ Len(out) <= Len(stream)
  /\ \A k \in 1..Len(out) : out[k] = stream[k]
  /\ relay = "recv" => taken = Len(out)
  /\ relay = "send" => taken = Len(out) + 1 /\ held = stream[taken]
  /\ relay = "gone" => ctx # "live" \/ (turnClosed /\ Len(out) = Len(stream))

NoErrorUpTo(n) == \A k \in 1..n : Source[k].kind # "error"

ErrorSent == \E k \in 1..Len(stream) : stream[k].kind = "error"

\* A caller that reads on has seen no error.
CallerInv ==
  /\ caller = "emit" => mode = "agent"
  /\ caller \in {"idle", "reading", "emit"} <=> answer = "none"
  /\ caller \in {"reading", "emit"} => mode # "stream"
  /\ mode = "stream" => answer \in {"none", "channel", "refused"}
  /\ caller = "reading" => NoErrorUpTo(Seen)
  /\ caller = "emit" => Seen > 0 /\ NoErrorUpTo(Seen - 1)
  /\ answer = "error" => ErrorSent

Told ==
  answer = "nil" =>
    /\ SourceClosed /\ Seen = Len(Source)
    /\ \A k \in 1..Seen : Source[k].kind # "error"
    /\ (Completed /\ turnClosed /\ Seen = Len(stream)) \/ ctx # "live"
    /\ Over /\ ~Completed => Relayed /\ Len(out) < Len(stream)

IInv == TypeOK /\ TurnInv /\ RelayInv /\ CallerInv /\ Told /\ TaskTellsTheTurn

LEMMA InitInv == Init => IInv
<1>. SUFFICES ASSUME Init PROVE IInv
  OBVIOUS
<1>0. NoEvent \in Event
  BY DEF NoEvent, Event, Kinds, Producer!Kinds
<1>1. TypeOK
  <2>1. stream \in Seq(Event) /\ out \in Seq(Event)
    BY DEF Init
  <2>2. /\ taken \in 0..Len(stream) /\ Len(stream) - taken <= StreamCap
        /\ read \in 0..Len(out) /\ Len(out) - read <= OutCap
    BY RelayAssumption DEF Init
  <2>. QED
    BY <1>0, <2>1, <2>2 DEF Init, TypeOK
<1>. QED
  BY <1>1 DEF Init, IInv, TurnInv, RelayInv, CallerInv, NoErrorUpTo, Seen,
     Begun, Told, TaskTellsTheTurn

-----------------------------------------------------------------------------
(* The producer's steps, and those of everybody else, as the parts of the  *)
(* invariant see them.                                                     *)

\* An event is sent: of the turn, or of a tool.
Sent(kind, own) ==
  /\ Begun /\ Room /\ ~turnClosed /\ ~Over
  /\ stream' = Append(stream, [kind |-> kind, own |-> own])
  /\ own => (stream = <<>> <=> kind = "started")
  /\ ~own => Producer!Announced
  /\ UNCHANGED <<mode, ctx, turnClosed, taken, relayVars, read, callerVars>>

LEMMA PublishIsSent ==
  ASSUME NEW kind \in Kinds, Publish(kind)
  PROVE  Sent(kind, TRUE)
BY DEF Publish, ProducerSends, Sent, Over, Producer!Publish

LEMMA ToolPublishIsSent ==
  ASSUME NEW kind \in Kinds, ToolPublish(kind)
  PROVE  Sent(kind, FALSE)
BY DEF ToolPublish, ProducerSends, Sent, Over, Producer!ToolPublish

\* What Append does to the stream.
LEMMA Grown ==
  ASSUME TypeOK, NEW kind \in Kinds, NEW own \in BOOLEAN, Sent(kind, own)
  PROVE  /\ stream' \in Seq(Event)
         /\ Len(stream') = Len(stream) + 1 /\ Len(stream) \in Nat
         /\ stream'[Len(stream) + 1] = [kind |-> kind, own |-> own]
         /\ \A k \in 1..Len(stream) : stream'[k] = stream[k]
<1>1. stream \in Seq(Event)
  BY DEF TypeOK
<1>2. [kind |-> kind, own |-> own] \in Event
  BY DEF Event
<1>. QED
  BY <1>1, <1>2 DEF Sent

-----------------------------------------------------------------------------
(* Types.                                                                  *)

LEMMA AdvanceTypes ==
  ASSUME TypeOK, Advance
  PROVE  /\ taken' \in 0..Len(stream) /\ Len(stream) - taken' <= StreamCap
         /\ read' \in 0..Len(out) /\ Len(out) - read' <= OutCap
         /\ UNCHANGED <<mode, ctx, turnVars, relayVars>>
<1>1. /\ stream \in Seq(Event) /\ out \in Seq(Event)
      /\ taken \in 0..Len(stream) /\ read \in 0..Len(out)
      /\ Len(stream) - taken <= StreamCap /\ Len(out) - read <= OutCap
  BY DEF TypeOK
<1>2. CASE Relayed
  BY <1>1, <1>2, RelayAssumption DEF Advance, Seen, Source
<1>3. CASE ~Relayed
  BY <1>1, <1>3, RelayAssumption DEF Advance, Seen, Source
<1>. QED
  BY <1>2, <1>3

LEMMA TypeNext == TypeOK /\ [Next]_vars => TypeOK'
<1>. SUFFICES ASSUME TypeOK, [Next]_vars PROVE TypeOK'
  OBVIOUS
<1>. USE DEF TypeOK
<1>1. ASSUME NEW kind \in Kinds, NEW own \in BOOLEAN, Sent(kind, own) PROVE TypeOK'
  <2>1. stream' \in Seq(Event) /\ Len(stream') = Len(stream) + 1
    BY <1>1, Grown
  <2>2. /\ taken' = taken /\ Room
        /\ UNCHANGED <<mode, ctx, turnClosed, taken, relayVars, read, callerVars>>
    BY <1>1 DEF Sent
  <2>3. taken' \in 0..Len(stream') /\ Len(stream') - taken' <= StreamCap
    BY <2>1, <2>2, RelayAssumption DEF Room
  <2>. QED
    BY <2>1, <2>2, <2>3 DEF relayVars, callerVars
<1>2. CASE CloseStream
  BY <1>2 DEF CloseStream, Producer!Close, relayVars, callerVars
<1>3. CASE RelayTake
  <2>1. stream[taken + 1] \in Event /\ taken + 1 \in 0..Len(stream)
        /\ Len(stream) - (taken + 1) <= StreamCap
    BY <1>3, RelayAssumption DEF RelayTake
  <2>. QED
    BY <1>3, <2>1 DEF RelayTake, turnVars, callerVars
<1>4. CASE RelaySend
  <2>1. out' = Append(out, held) /\ Len(out) - read < OutCap /\ read' = read
    BY <1>4 DEF RelaySend
  <2>2. out' \in Seq(Event) /\ Len(out') = Len(out) + 1
    BY <2>1
  <2>3. read' \in 0..Len(out') /\ Len(out') - read' <= OutCap
    BY <2>1, <2>2, RelayAssumption
  <2>4. NoEvent \in Event
    BY DEF NoEvent, Event, Kinds, Producer!Kinds
  <2>. QED
    BY <1>4, <2>2, <2>3, <2>4 DEF RelaySend, turnVars, callerVars
<1>5. CASE RelayQuit \/ RelayDone
  <2>1. NoEvent \in Event
    BY DEF NoEvent, Event, Kinds, Producer!Kinds
  <2>. QED
    BY <1>5, <2>1 DEF RelayQuit, RelayDone, RelayEnds, turnVars, callerVars
<1>6. CASE Refuse \/ Begin
  BY <1>6 DEF Refuse, Begin, turnVars, relayVars
<1>7. CASE RunTurnTakes \/ RunnerTakes \/ ReaderTakes
  <2>1. Advance
    BY <1>7 DEF RunTurnTakes, RunnerTakes, ReaderTakes
  <2>2. /\ taken' \in 0..Len(stream) /\ Len(stream) - taken' <= StreamCap
        /\ read' \in 0..Len(out) /\ Len(out) - read' <= OutCap
        /\ UNCHANGED <<mode, ctx, turnClosed, stream, relay, held, out, outClosed>>
    BY <2>1, AdvanceTypes DEF turnVars, relayVars
  <2>3. /\ caller' \in {"idle", "reading", "emit", "returned"}
        /\ answer' \in {"none", "channel", "refused", "error", "tools", "nil"}
        /\ outcome' = outcome
    BY <1>7 DEF RunTurnTakes, RunnerTakes, ReaderTakes, Return, callerVars
  <2>. QED
    BY <2>2, <2>3
<1>8. CASE LoopEnds \/ RunnerEmits
  BY <1>8 DEF LoopEnds, RunnerEmits, Return, turnVars, relayVars
<1>9. CASE TaskEnds
  BY <1>9 DEF TaskEnds, Outcomes, turnVars, relayVars
<1>10. ASSUME NEW cause \in {"canceled", "deadline"}, ContextDone(cause) PROVE TypeOK'
  BY <1>10 DEF ContextDone, turnVars, relayVars, callerVars
<1>11. CASE Terminated \/ UNCHANGED vars
  BY <1>11 DEF Terminated, vars, turnVars, relayVars, callerVars
<1>. HIDE DEF TypeOK
<1>. QED
  BY <1>1, <1>2, <1>3, <1>4, <1>5, <1>6, <1>7, <1>8, <1>9, <1>10, <1>11,
     PublishIsSent, ToolPublishIsSent DEF Next, RelayStep, CallerStep

-----------------------------------------------------------------------------
(* The turn, and the stream it is sent on.                                 *)

\* A step that sends nothing.
LEMMA Silent ==
  ASSUME [Next]_vars, ~\E kind \in Kinds : Publish(kind) \/ ToolPublish(kind)
  PROVE  stream' = stream
BY DEF Next, CloseStream, Producer!Close, RelayStep, RelayTake, RelaySend, RelayQuit, RelayDone,
   RelayEnds, CallerStep, Refuse, Begin, RunTurnTakes, RunnerTakes, ReaderTakes, Advance, LoopEnds,
   RunnerEmits, TaskEnds, ContextDone, Terminated, vars, turnVars

\* A context that is done stays done, a stream that is closed stays closed,
\* and the stream is closed only by CloseStream.
LEMMA Lasting ==
  ASSUME TypeOK, [Next]_vars
  PROVE  /\ ctx # "live" => ctx' = ctx
         /\ turnClosed => turnClosed' /\ stream' = stream
         /\ turnClosed' # turnClosed => CloseStream
         /\ mode' = mode
<1>1. ASSUME NEW kind \in Kinds, Publish(kind) \/ ToolPublish(kind)
      PROVE  ~turnClosed /\ UNCHANGED <<mode, ctx, turnClosed>>
  BY <1>1, PublishIsSent, ToolPublishIsSent DEF Sent
<1>2. CASE CloseStream
  BY <1>2 DEF CloseStream, Producer!Close
<1>3. CASE RelayStep \/ CallerStep \/ Refuse \/ Begin \/ ReaderTakes \/ RunnerEmits \/ TaskEnds
           \/ Terminated \/ UNCHANGED vars
  BY <1>3 DEF RelayStep, RelayTake, RelaySend, RelayQuit, RelayDone,
     RelayEnds, CallerStep, Refuse, Begin, RunTurnTakes, RunnerTakes, ReaderTakes, Advance, LoopEnds,
     RunnerEmits, TaskEnds, Terminated, vars, turnVars
<1>4. ASSUME NEW cause \in {"canceled", "deadline"}, ContextDone(cause)
      PROVE  ctx = "live" /\ UNCHANGED <<mode, stream, turnClosed>>
  BY <1>4 DEF ContextDone, turnVars
<1>. QED
  BY <1>1, <1>2, <1>3, <1>4 DEF Next

LEMMA TurnNext == TypeOK /\ TurnInv /\ [Next]_vars => TurnInv'
<1>. SUFFICES ASSUME TypeOK, TurnInv, [Next]_vars PROVE TurnInv'
  OBVIOUS
<1>1. ASSUME NEW kind \in Kinds, NEW own \in BOOLEAN, Sent(kind, own) PROVE TurnInv'
  <2>0. PICK n \in Nat : n = Len(stream)
    BY DEF TypeOK
  <2>1. /\ Len(stream') = n + 1
        /\ stream'[n + 1].kind = kind /\ stream'[n + 1].own = own
        /\ \A k \in 1..n : stream'[k] = stream[k]
    <3>1. /\ Len(stream') = n + 1 /\ stream'[n + 1] = [kind |-> kind, own |-> own]
          /\ \A k \in 1..n : stream'[k] = stream[k]
      BY <1>1, <2>0, Grown
    <3>. QED
      BY <3>1
  <2>2. /\ stream \in Seq(Event) /\ (stream = <<>> <=> n = 0) /\ DOMAIN stream = 1..n
    BY <2>0 DEF TypeOK
  <2>3. /\ ~Over /\ ~turnClosed'
        /\ own => (stream = <<>> <=> kind = "started")
        /\ ~own => Producer!Announced
    BY <1>1 DEF Sent
  <2>4. ASSUME NEW k \in 1..n
        PROVE  /\ stream'[k].own => (stream'[k].kind = "started" <=> k = 1)
               /\ ~(stream'[k].own /\ stream'[k].kind \in Terminal)
               /\ ~stream'[k].own =>
                    \E j \in 1..(k - 1) : stream'[j].own /\ stream'[j].kind = "tool_call"
    <3>1. ~(stream[k].own /\ stream[k].kind \in Terminal)
      BY <2>0, <2>2, <2>3 DEF TurnInv, Over, Producer!Ended, Terminal
    <3>2. \A j \in 1..(k - 1) : stream'[j] = stream[j]
      BY <2>1
    <3>. QED
      BY <2>0, <2>1, <3>1, <3>2 DEF TurnInv
  <2>5. own => (kind = "started" <=> n + 1 = 1)
    BY <2>2, <2>3
  <2>6. ~own => \E j \in 1..n : stream'[j].own /\ stream'[j].kind = "tool_call"
    BY <2>1, <2>2, <2>3 DEF Producer!Announced
  <2>. QED
    BY <2>1, <2>3, <2>4, <2>5, <2>6 DEF TurnInv
<1>2. CASE ~\E kind \in Kinds : Publish(kind) \/ ToolPublish(kind)
  <2>1. stream' = stream /\ Over' = Over
    BY <1>2, Silent DEF Over, Producer!Ended
  <2>2. turnClosed' => Over \/ ctx' # "live"
    <3>1. CASE CloseStream
      BY <3>1, Lasting DEF CloseStream, Producer!Close, Over
    <3>. QED
      BY <3>1, Lasting DEF TurnInv
  <2>. QED
    BY <2>1, <2>2 DEF TurnInv
<1>. QED
  BY <1>1, <1>2, PublishIsSent, ToolPublishIsSent

-----------------------------------------------------------------------------
(* The relay.                                                              *)

LEMMA RelayNext == TypeOK /\ RelayInv /\ CallerInv /\ [Next]_vars => RelayInv'
<1>. SUFFICES ASSUME TypeOK, RelayInv, CallerInv, [Next]_vars PROVE RelayInv'
  OBVIOUS
<1>. USE DEF RelayInv
<1>0. /\ stream \in Seq(Event) /\ out \in Seq(Event) /\ Len(out) \in Nat /\ Len(stream) \in Nat
      /\ taken \in 0..Len(stream) /\ relay \in {"none", "recv", "send", "gone"} /\ held \in Event
  BY DEF TypeOK
<1>1. ASSUME NEW kind \in Kinds, NEW own \in BOOLEAN, Sent(kind, own) PROVE RelayInv'
  <2>1. /\ Len(stream') = Len(stream) + 1
        /\ \A k \in 1..Len(stream) : stream'[k] = stream[k]
    BY <1>1, Grown
  <2>2. /\ Begun /\ ~turnClosed /\ UNCHANGED <<mode, ctx, turnClosed, taken, relay, held, out, outClosed, caller, answer>>
    BY <1>1 DEF Sent, relayVars, callerVars
  <2>. QED
    BY <1>0, <2>1, <2>2 DEF Begun, Relayed
<1>2. CASE CloseStream
  BY <1>0, <1>2 DEF CloseStream, Producer!Close, relayVars, callerVars, Begun, Relayed
<1>3. CASE RelayTake
  BY <1>0, <1>3 DEF RelayTake, turnVars, callerVars, Begun, Relayed
<1>4. CASE RelaySend
  <2>1. /\ Len(out') = Len(out) + 1 /\ out'[Len(out) + 1] = held
        /\ \A k \in 1..Len(out) : out'[k] = out[k]
    BY <1>0, <1>4 DEF RelaySend
  <2>. QED
    BY <1>0, <1>4, <2>1 DEF RelaySend, turnVars, callerVars, Begun, Relayed
<1>5. CASE RelayQuit \/ RelayDone
  BY <1>0, <1>5 DEF RelayQuit, RelayDone, RelayEnds, turnVars, callerVars, Begun, Relayed
<1>6. CASE Refuse \/ Begin
  <2>1. caller = "idle" /\ UNCHANGED <<mode, turnVars, taken, held, out, outClosed>>
    BY <1>6 DEF Refuse, Begin, relayVars
  <2>2. ~Begun /\ relay = "none" /\ out = <<>> /\ stream = <<>> /\ taken = 0 /\ ~outClosed
    BY <1>0, <2>1 DEF Begun
  <2>3. CASE Refuse
    BY <2>1, <2>2, <2>3 DEF Refuse, relayVars, turnVars, Begun, Relayed
  <2>4. CASE Begin
    BY <2>1, <2>2, <2>4, ModesAssumption DEF Begin, turnVars, Begun, Relayed, CallerInv, TypeOK
  <2>. QED
    BY <1>6, <2>3, <2>4
<1>7. CASE RunTurnTakes \/ RunnerTakes \/ ReaderTakes
  <2>1. Advance
    BY <1>7 DEF RunTurnTakes, RunnerTakes, ReaderTakes
  <2>2. /\ UNCHANGED <<mode, ctx, turnClosed, stream, relay, held, out, outClosed>>
        /\ Relayed => taken' = taken
    BY <2>1 DEF Advance, turnVars, relayVars
  <2>3. Begun' = Begun
    BY <1>7 DEF RunTurnTakes, RunnerTakes, ReaderTakes, Return, callerVars, Begun, CallerInv
  <2>. QED
    BY <1>0, <2>2, <2>3 DEF Relayed
<1>8. CASE LoopEnds \/ RunnerEmits
  <2>1. Begun' = Begun
    BY <1>8 DEF LoopEnds, RunnerEmits, Return, Begun, CallerInv
  <2>2. UNCHANGED <<mode, ctx, turnClosed, stream, taken, relay, held, out, outClosed>>
    BY <1>8 DEF LoopEnds, RunnerEmits, turnVars, relayVars
  <2>. QED
    BY <2>1, <2>2 DEF Relayed
<1>9. CASE TaskEnds
  BY <1>9 DEF TaskEnds, turnVars, relayVars, Begun, Relayed
<1>10. ASSUME NEW cause \in {"canceled", "deadline"}, ContextDone(cause) PROVE RelayInv'
  BY <1>10 DEF ContextDone, turnVars, relayVars, callerVars, Begun, Relayed
<1>11. CASE Terminated \/ UNCHANGED vars
  BY <1>11 DEF Terminated, vars, turnVars, relayVars, callerVars, Begun, Relayed
<1>. QED
  BY <1>1, <1>2, <1>3, <1>4, <1>5, <1>6, <1>7, <1>8, <1>9, <1>10, <1>11,
     PublishIsSent, ToolPublishIsSent DEF Next, RelayStep, CallerStep

-----------------------------------------------------------------------------
(* The callers.                                                            *)

\* What a loop ranges over only grows.
LEMMA SourceGrows ==
  ASSUME TypeOK, [Next]_vars
  PROVE  /\ Len(Source) \in Nat /\ Seen \in 0..Len(Source) /\ Seen \in Nat
         /\ \A k \in 1..Len(Source) : Source'[k] = Source[k]
         /\ \A k \in 1..Len(stream) : stream'[k] = stream[k]
         /\ Len(stream) \in Nat /\ Len(stream) <= Len(stream')
<1>1. /\ stream \in Seq(Event) /\ out \in Seq(Event) /\ held \in Event
      /\ taken \in 0..Len(stream) /\ read \in 0..Len(out)
      /\ Len(stream) \in Nat /\ Len(out) \in Nat
  BY DEF TypeOK
<1>2. (\A k \in 1..Len(stream) : stream'[k] = stream[k]) /\ Len(stream) <= Len(stream')
  <2>1. CASE \E kind \in Kinds : Publish(kind) \/ ToolPublish(kind)
    <3>1. PICK kind \in Kinds, own \in BOOLEAN : Sent(kind, own)
      BY <2>1, PublishIsSent, ToolPublishIsSent
    <3>2. /\ \A k \in 1..Len(stream) : stream'[k] = stream[k]
          /\ Len(stream') = Len(stream) + 1
      BY <3>1, Grown
    <3>. QED
      BY <1>1, <3>2
  <2>. QED
    BY <1>1, <2>1, Silent
<1>3. \A k \in 1..Len(out) : out'[k] = out[k]
  <2>1. CASE RelaySend
    BY <1>1, <2>1 DEF RelaySend
  <2>2. ASSUME NEW kind \in Kinds, Publish(kind) \/ ToolPublish(kind) PROVE out' = out
    BY <2>2, PublishIsSent, ToolPublishIsSent DEF Sent, relayVars
  <2>3. CASE CloseStream \/ RelayTake \/ RelayQuit \/ RelayDone \/ CallerStep \/ Refuse \/ Begin
             \/ ReaderTakes \/ RunnerEmits \/ TaskEnds \/ Terminated \/ UNCHANGED vars
    BY <2>3 DEF CloseStream, RelayTake, RelayQuit, RelayDone, RelayEnds, CallerStep, Refuse, Begin,
       RunTurnTakes, RunnerTakes, ReaderTakes, Advance, LoopEnds, RunnerEmits, TaskEnds,
       Terminated, vars, relayVars
  <2>4. ASSUME NEW cause \in {"canceled", "deadline"}, ContextDone(cause) PROVE out' = out
    BY <2>4 DEF ContextDone, relayVars
  <2>. QED
    BY <2>1, <2>2, <2>3, <2>4 DEF Next, RelayStep
<1>4. Relayed' = Relayed
  BY Lasting DEF Relayed
<1>. QED
  BY <1>1, <1>2, <1>3, <1>4 DEF Source, Seen

\* What becomes of a loop that did not move.
LEMMA CallerWaits ==
  ASSUME TypeOK, CallerInv, [Next]_vars, UNCHANGED callerVars, Seen' = Seen
  PROVE  CallerInv'
<1>1. /\ Len(Source) \in Nat /\ Seen \in 0..Len(Source) /\ Seen \in Nat
      /\ \A k \in 1..Len(Source) : Source'[k] = Source[k]
      /\ \A k \in 1..Len(stream) : stream'[k] = stream[k]
      /\ Len(stream) \in Nat /\ Len(stream) <= Len(stream') /\ mode' = mode
  BY SourceGrows, Lasting
<1>2. Len(stream') \in Nat
  <2>1. TypeOK'
    BY TypeNext
  <2>. QED
    BY <2>1 DEF TypeOK
<1>3. ErrorSent => ErrorSent'
  BY <1>1, <1>2 DEF ErrorSent
<1>4. NoErrorUpTo(Seen) => NoErrorUpTo(Seen)'
  BY <1>1 DEF NoErrorUpTo
<1>5. NoErrorUpTo(Seen - 1) => NoErrorUpTo(Seen - 1)'
  BY <1>1 DEF NoErrorUpTo
<1>. QED
  BY <1>1, <1>3, <1>4, <1>5 DEF CallerInv, callerVars

LEMMA AdvanceSeen ==
  ASSUME TypeOK, Advance
  PROVE  /\ Seen \in Nat /\ Seen' = Seen + 1 /\ Source' = Source
         /\ Seen + 1 \in 1..Len(Source) /\ mode' = mode /\ stream' = stream
<1>1. /\ stream \in Seq(Event) /\ out \in Seq(Event)
      /\ taken \in 0..Len(stream) /\ read \in 0..Len(out)
  BY DEF TypeOK
<1>2. Relayed' = Relayed /\ Source' = Source
  BY DEF Advance, Relayed, Source, turnVars, relayVars
<1>3. CASE Relayed
  BY <1>1, <1>2, <1>3 DEF Advance, Seen, Source, turnVars
<1>4. CASE ~Relayed
  BY <1>1, <1>2, <1>4 DEF Advance, Seen, Source, turnVars
<1>. QED
  BY <1>3, <1>4

\* An error in what a loop ranges over is one of the stream.
LEMMA ErrorIsSent ==
  ASSUME TypeOK, RelayInv, NEW k \in 1..Len(Source), Source[k].kind = "error"
  PROVE  ErrorSent
BY DEF TypeOK, RelayInv, Source, ErrorSent

LEMMA CallerNext == TypeOK /\ RelayInv /\ CallerInv /\ [Next]_vars => CallerInv'
<1>. SUFFICES ASSUME TypeOK, RelayInv, CallerInv, [Next]_vars PROVE CallerInv'
  OBVIOUS
<1>1. CASE UNCHANGED callerVars /\ Seen' = Seen
  BY <1>1, CallerWaits
<1>2. ASSUME NEW kind \in Kinds, Publish(kind) \/ ToolPublish(kind)
      PROVE  UNCHANGED callerVars /\ Seen' = Seen
  BY <1>2, PublishIsSent, ToolPublishIsSent DEF Sent, Seen, Relayed, callerVars
<1>3. CASE CloseStream \/ RelayQuit \/ RelayDone \/ RelaySend \/ TaskEnds \/ Terminated \/ UNCHANGED vars
  <2>1. Seen' = Seen /\ UNCHANGED <<caller, answer>> /\ mode' = mode /\ stream' = stream
    BY <1>3 DEF CloseStream, Producer!Close, RelayQuit, RelayDone, RelayEnds, RelaySend, TaskEnds, Terminated, Seen,
       Relayed, vars, callerVars, turnVars
  <2>2. CASE ~TaskEnds
    BY <1>1, <1>3, <2>1, <2>2 DEF CloseStream, RelayQuit, RelayDone, RelayEnds, RelaySend, Terminated, vars, callerVars
  <2>3. CASE TaskEnds
    BY <2>1, <2>3 DEF TaskEnds, CallerInv, NoErrorUpTo, Source, Relayed, ErrorSent, relayVars, turnVars
  <2>. QED
    BY <2>2, <2>3
<1>4. ASSUME NEW cause \in {"canceled", "deadline"}, ContextDone(cause)
      PROVE  UNCHANGED callerVars /\ Seen' = Seen
  BY <1>4 DEF ContextDone, Seen, Relayed
<1>5. CASE RelayTake
  BY <1>1, <1>5 DEF RelayTake, RelayInv, Seen, Relayed
<1>6. CASE Refuse
  BY <1>6 DEF Refuse, CallerInv
<1>7. CASE Begin
  <2>1. Seen' = 0
    BY <1>7 DEF Begin, RelayInv, Begun, Seen, Relayed, TypeOK
  <2>. QED
    BY <1>7, <2>1, ModesAssumption DEF Begin, CallerInv, NoErrorUpTo, ErrorSent, TypeOK
<1>8. CASE RunTurnTakes
  <2>1. /\ Seen \in Nat /\ Seen' = Seen + 1 /\ Source' = Source
        /\ Seen + 1 \in 1..Len(Source) /\ mode' = mode /\ stream' = stream
    BY <1>8, AdvanceSeen DEF RunTurnTakes
  <2>2. caller = "reading" /\ mode \in {"run", "oneshot"} /\ NoErrorUpTo(Seen)
    BY <1>8 DEF RunTurnTakes, CallerInv
  <2>3. CASE Source[Seen + 1].kind = "error"
    <3>1. caller' = "returned" /\ answer' = "error"
      BY <1>8, <2>3 DEF RunTurnTakes, Return
    <3>2. ErrorSent'
      BY <2>1, <2>3, ErrorIsSent DEF ErrorSent
    <3>. QED
      BY <2>1, <2>2, <3>1, <3>2 DEF CallerInv
  <2>4. CASE Source[Seen + 1].kind # "error"
    <3>1. caller' = caller /\ answer' = answer
      BY <1>8, <2>4 DEF RunTurnTakes, callerVars
    <3>2. NoErrorUpTo(Seen)'
      BY <2>1, <2>2, <2>4 DEF NoErrorUpTo
    <3>. QED
      BY <2>1, <2>2, <3>1, <3>2 DEF CallerInv
  <2>. QED
    BY <2>3, <2>4
<1>9. CASE RunnerTakes
  <2>1. /\ Seen \in Nat /\ Seen' = Seen + 1 /\ Source' = Source
        /\ Seen + 1 \in 1..Len(Source) /\ mode' = mode /\ stream' = stream
    BY <1>9, AdvanceSeen DEF RunnerTakes
  <2>2. /\ caller = "reading" /\ mode = "agent" /\ NoErrorUpTo(Seen)
        /\ answer = "none" /\ answer' = answer
    BY <1>9 DEF RunnerTakes, CallerInv
  <2>3. CASE Forwarded(Source[Seen + 1])
    <3>1. caller' = "emit"
      BY <1>9, <2>3 DEF RunnerTakes
    <3>2. NoErrorUpTo(Seen - 1)'
      BY <2>1, <2>2 DEF NoErrorUpTo
    <3>. QED
      BY <2>1, <2>2, <3>1, <3>2 DEF CallerInv
  <2>4. CASE ~Forwarded(Source[Seen + 1])
    <3>1. caller' = "reading" /\ Source[Seen + 1].kind # "error"
      BY <1>9, <2>4 DEF RunnerTakes, Forwarded
    <3>2. NoErrorUpTo(Seen)'
      BY <2>1, <2>2, <3>1 DEF NoErrorUpTo
    <3>. QED
      BY <2>1, <2>2, <3>1, <3>2 DEF CallerInv
  <2>. QED
    BY <2>3, <2>4
<1>10. CASE ReaderTakes
  <2>1. /\ mode = "stream" /\ mode' = mode /\ UNCHANGED <<caller, answer, stream>>
    BY <1>10, AdvanceSeen DEF ReaderTakes, callerVars
  <2>. QED
    BY <2>1 DEF CallerInv
<1>11. CASE LoopEnds
  BY <1>11 DEF LoopEnds, Return, CallerInv
<1>12. CASE RunnerEmits
  <2>1. /\ Seen' = Seen /\ Source' = Source /\ mode' = mode /\ stream' = stream
        /\ caller = "emit" /\ mode = "agent" /\ Seen > 0 /\ NoErrorUpTo(Seen - 1)
    BY <1>12 DEF RunnerEmits, Seen, Source, Relayed, turnVars, relayVars, CallerInv
  <2>2. Seen \in 1..Len(Source) /\ Len(Source) \in Nat
    BY <2>1, SourceGrows
  <2>3. CASE Source[Seen].kind = "error"
    <3>1. caller' = "returned" /\ answer' = "error"
      BY <1>12, <2>3 DEF RunnerEmits, Return
    <3>2. ErrorSent'
      BY <2>1, <2>2, <2>3, ErrorIsSent DEF ErrorSent
    <3>. QED
      BY <2>1, <3>1, <3>2 DEF CallerInv
  <2>4. CASE Source[Seen].kind # "error"
    <3>1. caller' = "reading" /\ answer' = answer
      BY <1>12, <2>4 DEF RunnerEmits
    <3>2. NoErrorUpTo(Seen)'
      BY <2>1, <2>2, <2>4 DEF NoErrorUpTo
    <3>. QED
      BY <2>1, <3>1, <3>2 DEF CallerInv
  <2>. QED
    BY <2>3, <2>4
<1>. QED
  BY <1>1, <1>2, <1>3, <1>4, <1>5, <1>6, <1>7, <1>8, <1>9, <1>10, <1>11, <1>12
     DEF Next, RelayStep, CallerStep

-----------------------------------------------------------------------------
(* What the callers are told.                                              *)

\* A caller who has its answer reads no further, and what it read stays.
LEMMA AnswerStays ==
  ASSUME IInv, [Next]_vars, answer = "nil"
  PROVE  Seen' = Seen /\ Source' = Source /\ SourceClosed'
<1>1. /\ caller = "returned" /\ mode # "stream" /\ SourceClosed
      /\ RelayInv /\ TypeOK /\ Relayed' = Relayed
  BY Lasting DEF IInv, CallerInv, TypeOK, Told, Relayed
<1>2. CASE Relayed
  <2>1. relay = "gone"
    BY <1>1, <1>2 DEF SourceClosed, RelayInv
  <2>2. UNCHANGED <<out, outClosed, read>>
    <3>1. ASSUME NEW kind \in Kinds, Publish(kind) \/ ToolPublish(kind)
          PROVE  UNCHANGED <<out, outClosed, read>>
      BY <3>1, PublishIsSent, ToolPublishIsSent DEF Sent, relayVars
    <3>2. CASE CloseStream \/ TaskEnds \/ Terminated \/ UNCHANGED vars
      BY <3>2 DEF CloseStream, TaskEnds, Terminated, vars, relayVars
    <3>3. ASSUME NEW cause \in {"canceled", "deadline"}, ContextDone(cause)
          PROVE  UNCHANGED <<out, outClosed, read>>
      BY <3>3 DEF ContextDone, relayVars
    <3>. QED
      BY <1>1, <2>1, <3>1, <3>2, <3>3 DEF Next, RelayStep, RelayTake, RelaySend, RelayQuit, RelayDone,
         CallerStep, Refuse, Begin, RunTurnTakes, RunnerTakes, LoopEnds, RunnerEmits, ReaderTakes
  <2>. QED
    BY <1>1, <1>2, <2>2 DEF Seen, Source, SourceClosed
<1>3. CASE ~Relayed
  <2>1. turnClosed /\ turnClosed' /\ stream' = stream
    BY <1>1, <1>3, Lasting DEF SourceClosed
  <2>2. relay = "none"
    BY <1>1, <1>3 DEF RelayInv
  <2>3. taken' = taken
    <3>1. ASSUME NEW kind \in Kinds, Publish(kind) \/ ToolPublish(kind) PROVE FALSE
      BY <2>1, <3>1, PublishIsSent, ToolPublishIsSent DEF Sent
    <3>2. CASE CloseStream \/ TaskEnds \/ Terminated \/ UNCHANGED vars
      BY <3>2 DEF CloseStream, TaskEnds, Terminated, vars
    <3>3. ASSUME NEW cause \in {"canceled", "deadline"}, ContextDone(cause) PROVE taken' = taken
      BY <3>3 DEF ContextDone
    <3>. QED
      BY <1>1, <2>2, <3>1, <3>2, <3>3 DEF Next, RelayStep, RelayTake, RelaySend, RelayQuit, RelayDone,
         CallerStep, Refuse, Begin, RunTurnTakes, RunnerTakes, LoopEnds, RunnerEmits, ReaderTakes
  <2>. QED
    BY <1>1, <1>3, <2>1, <2>3 DEF Seen, Source, SourceClosed
<1>. QED
  BY <1>2, <1>3

\* "nil" is the answer of a loop that came to the end of its source.
LEMMA NilIsTheEnd ==
  ASSUME [Next]_vars, answer' = "nil", answer # "nil"
  PROVE  LoopEnds
<1>1. ASSUME NEW kind \in Kinds, Publish(kind) \/ ToolPublish(kind) PROVE answer' = answer
  BY <1>1, PublishIsSent, ToolPublishIsSent DEF Sent, callerVars
<1>2. CASE CloseStream \/ RelayStep \/ Refuse \/ Begin \/ RunTurnTakes \/ RunnerTakes
           \/ RunnerEmits \/ ReaderTakes \/ TaskEnds \/ Terminated \/ UNCHANGED vars
  BY <1>2 DEF CloseStream, RelayStep, RelayTake, RelaySend, RelayQuit, RelayDone, RelayEnds,
     Refuse, Begin, RunTurnTakes, RunnerTakes, RunnerEmits, ReaderTakes, Return, TaskEnds,
     Terminated, vars, callerVars
<1>3. ASSUME NEW cause \in {"canceled", "deadline"}, ContextDone(cause) PROVE answer' = answer
  BY <1>3 DEF ContextDone, callerVars
<1>. QED
  BY <1>1, <1>2, <1>3 DEF Next, CallerStep

\* A source without an error that holds the whole stream is not of a failed turn.
LEMMA NotFailed ==
  ASSUME IInv, Len(Source) = Len(stream), \A k \in 1..Len(Source) : Source[k].kind # "error", Over
  PROVE  Completed
<1>1. stream \in Seq(Event) /\ \A k \in 1..Len(stream) : Source[k] = stream[k]
  BY DEF IInv, TypeOK, RelayInv, Source
<1>2. stream # <<>> /\ stream[Len(stream)].kind \in Terminal
  BY DEF Over, Producer!Ended, Terminal
<1>3. Len(stream) \in 1..Len(stream)
  BY <1>1, <1>2
<1>4. stream[Len(stream)].kind # "error"
  BY <1>1, <1>3
<1>. QED
  BY <1>2, <1>4 DEF Completed, Terminal, Producer!Terminal

LEMMA ToldNext == IInv /\ [Next]_vars => Told'
<1>. SUFFICES ASSUME IInv, [Next]_vars, answer' = "nil"
     PROVE  /\ SourceClosed' /\ Seen' = Len(Source')
            /\ \A k \in 1..Seen' : Source'[k].kind # "error"
            /\ (Completed' /\ turnClosed' /\ Seen' = Len(stream')) \/ ctx' # "live"
            /\ Over' /\ ~Completed' => Relayed' /\ Len(out') < Len(stream')
  BY DEF Told
<1>0. /\ TypeOK /\ TurnInv /\ RelayInv /\ CallerInv /\ Told
      /\ Len(stream) \in Nat /\ Len(out) \in Nat /\ Len(out) <= Len(stream)
      /\ Relayed' = Relayed /\ (ctx # "live" => ctx' # "live")
  BY Lasting DEF IInv, TypeOK, RelayInv, Relayed
<1>1. stream' = stream => Over' = Over /\ Completed' = Completed
  BY DEF Completed, Over, Producer!Ended
<1>2. CASE answer = "nil"
  <2>1. Seen' = Seen /\ Source' = Source /\ SourceClosed'
    BY <1>2, AnswerStays
  <2>2. /\ Seen = Len(Source) /\ \A k \in 1..Seen : Source[k].kind # "error"
        /\ (Completed /\ turnClosed /\ Seen = Len(stream)) \/ ctx # "live"
        /\ Over /\ ~Completed => Relayed /\ Len(out) < Len(stream)
        /\ SourceClosed
    BY <1>0, <1>2 DEF Told
  <2>3. (Completed' /\ turnClosed' /\ Seen' = Len(stream')) \/ ctx' # "live"
    BY <1>0, <1>1, <2>1, <2>2, Lasting
  <2>4. Over' /\ ~Completed' => Relayed' /\ Len(out') < Len(stream')
    <3>1. CASE stream' = stream
      <4>1. Relayed => out' = out
        BY <1>0, <2>1 DEF Source
      <4>. QED
        BY <1>0, <1>1, <2>2, <3>1, <4>1
    <3>2. CASE stream' # stream
      <4>1. PICK kind \in Kinds, own \in BOOLEAN : Sent(kind, own)
        BY <3>2, Silent, PublishIsSent, ToolPublishIsSent
      <4>2. Len(stream') = Len(stream) + 1 /\ out' = out
        BY <1>0, <4>1, Grown DEF Sent, relayVars
      <4>3. Relayed
        BY <2>2, <4>1 DEF Sent, SourceClosed
      <4>. QED
        BY <1>0, <4>2, <4>3
    <3>. QED
      BY <3>1, <3>2
  <2>. QED
    BY <2>1, <2>2, <2>3, <2>4
<1>3. CASE answer # "nil"
  <2>1. LoopEnds
    BY <1>3, NilIsTheEnd
  <2>2. /\ caller = "reading" /\ SourceClosed /\ Seen = Len(Source)
        /\ UNCHANGED <<mode, ctx, turnClosed, stream, taken, read, relay, out, outClosed>>
    BY <2>1 DEF LoopEnds, turnVars, relayVars
  <2>3. Seen' = Seen /\ Source' = Source /\ SourceClosed'
    BY <1>0, <2>2 DEF Seen, Source, SourceClosed
  <2>4. \A k \in 1..Len(Source) : Source[k].kind # "error"
    BY <1>0, <2>2 DEF CallerInv, NoErrorUpTo
  <2>5. ctx = "live" => turnClosed /\ Len(Source) = Len(stream) /\ Over
    BY <1>0, <2>2 DEF SourceClosed, Source, RelayInv, TurnInv
  <2>6. ctx = "live" => Completed
    BY <2>4, <2>5, NotFailed
  <2>7. Over /\ ~Completed => Relayed /\ Len(out) < Len(stream)
    <3>1. Over /\ ~Completed => Len(Source) # Len(stream)
      BY <2>4, NotFailed
    <3>. QED
      BY <1>0, <3>1 DEF Source
  <2>. QED
    BY <1>0, <1>1, <2>2, <2>3, <2>4, <2>5, <2>6, <2>7
<1>. QED
  BY <1>2, <1>3

LEMMA TaskNext == IInv /\ [Next]_vars => TaskTellsTheTurn'
<1>. SUFFICES ASSUME IInv, [Next]_vars, outcome' = "completed", ctx' # "deadline"
     PROVE  Completed' /\ turnClosed'
  BY DEF TaskTellsTheTurn
<1>1. CASE outcome = "completed"
  <2>1. (Completed /\ turnClosed) \/ ctx = "deadline"
    BY <1>1 DEF IInv, TaskTellsTheTurn
  <2>2. Completed /\ turnClosed
    BY <2>1, Lasting DEF IInv
  <2>3. turnClosed' /\ stream' = stream
    BY <2>2, Lasting DEF IInv
  <2>. QED
    BY <2>2, <2>3 DEF Completed, Over, Producer!Ended
<1>2. CASE outcome # "completed"
  <2>1. TaskEnds
    <3>1. ASSUME NEW kind \in Kinds, Publish(kind) \/ ToolPublish(kind) PROVE outcome' = outcome
      BY <3>1, PublishIsSent, ToolPublishIsSent DEF Sent, callerVars
    <3>2. CASE CallerStep \/ RunnerEmits \/ ReaderTakes
      BY <1>2, <3>2 DEF CallerStep, RunTurnTakes, RunnerTakes, RunnerEmits, LoopEnds, ReaderTakes, Return, callerVars
    <3>3. CASE CloseStream \/ RelayStep \/ Refuse \/ Begin \/ Terminated \/ UNCHANGED vars
      BY <1>2, <3>3 DEF CloseStream, RelayStep, RelayTake, RelaySend, RelayQuit, RelayDone, RelayEnds,
         Refuse, Begin, Terminated, vars, callerVars
    <3>4. ASSUME NEW cause \in {"canceled", "deadline"}, ContextDone(cause) PROVE outcome' = outcome
      BY <3>4 DEF ContextDone, callerVars
    <3>. QED
      BY <1>2, <3>1, <3>2, <3>3, <3>4 DEF Next
  <2>2. /\ ctx # "canceled" /\ answer = "nil" /\ UNCHANGED <<ctx, stream, turnClosed>>
    BY <2>1 DEF TaskEnds, Outcomes, turnVars
  <2>3. ctx = "live"
    BY <2>2 DEF IInv, TypeOK
  <2>4. Completed /\ turnClosed
    BY <2>2, <2>3 DEF IInv, Told
  <2>. QED
    BY <2>2, <2>4 DEF Completed, Over, Producer!Ended
<1>. QED
  BY <1>1, <1>2

LEMMA InvNext == IInv /\ [Next]_vars => IInv'
BY TypeNext, TurnNext, RelayNext, CallerNext, ToldNext, TaskNext DEF IInv

-----------------------------------------------------------------------------
(* The theorems.                                                           *)

LEMMA InvAlways == Spec => []IInv
BY InitInv, InvNext, PTL DEF Spec

(***************************************************************************)
(* Types, and neither channel ever holds more than its capacity.           *)
(***************************************************************************)
THEOREM TypeCorrect == Spec => []TypeOK
BY InvAlways, PTL DEF IInv

(***************************************************************************)
(* RunTurn, RunOneShot and the agent runner answer without an error only   *)
(* what they were told to the end and without an error: of a turn that     *)
(* completed, or with the context done of what there is; a failed turn is  *)
(* answered so only by RunTurn, its error left behind in the relay.  They  *)
(* answer an error only when there was one: turnmesh.go:430-536,           *)
(* runtime_components.go:213-222.                                          *)
(***************************************************************************)
THEOREM AnswerCorrect == Spec => []AnswerTellsTheTurn
<1>1. IInv => AnswerTellsTheTurn
  <2>. SUFFICES ASSUME IInv, answer = "error", ~ToolFailed PROVE Over /\ ~Completed
    BY DEF AnswerTellsTheTurn, IInv, Told
  <2>1. stream \in Seq(Event)
    BY DEF IInv, TypeOK
  <2>2. PICK k \in 1..Len(stream) : stream[k].kind = "error"
    BY DEF IInv, CallerInv, ErrorSent
  <2>3. stream[k].own
    BY <2>1, <2>2 DEF ToolFailed
  <2>4. k = Len(stream) /\ stream # <<>>
    BY <2>1, <2>2, <2>3 DEF IInv, TurnInv, Terminal, Producer!Terminal
  <2>. QED
    BY <2>2, <2>3, <2>4 DEF Over, Completed, Producer!Ended, Producer!Terminal
<1>. QED
  BY <1>1, InvAlways, PTL

(***************************************************************************)
(* An agent task completes only if its turn did, but for one exception, a  *)
(* deadline of its context: runtime_impl.go:243-278.                       *)
(***************************************************************************)
THEOREM TaskCorrect == Spec => []TaskTellsTheTurn
BY InvAlways, PTL DEF IInv

-----------------------------------------------------------------------------
(* What StreamTurn returns implements TurnStream.                          *)

LEMMA RelayedInit == Init => Stream!Init
BY DEF Init, Stream!Init

LEMMA RelayedNext == IInv /\ [Next]_vars => [Stream!Next]_Stream!vars
<1>. SUFFICES ASSUME IInv, [Next]_vars PROVE [Stream!Next]_Stream!vars
  OBVIOUS
<1>0. /\ stream \in Seq(Event) /\ out \in Seq(Event)
      /\ Len(out) \in Nat /\ Len(stream) \in Nat /\ DOMAIN out = 1..Len(out)
      /\ Len(out) <= Len(stream) /\ \A k \in 1..Len(out) : out[k] = stream[k]
  BY DEF IInv, TypeOK, RelayInv
<1>1. CASE RelaySend
  <2>1. /\ relay = "send" /\ held = stream[taken] /\ taken = Len(out) + 1 /\ ~outClosed
        /\ out' = Append(out, held) /\ UNCHANGED <<ctx, outClosed>>
    BY <1>1 DEF RelaySend, IInv, RelayInv
  <2>2. held \in Event /\ taken \in 1..Len(stream) /\ taken - 1 = Len(out) /\ (out = <<>> <=> taken = 1)
    BY <1>0, <2>1 DEF IInv, TypeOK
  <2>3. PICK kind \in Stream!Kinds, own \in BOOLEAN : held = [kind |-> kind, own |-> own]
    BY <2>2 DEF Event, Kinds, Producer!Kinds, Producer!Terminal, Stream!Kinds, Stream!Terminal
  <2>4. held.kind = kind /\ held.own = own
    BY <2>3
  <2>5. ~Stream!Ended
    <3>1. \A k \in 1..Len(out) : ~(out[k].own /\ out[k].kind \in Stream!Terminal)
      BY <1>0, <2>1, <2>2 DEF IInv, TurnInv, Terminal, Producer!Terminal, Stream!Terminal
    <3>2. out # <<>> => Len(out) \in 1..Len(out)
      BY <1>0
    <3>. QED
      BY <3>1, <3>2 DEF Stream!Ended
  <2>6. CASE own
    <3>1. out = <<>> <=> kind = "started"
      BY <2>1, <2>2, <2>4, <2>6 DEF IInv, TurnInv
    <3>2. Stream!Publish(kind)
      BY <2>1, <2>3, <2>5, <2>6, <3>1 DEF Stream!Publish
    <3>. QED
      BY <2>3, <3>2 DEF Stream!Next
  <2>7. CASE ~own
    <3>1. PICK j \in 1..(taken - 1) : stream[j].own /\ stream[j].kind = "tool_call"
      BY <2>1, <2>2, <2>4, <2>7 DEF IInv, TurnInv
    <3>2. Stream!Announced
      BY <1>0, <2>2, <3>1 DEF Stream!Announced
    <3>3. Stream!ToolPublish(kind)
      BY <2>1, <2>3, <2>5, <2>7, <3>2 DEF Stream!ToolPublish
    <3>. QED
      BY <2>3, <3>3 DEF Stream!Next
  <2>. QED
    BY <2>6, <2>7
<1>2. CASE RelayQuit \/ RelayDone
  <2>1. /\ ~outClosed /\ outClosed' = TRUE /\ UNCHANGED <<out, ctx>>
    BY <1>2 DEF RelayQuit, RelayDone, RelayEnds, IInv, RelayInv
  <2>2. Stream!Ended \/ ctx # "live"
    <3>1. CASE RelayDone /\ ctx = "live"
      <4>1. Over /\ Len(out) = Len(stream)
        BY <3>1 DEF RelayDone, IInv, TurnInv, RelayInv
      <4>2. Len(out) \in 1..Len(out) /\ out # <<>>
        BY <1>0, <4>1 DEF Over, Producer!Ended
      <4>. QED
        BY <1>0, <4>1, <4>2 DEF Over, Producer!Ended, Producer!Terminal, Stream!Ended, Stream!Terminal
    <3>. QED
      BY <1>2, <3>1 DEF RelayQuit
  <2>3. Stream!Close
    BY <2>1, <2>2 DEF Stream!Close
  <2>. QED
    BY <2>3 DEF Stream!Next
<1>3. ASSUME NEW cause \in {"canceled", "deadline"}, ContextDone(cause) PROVE Stream!Next
  BY <1>3 DEF ContextDone, relayVars, Stream!Next, Stream!Cancel
<1>4. ASSUME NEW kind \in Kinds, Publish(kind) \/ ToolPublish(kind) PROVE UNCHANGED Stream!vars
  BY <1>4, PublishIsSent, ToolPublishIsSent DEF Sent, relayVars, Stream!vars
<1>5. CASE CloseStream \/ RelayTake \/ CallerStep \/ Refuse \/ Begin \/ ReaderTakes \/ RunnerEmits
           \/ TaskEnds \/ Terminated \/ UNCHANGED vars
  BY <1>5 DEF CloseStream, RelayTake, CallerStep, Refuse, Begin, RunTurnTakes, RunnerTakes,
     ReaderTakes, Advance, LoopEnds, RunnerEmits, TaskEnds, Terminated, vars, relayVars, Stream!vars
<1>. QED
  BY <1>1, <1>2, <1>3, <1>4, <1>5 DEF Next, RelayStep

(***************************************************************************)
(* The channel StreamTurn returns keeps the promise of the engine's stream *)
(* and carries its events, each once and in order, whatever tools publish  *)
(* and whenever the context is done: turnmesh.go:430-441.                  *)
(***************************************************************************)
THEOREM RelayImplemented == Spec => RelaysTurnStream
<1>1. IInv => \A k \in DOMAIN out : k \in DOMAIN stream /\ out[k] = stream[k]
  <2>. SUFFICES ASSUME IInv, NEW k \in DOMAIN out PROVE k \in DOMAIN stream /\ out[k] = stream[k]
    OBVIOUS
  <2>1. stream \in Seq(Event) /\ out \in Seq(Event)
    BY DEF IInv, TypeOK
  <2>. QED
    BY <2>1 DEF IInv, RelayInv
<1>. QED
  BY <1>1, InvAlways, RelayedInit, RelayedNext, PTL DEF Spec, RelaysTurnStream, Stream!Spec
=============================================================================
