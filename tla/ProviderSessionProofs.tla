------------------------ MODULE ProviderSessionProofs ------------------------
(***************************************************************************)
(* Proofs about ProviderSession for any number of turns and passes, any    *)
(* replies and any channel: types, the stream of each pass, and what the   *)
(* session remembers of the passes that were completed and of those that   *)
(* failed.                                                                 *)
(*                                                                         *)
(* Shape relates where the goroutine of a pass stands to the events it has *)
(* sent; TurnInv relates the passes of a turn to each other and to its     *)
(* conversation; KnownInv and CountInv say what the history holds.         *)
(***************************************************************************)
EXTENDS ProviderSession, FiniteSetTheorems, SequenceTheorems, TLAPS

Terminal == {"completed", "error"}
Spoken == {"message", "tool_call"}
EventKinds == {"started"} \cup Spoken \cup Terminal

Places == {"idle", "refused", "start", "ask", "report", "complete", "error", "return", "closed"}

Roles == {"user", "assistant", "tool"}
MessageSet == [turn : Turns, pass : 0..MaxPasses, role : Roles]

Types ==
  /\ provider \in Providers
  /\ at \in [Passes -> Places]
  /\ pass \in [Turns -> 0..MaxPasses]
  /\ reply \in [Passes -> Replies \cup {<<>>}]
  /\ ctxDone \in SUBSET Turns
  /\ known \in Seq(MessageSet)
  /\ conv \in [Turns -> Seq(MessageSet)]
  /\ request \in [Passes -> Seq(MessageSet)]
  /\ emitted \in [Passes -> Seq(EventKinds)]
  /\ taken \in [Passes -> Nat]
  /\ \A c \in Passes : taken[c] <= Len(emitted[c]) /\ Len(emitted[c]) - taken[c] <= EventCap

\* What the goroutine of a pass has sent, by where it stands.
Live == {"ask", "report", "complete", "error"}

EndedAt(c) == emitted[c] # <<>> /\ emitted[c][Len(emitted[c])] \in Terminal

ShapeAt(c) ==
  /\ at[c] \in {"idle", "refused", "start"} => emitted[c] = <<>>
  /\ at[c] = "ask" => Len(emitted[c]) = 1
  /\ at[c] \in Live => /\ emitted[c] # <<>>
                       /\ \A i \in 1..Len(emitted[c]) : emitted[c][i] \notin Terminal
  /\ emitted[c] # <<>> => emitted[c][1] = "started"
  /\ at[c] \in {"return", "closed"} => EndedAt(c) \/ c[1] \in ctxDone
  /\ Has(c, "tool_call") => reply[c] # <<>>

Shape == \A c \in Passes : ShapeAt(c)

-----------------------------------------------------------------------------
(* The shape of the steps.                                                 *)

\* The steps of a pass in the session, and those of the engine.
OfSession(c) ==
  StreamTurn(c) \/ AskFails(c) \/ AskRefused(c) \/ Ask(c) \/ SessionStep(c)

OfEngine(c) == Read(c) \/ LastPass(c) \/ NextPass(c) \/ Interrupted(c)

LEMMA PassFacts ==
  /\ \A c \in Passes : c[1] \in Turns /\ c[2] \in 1..MaxPasses /\ c = <<c[1], c[2]>>
  /\ \A t \in Turns, p \in 1..MaxPasses :
       <<t, p>> \in Passes /\ <<t, p>>[1] = t /\ <<t, p>>[2] = p
BY DEF Passes

\* A step of the session in one pass leaves the engine and the other passes alone.
LEMMA SessionFrame ==
  ASSUME Types, NEW c \in Passes, OfSession(c)
  PROVE  /\ UNCHANGED engineVars /\ provider' = provider
         /\ \A d \in Passes : d # c =>
              /\ at'[d] = at[d] /\ request'[d] = request[d] /\ reply'[d] = reply[d]
              /\ emitted'[d] = emitted[d]
<1>1. UNCHANGED engineVars /\ provider' = provider
  BY DEF OfSession, StreamTurn, AskFails, AskRefused, Ask, Answered, SessionStep, Start, Report,
         DecodeFails, Record, Complete, Fail, Close
<1>2. \E next : at' = [at EXCEPT ![c] = next]
  BY DEF OfSession, StreamTurn, AskFails, AskRefused, Ask, Answered, SessionStep, Start, Report,
         DecodeFails, Record, Complete, Fail, Close, Emit, Send, Goto
<1>3. request' = request \/ \E r : request' = [request EXCEPT ![c] = r]
  BY DEF OfSession, StreamTurn, AskFails, AskRefused, Ask, Answered, SessionStep, Start, Report,
         DecodeFails, Record, Complete, Fail, Close
<1>4. reply' = reply \/ \E r : reply' = [reply EXCEPT ![c] = r]
  BY DEF OfSession, StreamTurn, AskFails, AskRefused, Ask, Answered, SessionStep, Start, Report,
         DecodeFails, Record, Complete, Fail, Close
<1>5. emitted' = emitted \/ \E kind : emitted' = [emitted EXCEPT ![c] = Append(@, kind)]
  BY DEF OfSession, StreamTurn, AskFails, AskRefused, Ask, Answered, SessionStep, Start, Report,
         DecodeFails, Record, Complete, Fail, Close, Emit, Send
<1>. QED
  BY <1>1, <1>2, <1>3, <1>4, <1>5 DEF Types

\* An event is sent, or given up for the context.
LEMMA EmitFacts ==
  ASSUME Types, NEW c \in Passes, NEW kind \in EventKinds, NEW next, Emit(c, kind, next)
  PROVE  \/ /\ at'[c] = next /\ emitted' \in [Passes -> Seq(EventKinds)]
            /\ Len(emitted[c]) \in Nat /\ Len(emitted'[c]) = Len(emitted[c]) + 1
            /\ emitted'[c][Len(emitted[c]) + 1] = kind
            /\ \A i \in 1..Len(emitted[c]) : emitted'[c][i] = emitted[c][i]
            /\ emitted'[c] = Append(emitted[c], kind)
            /\ Len(emitted[c]) - taken[c] < EventCap
         \/ /\ at'[c] = "return" /\ c[1] \in ctxDone /\ emitted' = emitted
<1>1. emitted[c] \in Seq(EventKinds) /\ emitted \in [Passes -> Seq(EventKinds)]
      /\ at \in [Passes -> Places]
  BY DEF Types
<1>2. CASE Send(c, kind, next)
  <2>1. /\ emitted' = [emitted EXCEPT ![c] = Append(emitted[c], kind)] /\ at'[c] = next
        /\ Len(emitted[c]) - taken[c] < EventCap
    BY <1>1, <1>2 DEF Send, Room, Goto
  <2>2. emitted'[c] = Append(emitted[c], kind)
    BY <1>1, <2>1
  <2>3. Append(emitted[c], kind) \in Seq(EventKinds)
    BY <1>1
  <2>4. emitted' \in [Passes -> Seq(EventKinds)]
    BY <1>1, <2>1, <2>3
  <2>. QED
    BY <1>1, <2>1, <2>2, <2>4
<1>3. CASE ~Send(c, kind, next)
  BY <1>1, <1>3 DEF Emit, Goto
<1>. QED
  BY <1>2, <1>3

\* What is left of a reply is a message or a call.
LEMMA BlockKind ==
  ASSUME Types, Shape, NEW c \in Passes, at[c] = "report", ~AllReported(c)
  PROVE  Block(c) \in Spoken /\ reply[c] # <<>>
<1>1. emitted[c] \in Seq(EventKinds) /\ emitted[c] # <<>>
  BY DEF Types, Shape, ShapeAt, Live
<1>2. Len(emitted[c]) \in Nat /\ Len(emitted[c]) >= 1
  BY <1>1
<1>3. reply[c] \in Seq(Spoken)
  <2>1. <<>> \in Seq(Spoken)
    OBVIOUS
  <2>. QED
    BY <2>1, RepliesAssumption DEF Types, Spoken
<1>4. Len(reply[c]) \in Nat /\ Len(emitted[c]) <= Len(reply[c])
  BY <1>2, <1>3 DEF AllReported
<1>5. reply[c] # <<>>
  <2>1. Len(<<>>) = 0
    OBVIOUS
  <2>. QED
    BY <1>2, <1>4, <2>1
<1>6. Len(emitted[c]) \in 1..Len(reply[c])
  BY <1>2, <1>4
<1>7. reply[c][Len(emitted[c])] \in Spoken
  BY <1>3, <1>6, ElementOfSeq
<1>. QED
  BY <1>5, <1>7 DEF Block

LEMMA MessageTypes ==
  /\ \A c \in Passes, role \in Roles : Message(c, role) \in MessageSet
  /\ \A t \in Turns : User(t) \in MessageSet
BY PassFacts, BoundsAssumption DEF Message, User, MessageSet, Roles

LEMMA AnswerTypes ==
  ASSUME NEW c \in Passes
  PROVE  /\ Answer(c) \in Seq(MessageSet)
         /\ Len(Answer(c)) = IF reply[c] = <<>> THEN 0 ELSE 1
         /\ reply[c] # <<>> => Answer(c)[1] = Message(c, "assistant")
<1>1. Message(c, "assistant") \in MessageSet
  BY MessageTypes DEF Roles
<1>. QED
  BY <1>1 DEF Answer

-----------------------------------------------------------------------------
(* Types and the shape of the streams.                                     *)

LEMMA InitShape == Init => Types /\ Shape
<1>. SUFFICES ASSUME Init PROVE Types /\ Shape
  OBVIOUS
<1>1. /\ \A t \in Turns : User(t) \in MessageSet
      /\ conv = [t \in Turns |-> <<User(t)>>]
  BY MessageTypes DEF Init
<1>2. conv \in [Turns -> Seq(MessageSet)]
  BY <1>1
<1>3. pass \in [Turns -> 0..MaxPasses]
  BY BoundsAssumption DEF Init
<1>4. known \in Seq(MessageSet) /\ request \in [Passes -> Seq(MessageSet)]
  BY DEF Init
<1>5. /\ emitted \in [Passes -> Seq(EventKinds)] /\ reply \in [Passes -> Replies \cup {<<>>}]
      /\ \A c \in Passes : emitted[c] = <<>>
  BY DEF Init
<1>6. taken \in [Passes -> Nat] /\ \A c \in Passes : taken[c] = 0
  BY DEF Init
<1>7. at \in [Passes -> Places] /\ \A c \in Passes : at[c] = "idle"
  BY DEF Init, Places
<1>8. \A c \in Passes : Len(emitted[c]) = 0
  BY <1>5
<1>9. \A c \in Passes : taken[c] <= Len(emitted[c]) /\ Len(emitted[c]) - taken[c] <= EventCap
  BY <1>6, <1>8, BoundsAssumption
<1>10. Types
  BY <1>2, <1>3, <1>4, <1>5, <1>6, <1>7, <1>9 DEF Types, Init
<1>11. Shape
  BY <1>5, <1>7, <1>8 DEF Shape, ShapeAt, Live, Has
<1>. QED
  BY <1>10, <1>11

\* Where a step of the session leaves the goroutine, and the events it sends.
LEMMA SessionEvents ==
  ASSUME Types, Shape, NEW c \in Passes, OfSession(c)
  PROVE  /\ at' \in [Passes -> Places]
         /\ \/ emitted' = emitted
            \/ \E kind \in EventKinds, next \in Places : Emit(c, kind, next)
<1>1. ASSUME NEW next \in Places, Goto(c, next) PROVE at' \in [Passes -> Places]
  BY <1>1 DEF Goto, Types
<1>2. ASSUME NEW kind \in EventKinds, NEW next \in Places, Emit(c, kind, next)
      PROVE  at' \in [Passes -> Places]
  BY <1>1, <1>2 DEF Emit, Send, Places
<1>3. CASE StreamTurn(c) \/ AskFails(c) \/ AskRefused(c) \/ Ask(c)
  BY <1>1, <1>3 DEF StreamTurn, AskFails, AskRefused, Ask, Answered, Places
<1>4. CASE DecodeFails(c) \/ Record(c) \/ Close(c)
  BY <1>1, <1>4 DEF DecodeFails, Record, Close, Places
<1>5. CASE Start(c) \/ Complete(c) \/ Fail(c)
  BY <1>2, <1>5 DEF Start, Complete, Fail, EventKinds, Terminal, Places
<1>6. CASE Report(c)
  <2>1. Block(c) \in EventKinds
    BY <1>6, BlockKind DEF Report, EventKinds
  <2>. QED
    BY <1>2, <1>6, <2>1 DEF Report, Places
<1>. QED
  BY <1>3, <1>4, <1>5, <1>6 DEF OfSession, SessionStep

LEMMA SessionMemory ==
  ASSUME Types, NEW c \in Passes, OfSession(c)
  PROVE  /\ known' \in Seq(MessageSet) /\ request' \in [Passes -> Seq(MessageSet)]
         /\ reply' \in [Passes -> Replies \cup {<<>>}]
<1>0. /\ known \in Seq(MessageSet) /\ request \in [Passes -> Seq(MessageSet)]
      /\ reply \in [Passes -> Replies \cup {<<>>}]
      /\ conv[c[1]] \in Seq(MessageSet) /\ <<>> \in Seq(MessageSet)
      /\ request[c] \in Seq(MessageSet)
  BY PassFacts DEF Types
<1>1. CASE StreamTurn(c)
  <2>1. known \o conv[c[1]] \in Seq(MessageSet)
    BY <1>0, ConcatProperties
  <2>. QED
    BY <1>0, <1>1, <2>1 DEF StreamTurn, Request, RememberRequest
<1>2. CASE AskFails(c) \/ AskRefused(c)
  BY <1>0, <1>2 DEF AskFails, AskRefused, Answered
<1>3. CASE Ask(c)
  <2>1. Message(c, "assistant") \in MessageSet
    BY MessageTypes DEF Roles
  <2>2. Answer(c)' \in Seq(MessageSet)
    BY <2>1 DEF Answer, Message
  <2>3. request[c] \o Answer(c)' \in Seq(MessageSet)
    BY <1>0, <2>2, ConcatProperties
  <2>. QED
    BY <1>0, <1>3, <2>3 DEF Ask, Answered
<1>4. CASE Record(c)
  <2>1. known \o conv[c[1]] \in Seq(MessageSet)
    BY <1>0, ConcatProperties
  <2>2. known \o conv[c[1]] \o Answer(c) \in Seq(MessageSet)
    BY <2>1, AnswerTypes, ConcatProperties
  <2>. QED
    BY <1>0, <1>4, <2>2 DEF Record
<1>5. CASE Start(c) \/ Report(c) \/ DecodeFails(c) \/ Complete(c) \/ Fail(c) \/ Close(c)
  BY <1>0, <1>5 DEF Start, Report, DecodeFails, Complete, Fail, Close
<1>. QED
  BY <1>1, <1>2, <1>3, <1>4, <1>5 DEF OfSession, SessionStep

LEMMA SessionTypes ==
  ASSUME Types, Shape, NEW c \in Passes, OfSession(c)
  PROVE  Types'
<1>1. UNCHANGED engineVars /\ provider' = provider
  BY SessionFrame
<1>2. /\ emitted' \in [Passes -> Seq(EventKinds)]
      /\ \A d \in Passes : taken[d] <= Len(emitted'[d]) /\ Len(emitted'[d]) - taken[d] <= EventCap
  <2>1. CASE emitted' = emitted
    BY <2>1 DEF Types
  <2>2. ASSUME NEW kind \in EventKinds, NEW next \in Places, Emit(c, kind, next),
               emitted' # emitted
        PROVE  /\ emitted' \in [Passes -> Seq(EventKinds)]
               /\ \A d \in Passes : taken[d] <= Len(emitted'[d])
                                     /\ Len(emitted'[d]) - taken[d] <= EventCap
    <3>1. /\ emitted' \in [Passes -> Seq(EventKinds)]
          /\ Len(emitted[c]) \in Nat /\ Len(emitted'[c]) = Len(emitted[c]) + 1
          /\ Len(emitted[c]) - taken[c] < EventCap
      BY <2>2, EmitFacts
    <3>2. taken[c] \in Nat /\ taken[c] <= Len(emitted[c])
      BY DEF Types
    <3>3. \A d \in Passes : d # c => emitted'[d] = emitted[d]
      BY SessionFrame
    <3>4. taken[c] <= Len(emitted'[c]) /\ Len(emitted'[c]) - taken[c] <= EventCap
      BY <3>1, <3>2, BoundsAssumption
    <3>. QED
      BY <3>1, <3>3, <3>4 DEF Types
  <2>. QED
    BY <2>1, <2>2, SessionEvents
<1>3. at' \in [Passes -> Places]
  BY SessionEvents
<1>. QED
  BY <1>1, <1>2, <1>3, SessionMemory DEF Types, engineVars

LEMMA EngineTypes ==
  ASSUME Types, NEW c \in Passes, OfEngine(c)
  PROVE  Types'
<1>0. c[1] \in Turns /\ c[2] \in 1..MaxPasses /\ MaxPasses \in Nat
  BY PassFacts, BoundsAssumption
<1>1. ASSUME TurnOver(c[1]) PROVE pass' \in [Turns -> 0..MaxPasses]
  BY <1>0, <1>1 DEF TurnOver, Types
<1>2. CASE Read(c)
  <2>1. pass' \in [Turns -> 0..MaxPasses]
    BY <1>1, <1>2 DEF Read, Types
  <2>2. /\ taken' = [taken EXCEPT ![c] = taken[c] + 1] /\ taken[c] \in Nat
        /\ taken[c] < Len(emitted[c]) /\ emitted[c] \in Seq(EventKinds)
    BY <1>2 DEF Read, Types
  <2>3. Len(emitted[c]) \in Nat
    BY <2>2
  <2>4. taken' \in [Passes -> Nat]
    BY <2>2 DEF Types
  <2>5. \A d \in Passes : taken'[d] <= Len(emitted[d]) /\ Len(emitted[d]) - taken'[d] <= EventCap
    BY <2>2, <2>3, BoundsAssumption DEF Types
  <2>. QED
    BY <1>2, <2>1, <2>4, <2>5 DEF Read, Types, sessionVars
<1>3. CASE LastPass(c) \/ Interrupted(c)
  BY <1>1, <1>3 DEF LastPass, Interrupted, Types, sessionVars
<1>4. CASE NextPass(c)
  <2>1. Message(c, "tool") \in MessageSet
    BY MessageTypes DEF Roles
  <2>2. /\ conv[c[1]] \in Seq(MessageSet) /\ <<Message(c, "tool")>> \in Seq(MessageSet)
    BY <1>0, <2>1 DEF Types
  <2>3. conv[c[1]] \o Answer(c) \in Seq(MessageSet)
    BY <2>2, AnswerTypes, ConcatProperties
  <2>4. conv[c[1]] \o Answer(c) \o <<Message(c, "tool")>> \in Seq(MessageSet)
    BY <2>2, <2>3, ConcatProperties
  <2>5. conv' \in [Turns -> Seq(MessageSet)]
    BY <1>0, <1>4, <2>4 DEF NextPass, Types
  <2>6. pass' \in [Turns -> 0..MaxPasses]
    BY <1>0, <1>4 DEF NextPass, Types
  <2>. QED
    BY <1>4, <2>5, <2>6 DEF NextPass, Types, sessionVars
<1>. QED
  BY <1>2, <1>3, <1>4 DEF OfEngine

LEMMA TypesNext == Types /\ Shape /\ [Next]_vars => Types'
<1>. SUFFICES ASSUME Types, Shape, [Next]_vars PROVE Types'
  OBVIOUS
<1>1. ASSUME NEW t \in Turns, CancelContext(t) PROVE Types'
  BY <1>1 DEF CancelContext, Types, sessionVars
<1>2. CASE UNCHANGED vars
  BY <1>2 DEF vars, sessionVars, engineVars, Types
<1>. QED
  BY <1>1, <1>2, SessionTypes, EngineTypes DEF Next, OfSession, OfEngine, Terminated

\* A step elsewhere keeps the shape of a pass: a context that is done stays done.
LEMMA ShapeFrame ==
  ASSUME NEW d \in Passes, ShapeAt(d), at'[d] = at[d], emitted'[d] = emitted[d],
         reply'[d] = reply[d], ctxDone \subseteq ctxDone'
  PROVE  ShapeAt(d)'
BY DEF ShapeAt, Has, EndedAt

LEMMA SessionShape ==
  ASSUME Types, Shape, NEW c \in Passes, OfSession(c)
  PROVE  ShapeAt(c)'
<1>0. /\ ShapeAt(c) /\ emitted[c] \in Seq(EventKinds) /\ Len(emitted[c]) \in Nat
      /\ Len(<<>>) = 0 /\ at \in [Passes -> Places] /\ ctxDone' = ctxDone
  BY SessionFrame DEF Shape, Types, engineVars
<1>1. CASE StreamTurn(c)
  <2>1. emitted'[c] = emitted[c] /\ at'[c] \in {"refused", "start"} /\ reply'[c] = reply[c]
    BY <1>0, <1>1 DEF StreamTurn, Goto
  <2>. QED
    BY <1>0, <1>1, <2>1 DEF StreamTurn, ShapeAt, Has, Live, EndedAt
<1>2. CASE AskFails(c) \/ AskRefused(c) \/ DecodeFails(c)
  <2>1. emitted'[c] = emitted[c] /\ at'[c] = "error" /\ at[c] \in Live /\ reply'[c] = reply[c]
    BY <1>0, <1>2 DEF AskFails, AskRefused, DecodeFails, Answered, Goto, Live
  <2>. QED
    BY <1>0, <2>1 DEF ShapeAt, Has, Live, EndedAt
<1>3. CASE Ask(c)
  <2>1. emitted'[c] = emitted[c] /\ at'[c] = "report" /\ at[c] = "ask"
    BY <1>0, <1>3 DEF Ask, Answered, Goto
  <2>2. ~Has(c, "tool_call")
    BY <1>0, <2>1 DEF ShapeAt, Has
  <2>. QED
    BY <1>0, <2>1, <2>2 DEF ShapeAt, Has, Live, EndedAt
<1>4. CASE Record(c)
  <2>1. /\ emitted'[c] = emitted[c] /\ at'[c] = "complete" /\ at[c] = "report"
        /\ reply'[c] = reply[c]
    BY <1>0, <1>4 DEF Record, Goto
  <2>. QED
    BY <1>0, <2>1 DEF ShapeAt, Has, Live, EndedAt
<1>5. CASE Close(c)
  <2>1. /\ emitted'[c] = emitted[c] /\ at'[c] = "closed" /\ at[c] = "return"
        /\ reply'[c] = reply[c]
    BY <1>0, <1>5 DEF Close, Goto
  <2>. QED
    BY <1>0, <2>1 DEF ShapeAt, Has, Live, EndedAt
<1>6. ASSUME NEW kind \in EventKinds, NEW next \in {"ask", "report", "return"},
             Emit(c, kind, next), reply'[c] = reply[c],
             \/ at[c] = "start" /\ kind = "started" /\ next = "ask"
             \/ at[c] = "report" /\ kind \in Spoken /\ next = "report" /\ reply[c] # <<>>
             \/ at[c] \in {"complete", "error"} /\ kind \in Terminal /\ next = "return"
      PROVE  ShapeAt(c)'
  <2>1. CASE at'[c] = "return" /\ c[1] \in ctxDone /\ emitted' = emitted
    BY <1>0, <1>6, <2>1 DEF ShapeAt, Has, Live, EndedAt
  <2>2. CASE /\ at'[c] = next /\ Len(emitted'[c]) = Len(emitted[c]) + 1
             /\ emitted'[c][Len(emitted[c]) + 1] = kind
             /\ \A i \in 1..Len(emitted[c]) : emitted'[c][i] = emitted[c][i]
             /\ emitted'[c] \in Seq(EventKinds)
    <3>1. emitted'[c] # <<>> /\ Len(emitted'[c]) >= 1
      BY <1>0, <2>2
    <3>2. emitted'[c][1] = "started"
      <4>1. CASE emitted[c] = <<>>
        BY <1>0, <1>6, <2>2, <4>1 DEF ShapeAt, Live
      <4>2. CASE emitted[c] # <<>>
        <5>1. Len(emitted[c]) >= 1 /\ emitted[c][1] = "started"
          BY <1>0, <4>2, EmptySeq DEF ShapeAt
        <5>. QED
          BY <1>0, <2>2, <5>1
      <4>. QED
        BY <4>1, <4>2
    <3>3. \A i \in 1..Len(emitted'[c]) :
             \/ i \in 1..Len(emitted[c]) /\ emitted'[c][i] = emitted[c][i]
             \/ i = Len(emitted'[c]) /\ emitted'[c][i] = kind
      BY <1>0, <2>2
    <3>4. Has(c, "tool_call")' => reply'[c] # <<>>
      BY <1>0, <1>6, <3>3 DEF ShapeAt, Has, Terminal
    <3>5. CASE at[c] = "start"
      <4>1. emitted[c] = <<>> /\ kind = "started" /\ at'[c] = "ask"
        BY <1>0, <1>6, <2>2, <3>5 DEF ShapeAt
      <4>2. Len(emitted'[c]) = 1
        BY <1>0, <2>2, <4>1
      <4>3. \A i \in 1..Len(emitted'[c]) : emitted'[c][i] \notin Terminal
        BY <1>0, <3>3, <4>1 DEF Terminal
      <4>. QED
        BY <3>1, <3>2, <3>4, <4>1, <4>2, <4>3 DEF ShapeAt
    <3>6. CASE at[c] = "report"
      <4>1. kind \in Spoken /\ at'[c] = "report"
        BY <1>0, <1>6, <2>2, <3>6
      <4>2. \A i \in 1..Len(emitted'[c]) : emitted'[c][i] \notin Terminal
        BY <1>0, <3>3, <3>6, <4>1 DEF Terminal, Spoken, ShapeAt, Live
      <4>. QED
        BY <3>1, <3>2, <3>4, <4>1, <4>2 DEF ShapeAt
    <3>7. CASE at[c] \in {"complete", "error"}
      <4>1. kind \in Terminal /\ at'[c] = "return"
        BY <1>0, <1>6, <2>2, <3>7
      <4>2. EndedAt(c)'
        BY <1>0, <2>2, <3>1, <4>1 DEF EndedAt
      <4>. QED
        BY <3>1, <3>2, <3>4, <4>1, <4>2 DEF ShapeAt, Live
    <3>. QED
      BY <1>6, <3>5, <3>6, <3>7
  <2>3. kind \in EventKinds
    BY <1>6
  <2>. QED
    BY <1>6, <2>1, <2>2, <2>3, EmitFacts
<1>7. CASE Start(c)
  BY <1>6, <1>7 DEF Start, EventKinds
<1>8. CASE Report(c)
  <2>1. Block(c) \in Spoken /\ reply[c] # <<>>
    BY <1>8, BlockKind DEF Report
  <2>. QED
    BY <1>6, <1>8, <2>1 DEF Report, EventKinds
<1>9. CASE Complete(c) \/ Fail(c)
  BY <1>6, <1>9 DEF Complete, Fail, EventKinds, Terminal
<1>. QED
  BY <1>1, <1>2, <1>3, <1>4, <1>5, <1>7, <1>8, <1>9 DEF OfSession, SessionStep

LEMMA ShapeNext == Types /\ Shape /\ [Next]_vars => Shape'
<1>. SUFFICES ASSUME Types, Shape, [Next]_vars PROVE Shape'
  OBVIOUS
<1>1. ASSUME NEW c \in Passes, OfSession(c) PROVE Shape'
  <2>1. \A d \in Passes : d # c => ShapeAt(d)'
    BY <1>1, SessionFrame, ShapeFrame DEF Shape, engineVars
  <2>. QED
    BY <1>1, <2>1, SessionShape DEF Shape
<1>2. ASSUME NEW c \in Passes, OfEngine(c) PROVE Shape'
  <2>1. UNCHANGED sessionVars /\ ctxDone' = ctxDone
    BY <1>2 DEF OfEngine, Read, LastPass, NextPass, Interrupted
  <2>. QED
    BY <2>1, ShapeFrame DEF Shape, sessionVars
<1>3. ASSUME NEW t \in Turns, CancelContext(t) PROVE Shape'
  BY <1>3, ShapeFrame DEF CancelContext, Shape, sessionVars
<1>4. CASE UNCHANGED vars
  BY <1>4, ShapeFrame DEF vars, sessionVars, engineVars, Shape
<1>. QED
  BY <1>1, <1>2, <1>3, <1>4 DEF Next, OfSession, OfEngine, Terminated

LEMMA StreamsInvariant == Spec => [](Types /\ Shape)
<1>1. (Types /\ Shape) /\ [Next]_vars => (Types /\ Shape)'
  BY TypesNext, ShapeNext
<1>. QED
  BY <1>1, InitShape, PTL DEF Spec

(***************************************************************************)
(* Every variable has its type, and the events of a stream that are not    *)
(* read never outgrow its channel (anthropic/session.go:105).              *)
(***************************************************************************)
THEOREM TypeCorrect == Spec => []TypeOK
<1>1. Types => TypeOK
  <2>. SUFFICES ASSUME Types PROVE TypeOK
    OBVIOUS
  <2>1. \A c \in Passes : Len(emitted[c]) \in Nat
    BY DEF Types
  <2>2. \A c \in Passes : taken[c] \in 0..Len(emitted[c])
    BY <2>1 DEF Types
  <2>. QED
    BY <2>2 DEF Types, TypeOK, Places
<1>. QED
  BY <1>1, StreamsInvariant, PTL

-----------------------------------------------------------------------------
(* Each pass implements the stream that its reader is promised.            *)

\* A step that changes neither the events, the channel nor the context is none to the reader.
LEMMA StreamStutters ==
  ASSUME NEW d \in Passes, emitted'[d] = emitted[d], at'[d] = "closed" <=> at[d] = "closed",
         d[1] \in ctxDone' <=> d[1] \in ctxDone
  PROVE  [Stream(d)!Next]_(Stream(d)!vars)
BY DEF Stream!vars

\* To its reader a stream is the events of the pass, all of them its own.
LEMMA OwnAppend ==
  ASSUME NEW S, NEW s \in Seq(S), NEW kind \in S
  PROVE  /\ Own(Append(s, kind)) = Append(Own(s), [kind |-> kind, own |-> TRUE])
         /\ Own(s) = <<>> <=> s = <<>>
         /\ s # <<>> => Own(s)[Len(Own(s))] = [kind |-> s[Len(s)], own |-> TRUE]
<1> DEFINE T == [kind : S, own : BOOLEAN]
           e == [kind |-> kind, own |-> TRUE]
<1>1. /\ Len(s) \in Nat /\ DOMAIN s = 1..Len(s) /\ Own(s) \in Seq(T) /\ Len(Own(s)) = Len(s)
      /\ \A i \in 1..Len(s) : Own(s)[i] = [kind |-> s[i], own |-> TRUE]
  <2>1. DOMAIN s = 1..Len(s) /\ Len(s) \in Nat /\ \A i \in 1..Len(s) : s[i] \in S
    BY LenProperties, ElementOfSeq
  <2>2. Own(s) = [i \in 1..Len(s) |-> [kind |-> s[i], own |-> TRUE]]
    BY <2>1 DEF Own
  <2>3. \A i \in 1..Len(s) : [kind |-> s[i], own |-> TRUE] \in T
    BY <2>1
  <2>4. Own(s) \in [1..Len(s) -> T]
    BY <2>2, <2>3
  <2>. QED
    BY <2>1, <2>2, <2>4, SeqDef, LenProperties
<1>2. /\ Append(s, kind) \in Seq(S) /\ Len(Append(s, kind)) = Len(s) + 1
      /\ DOMAIN Append(s, kind) = 1..(Len(s) + 1)
      /\ \A i \in 1..Len(s) : Append(s, kind)[i] = s[i]
      /\ Append(s, kind)[Len(s) + 1] = kind
  BY <1>1
<1>3. /\ e \in T /\ Append(Own(s), e) \in Seq(T) /\ Len(Append(Own(s), e)) = Len(s) + 1
      /\ \A i \in 1..Len(s) : Append(Own(s), e)[i] = Own(s)[i]
      /\ Append(Own(s), e)[Len(s) + 1] = e
      /\ Append(Own(s), e) = [i \in 1..(Len(s) + 1) |-> Append(Own(s), e)[i]]
  BY <1>1
<1>4. Own(Append(s, kind)) = Append(Own(s), e)
  <2>1. Own(Append(s, kind)) = [i \in 1..(Len(s) + 1) |-> [kind |-> Append(s, kind)[i], own |-> TRUE]]
    BY <1>2 DEF Own
  <2>2. \A i \in 1..(Len(s) + 1) :
           [kind |-> Append(s, kind)[i], own |-> TRUE] = Append(Own(s), e)[i]
    <3>. TAKE i \in 1..(Len(s) + 1)
    <3>1. i \in 1..Len(s) \/ i = Len(s) + 1
      BY <1>1
    <3>2. CASE i \in 1..Len(s)
      BY <1>1, <1>2, <1>3, <3>2
    <3>3. CASE i = Len(s) + 1
      BY <1>2, <1>3, <3>3
    <3>. QED
      BY <3>1, <3>2, <3>3
  <2>. QED
    BY <1>3, <2>1, <2>2
<1>5. Own(s) = <<>> <=> s = <<>>
  BY <1>1
<1>6. s # <<>> => Own(s)[Len(Own(s))] = [kind |-> s[Len(s)], own |-> TRUE]
  BY <1>1
<1>. QED
  BY <1>4, <1>5, <1>6

\* An event that is sent is published, and one that is given up is none to the reader.
LEMMA EmitPublishes ==
  ASSUME Types, Shape, NEW c \in Passes, NEW kind \in EventKinds, NEW next \in Places \ {"closed"},
         Emit(c, kind, next), ctxDone' = ctxDone,
         \/ at[c] = "start" /\ kind = "started"
         \/ at[c] \in Live /\ kind # "started"
  PROVE  [Stream(c)!Next]_(Stream(c)!vars)
<1>1. CASE at'[c] = "return" /\ c[1] \in ctxDone /\ emitted' = emitted
  <2>1. at[c] # "closed"
    BY DEF Live
  <2>. QED
    BY <1>1, <2>1, StreamStutters
<1>2. CASE at'[c] = next /\ emitted'[c] = Append(emitted[c], kind)
  <2>1. at[c] # "closed" /\ at'[c] # "closed"
    BY <1>2 DEF Live
  <2>2. /\ emitted[c] = <<>> <=> kind = "started"
        /\ ~(emitted[c] # <<>> /\ emitted[c][Len(emitted[c])] \in Terminal)
    <3>1. CASE at[c] = "start"
      BY <3>1 DEF Shape, ShapeAt, Live
    <3>2. CASE at[c] \in Live
      <4>1. /\ emitted[c] # <<>> /\ emitted[c] \in Seq(EventKinds)
            /\ \A i \in 1..Len(emitted[c]) : emitted[c][i] \notin Terminal
        BY <3>2 DEF Shape, ShapeAt, Types
      <4>2. Len(emitted[c]) \in 1..Len(emitted[c])
        BY <4>1, EmptySeq
      <4>. QED
        BY <3>2, <4>1, <4>2 DEF Live
    <3>. QED
      BY <3>1, <3>2
  <2>3. kind \in Stream(c)!Kinds
    BY DEF EventKinds, Spoken, Terminal, Stream!Kinds, Stream!Terminal
  <2>4. Stream(c)!Publish(kind)
    <3>1. emitted[c] \in Seq(EventKinds)
      BY DEF Types
    <3>2. /\ Own(emitted'[c]) = Append(Own(emitted[c]), [kind |-> kind, own |-> TRUE])
          /\ Own(emitted[c]) = <<>> <=> emitted[c] = <<>>
          /\ emitted[c] # <<>> =>
               Own(emitted[c])[Len(Own(emitted[c]))] =
                 [kind |-> emitted[c][Len(emitted[c])], own |-> TRUE]
      BY <1>2, <3>1, OwnAppend
    <3>. QED
      BY <1>2, <2>1, <2>2, <3>2 DEF Stream!Publish, Stream!Ended, Stream!Terminal, Terminal
  <2>. QED
    BY <2>3, <2>4 DEF Stream!Next
<1>. QED
  BY <1>1, <1>2, EmitFacts

LEMMA SessionStream ==
  ASSUME Types, Shape, NEW c \in Passes, OfSession(c)
  PROVE  [Stream(c)!Next]_(Stream(c)!vars)
<1>0. ctxDone' = ctxDone /\ at \in [Passes -> Places] /\ ShapeAt(c)
  BY SessionFrame DEF engineVars, Types, Shape
<1>1. CASE StreamTurn(c) \/ AskFails(c) \/ AskRefused(c) \/ Ask(c) \/ DecodeFails(c) \/ Record(c)
  <2>1. emitted' = emitted /\ at[c] # "closed" /\ at'[c] # "closed"
    BY <1>0, <1>1 DEF StreamTurn, AskFails, AskRefused, Ask, DecodeFails, Record, Answered, Goto
  <2>. QED
    BY <1>0, <2>1, StreamStutters
<1>2. CASE Start(c)
  BY <1>0, <1>2, EmitPublishes DEF Start, EventKinds, Places
<1>3. CASE Report(c)
  <2>1. Block(c) \in EventKinds /\ Block(c) # "started"
    BY <1>3, BlockKind DEF Report, EventKinds, Spoken
  <2>. QED
    BY <1>0, <1>3, <2>1, EmitPublishes DEF Report, Places, Live
<1>4. CASE Complete(c) \/ Fail(c)
  BY <1>0, <1>4, EmitPublishes DEF Complete, Fail, EventKinds, Terminal, Places, Live
<1>5. CASE Close(c)
  <2>1. /\ emitted' = emitted /\ at[c] = "return" /\ at'[c] = "closed"
    BY <1>0, <1>5 DEF Close, Goto
  <2>2. EndedAt(c) \/ c[1] \in ctxDone
    BY <1>0, <2>1 DEF ShapeAt
  <2>3. Stream(c)!Close
    <3>1. emitted[c] \in Seq(EventKinds) /\ "started" \in EventKinds
      BY DEF Types, EventKinds
    <3>2. /\ Own(emitted[c]) = <<>> <=> emitted[c] = <<>>
          /\ emitted[c] # <<>> =>
               Own(emitted[c])[Len(Own(emitted[c]))] =
                 [kind |-> emitted[c][Len(emitted[c])], own |-> TRUE]
      BY <3>1, OwnAppend
    <3>. QED
      BY <1>0, <2>1, <2>2, <3>2 DEF Stream!Close, Stream!Ended, Stream!Terminal, EndedAt, Terminal
  <2>. QED
    BY <2>3 DEF Stream!Next
<1>. QED
  BY <1>1, <1>2, <1>3, <1>4, <1>5 DEF OfSession, SessionStep

LEMMA StreamNext ==
  Types /\ Shape /\ [Next]_vars => \A d \in Passes : [Stream(d)!Next]_(Stream(d)!vars)
<1>. SUFFICES ASSUME Types, Shape, [Next]_vars, NEW d \in Passes
              PROVE  [Stream(d)!Next]_(Stream(d)!vars)
  OBVIOUS
<1>1. ASSUME NEW c \in Passes, OfSession(c) PROVE [Stream(d)!Next]_(Stream(d)!vars)
  <2>1. CASE d = c
    BY <1>1, <2>1, SessionStream
  <2>2. CASE d # c
    BY <1>1, <2>2, SessionFrame, StreamStutters DEF engineVars
  <2>. QED
    BY <2>1, <2>2
<1>2. ASSUME NEW c \in Passes, OfEngine(c) PROVE [Stream(d)!Next]_(Stream(d)!vars)
  <2>1. UNCHANGED sessionVars /\ ctxDone' = ctxDone
    BY <1>2 DEF OfEngine, Read, LastPass, NextPass, Interrupted
  <2>. QED
    BY <2>1, StreamStutters DEF sessionVars
<1>3. ASSUME NEW t \in Turns, CancelContext(t) PROVE [Stream(d)!Next]_(Stream(d)!vars)
  <2>1. emitted' = emitted /\ at' = at /\ ctxDone' = ctxDone \cup {t}
    BY <1>3 DEF CancelContext, sessionVars
  <2>2. CASE d[1] = t
    <3>1. Stream(d)!Cancel
      BY <2>1, <2>2 DEF Stream!Cancel
    <3>. QED
      BY <3>1 DEF Stream!Next
  <2>3. CASE d[1] # t
    BY <2>1, <2>3, StreamStutters
  <2>. QED
    BY <2>2, <2>3
<1>4. CASE UNCHANGED vars
  BY <1>4, StreamStutters DEF vars, sessionVars, engineVars
<1>. QED
  BY <1>1, <1>2, <1>3, <1>4 DEF Next, OfSession, OfEngine, Terminated

(***************************************************************************)
(* Every pass keeps the promise of TurnStream to the engine that reads it: *)
(* "started" first, nothing after the terminal event, and closed only      *)
(* after that or because of the context, whatever the other turns on the   *)
(* session do (session.go:105-262 of the anthropic session).               *)
(***************************************************************************)
THEOREM StreamImplemented == Spec => ImplementsTurnStream
<1>1. Init => \A c \in Passes : Stream(c)!Init
  BY DEF Init, Stream!Init, Own
<1>2. Types /\ Shape /\ [Next]_vars => [\A c \in Passes : [Stream(c)!Next]_(Stream(c)!vars)]_vars
  BY StreamNext
<1>. QED
  BY <1>1, <1>2, StreamsInvariant, PTL DEF Spec, ImplementsTurnStream

-----------------------------------------------------------------------------
(* The passes of a turn, one after the other, and what the turn has said.  *)

Busy == {"start", "ask", "report", "complete", "error", "return"}

\* A conversation is the prompt and then two messages for every pass before this one.
TalkAt(t) ==
  /\ pass[t] # 0 => Len(conv[t]) = 2 * pass[t] - 1
  /\ Len(conv[t]) >= 1 /\ conv[t][1] = User(t)
  /\ \A i \in 2..Len(conv[t]) : conv[t][i].role # "user"

\* A pass that was begun follows passes that ended well, and is the last one of its
\* turn as long as its goroutine runs.
PassAt(c) ==
  /\ at[c] # "idle" => Len(conv[c[1]]) >= 2 * c[2] - 1
  /\ at[c] \in Busy => pass[c[1]] \in {0, c[2]} /\ Len(conv[c[1]]) = 2 * c[2] - 1
  /\ Running(c) => \A i \in 1..taken[c] : emitted[c][i] # "error"
  /\ pass[c[1]] # 0 /\ at[c] # "idle" => c[2] <= pass[c[1]]
  /\ at[c] # "idle" \/ Running(c) =>
       \A q \in 1..(c[2] - 1) :
         /\ at[<<c[1], q>>] = "closed" /\ ~Has(<<c[1], q>>, "error")
         /\ Has(<<c[1], q>>, "completed")

TurnInv == (\A t \in Turns : TalkAt(t)) /\ (\A c \in Passes : PassAt(c))

LEMMA InitTurns == Init => TurnInv
<1>. SUFFICES ASSUME Init PROVE TurnInv
  OBVIOUS
<1>1. ASSUME NEW t \in Turns PROVE TalkAt(t)
  <2>1. conv[t] = <<User(t)>> /\ pass[t] = 1
    BY DEF Init
  <2>2. Len(conv[t]) = 1 /\ conv[t][1] = User(t)
    BY <2>1
  <2>. QED
    BY <2>1, <2>2 DEF TalkAt
<1>2. ASSUME NEW c \in Passes PROVE PassAt(c)
  <2>1. at[c] = "idle" /\ taken[c] = 0 /\ pass[c[1]] = 1 /\ c[2] \in 1..MaxPasses
    BY PassFacts DEF Init
  <2>. QED
    BY <2>1 DEF PassAt, Running, Busy
<1>. QED
  BY <1>1, <1>2 DEF TurnInv

\* Where a goroutine stands before and after a step of its own.
LEMMA SessionMoves ==
  ASSUME Types, NEW c \in Passes, OfSession(c)
  PROVE  /\ at[c] \in Busy \/ (at[c] = "idle" /\ Running(c))
         /\ at'[c] \in Busy \cup {"refused", "closed"}
<1>1. at \in [Passes -> Places]
  BY DEF Types
<1>2. CASE StreamTurn(c)
  BY <1>1, <1>2 DEF StreamTurn, Goto, Busy, Running
<1>3. CASE AskFails(c) \/ AskRefused(c) \/ Ask(c)
  BY <1>1, <1>3 DEF AskFails, AskRefused, Ask, Answered, Goto, Busy
<1>4. CASE DecodeFails(c) \/ Record(c) \/ Close(c)
  BY <1>1, <1>4 DEF DecodeFails, Record, Close, Goto, Busy
<1>5. CASE Start(c) \/ Report(c) \/ Complete(c) \/ Fail(c)
  BY <1>1, <1>5 DEF Start, Report, Complete, Fail, Emit, Send, Goto, Busy
<1>. QED
  BY <1>2, <1>3, <1>4, <1>5 DEF OfSession, SessionStep

\* What a pass has sent stays sent.
LEMMA SessionSends ==
  ASSUME Types, Shape, NEW c \in Passes, OfSession(c)
  PROVE  \A d \in Passes :
           /\ Len(emitted[d]) \in Nat /\ Len(emitted'[d]) \in Nat
           /\ Len(emitted'[d]) >= Len(emitted[d])
           /\ \A i \in 1..Len(emitted[d]) : emitted'[d][i] = emitted[d][i]
<1>1. \A d \in Passes : Len(emitted[d]) \in Nat
  BY DEF Types
<1>2. CASE emitted' = emitted
  BY <1>1, <1>2
<1>3. ASSUME NEW kind \in EventKinds, NEW next \in Places, Emit(c, kind, next), emitted' # emitted
      PROVE  /\ Len(emitted'[c]) = Len(emitted[c]) + 1
             /\ \A i \in 1..Len(emitted[c]) : emitted'[c][i] = emitted[c][i]
  BY <1>3, EmitFacts
<1>4. CASE emitted' # emitted
  <2>1. /\ Len(emitted'[c]) = Len(emitted[c]) + 1
        /\ \A i \in 1..Len(emitted[c]) : emitted'[c][i] = emitted[c][i]
    BY <1>3, <1>4, SessionEvents
  <2>2. \A d \in Passes : d # c => emitted'[d] = emitted[d]
    BY SessionFrame
  <2>. QED
    BY <1>1, <2>1, <2>2
<1>. QED
  BY <1>2, <1>4

LEMMA SessionTurns ==
  ASSUME Types, Shape, TurnInv, NEW c \in Passes, OfSession(c)
  PROVE  TurnInv'
<1>0. UNCHANGED <<conv, pass, taken, ctxDone>>
  BY SessionFrame DEF engineVars
<1>1. \A t \in Turns : TalkAt(t)'
  BY <1>0 DEF TurnInv, TalkAt
<1>2. \A d \in Passes : d # c => at'[d] = at[d] /\ emitted'[d] = emitted[d]
  BY SessionFrame
<1>3. /\ at[c] \in Busy \/ (at[c] = "idle" /\ Running(c))
      /\ at'[c] \in Busy \cup {"refused", "closed"}
  BY SessionMoves
<1>4. ASSUME NEW d \in Passes PROVE PassAt(d)'
  <2>0. /\ d[1] \in Turns /\ d[2] \in 1..MaxPasses /\ TalkAt(d[1]) /\ PassAt(d)
        /\ MaxPasses \in Nat /\ pass[d[1]] \in 0..MaxPasses
    BY PassFacts, BoundsAssumption DEF TurnInv, Types
  <2>1. at'[d] # "idle" => at[d] # "idle" \/ Running(d)
    BY <1>2, <1>3 DEF Busy
  <2>2. at'[d] # "idle" => Len(conv[d[1]]) >= 2 * d[2] - 1
    <3>1. Running(d) => Len(conv[d[1]]) = 2 * d[2] - 1
      BY <2>0 DEF Running, TalkAt
    <3>. QED
      BY <2>0, <2>1, <3>1 DEF PassAt
  <2>3. at'[d] \in Busy => pass[d[1]] \in {0, d[2]} /\ Len(conv[d[1]]) = 2 * d[2] - 1
    <3>1. at'[d] \in Busy => at[d] \in Busy \/ Running(d)
      BY <1>2, <1>3
    <3>. QED
      BY <2>0, <3>1 DEF PassAt, TalkAt, Running
  <2>4. Running(d) => \A i \in 1..taken[d] : emitted'[d][i] # "error"
    <3>1. taken[d] \in Nat /\ taken[d] <= Len(emitted[d]) /\ Len(emitted[d]) \in Nat
          /\ \A i \in 1..Len(emitted[d]) : emitted'[d][i] = emitted[d][i]
      BY SessionSends DEF Types
    <3>. QED
      BY <2>0, <3>1 DEF PassAt
  <2>5. pass[d[1]] # 0 /\ at'[d] # "idle" => d[2] <= pass[d[1]]
    BY <2>0, <2>1 DEF PassAt, Running
  <2>6. ASSUME at'[d] # "idle" \/ Running(d), NEW q \in 1..(d[2] - 1)
        PROVE  /\ at'[<<d[1], q>>] = "closed" /\ ~Has(<<d[1], q>>, "error")'
               /\ Has(<<d[1], q>>, "completed")'
    <3>1. /\ at[<<d[1], q>>] = "closed" /\ ~Has(<<d[1], q>>, "error")
          /\ Has(<<d[1], q>>, "completed")
      BY <2>0, <2>1, <2>6 DEF PassAt
    <3>2. <<d[1], q>> \in Passes
      BY <2>0, PassFacts
    <3>3. <<d[1], q>> # c
      BY <1>3, <3>1 DEF Busy
    <3>. QED
      BY <1>2, <3>1, <3>2, <3>3 DEF Has
  <2>. QED
    BY <1>0, <2>2, <2>3, <2>4, <2>5, <2>6 DEF PassAt, Running
<1>. QED
  BY <1>1, <1>4 DEF TurnInv

\* A pass that called tools adds what it said and what it was told, and no prompt.
LEMMA NextPassTalk ==
  ASSUME Types, Shape, NEW c \in Passes, NextPass(c)
  PROVE  /\ conv[c[1]] \in Seq(MessageSet) /\ Len(conv[c[1]]) \in Nat
         /\ Len(conv'[c[1]]) = Len(conv[c[1]]) + 2
         /\ \A i \in 1..Len(conv[c[1]]) : conv'[c[1]][i] = conv[c[1]][i]
         /\ \A i \in 1..Len(conv'[c[1]]) : i > Len(conv[c[1]]) => conv'[c[1]][i].role # "user"
         /\ \A t \in Turns : t # c[1] => conv'[t] = conv[t]
         /\ conv' \in [Turns -> Seq(MessageSet)]
<1> DEFINE said == conv[c[1]]
           both == said \o Answer(c)
           tool == <<Message(c, "tool")>>
<1>1. c[1] \in Turns /\ said \in Seq(MessageSet) /\ Len(said) \in Nat
      /\ conv \in [Turns -> Seq(MessageSet)]
  BY PassFacts DEF Types
<1>2. reply[c] # <<>>
  <2>1. taken[c] \in Nat /\ taken[c] <= Len(emitted[c]) /\ Len(emitted[c]) \in Nat
    BY DEF Types
  <2>2. Has(c, "tool_call")
    BY <2>1 DEF NextPass, Called, Has
  <2>. QED
    BY <2>2 DEF Shape, ShapeAt
<1>3. Answer(c) \in Seq(MessageSet) /\ Len(Answer(c)) = 1
      /\ Answer(c)[1] = Message(c, "assistant")
  BY <1>2, AnswerTypes
<1>4. tool \in Seq(MessageSet) /\ Len(tool) = 1 /\ tool[1] = Message(c, "tool")
  BY MessageTypes DEF Roles
<1>5. /\ both \in Seq(MessageSet) /\ Len(both) = Len(said) + Len(Answer(c))
      /\ \A i \in 1..Len(said) + Len(Answer(c)) :
           both[i] = IF i <= Len(said) THEN said[i] ELSE Answer(c)[i - Len(said)]
  BY <1>1, <1>3, ConcatProperties
<1>6. /\ both \o tool \in Seq(MessageSet) /\ Len(both \o tool) = Len(both) + Len(tool)
      /\ \A i \in 1..Len(both) + Len(tool) :
           (both \o tool)[i] = IF i <= Len(both) THEN both[i] ELSE tool[i - Len(both)]
  BY <1>4, <1>5, ConcatProperties
<1>7. conv'[c[1]] = both \o tool /\ conv' \in [Turns -> Seq(MessageSet)]
      /\ \A t \in Turns : t # c[1] => conv'[t] = conv[t]
  BY <1>1, <1>6 DEF NextPass
<1> HIDE DEF said, both, tool
<1>8. Len(both) = Len(said) + 1 /\ Len(both \o tool) = Len(said) + 2
  BY <1>1, <1>3, <1>4, <1>5, <1>6
<1>9. \A i \in 1..Len(said) : (both \o tool)[i] = said[i]
  <2>. SUFFICES ASSUME NEW i \in 1..Len(said) PROVE (both \o tool)[i] = said[i]
    OBVIOUS
  <2>1. i \in 1..Len(both) + Len(tool) /\ i <= Len(both) /\ i \in 1..Len(said) + Len(Answer(c))
        /\ i <= Len(said)
    BY <1>1, <1>3, <1>4, <1>8
  <2>. QED
    BY <1>5, <1>6, <2>1
<1>10. (both \o tool)[Len(said) + 1] = Message(c, "assistant")
  <2>1. /\ Len(said) + 1 \in 1..Len(both) + Len(tool) /\ Len(said) + 1 <= Len(both)
        /\ Len(said) + 1 \in 1..Len(said) + Len(Answer(c)) /\ ~(Len(said) + 1 <= Len(said))
        /\ (Len(said) + 1) - Len(said) = 1
    BY <1>1, <1>3, <1>4, <1>8
  <2>2. (both \o tool)[Len(said) + 1] = both[Len(said) + 1]
    BY <1>6, <2>1
  <2>3. both[Len(said) + 1] = Answer(c)[1]
    BY <1>5, <2>1
  <2>. QED
    BY <1>3, <2>2, <2>3
<1>11. (both \o tool)[Len(said) + 2] = Message(c, "tool")
  <2>1. /\ Len(said) + 2 \in 1..Len(both) + Len(tool) /\ ~(Len(said) + 2 <= Len(both))
        /\ (Len(said) + 2) - Len(both) = 1
    BY <1>1, <1>3, <1>4, <1>8
  <2>. QED
    BY <1>4, <1>6, <2>1
<1>12. \A i \in 1..Len(both \o tool) : i > Len(said) => i = Len(said) + 1 \/ i = Len(said) + 2
  BY <1>1, <1>8
<1>13. Message(c, "assistant").role = "assistant" /\ Message(c, "tool").role = "tool"
  BY DEF Message
<1>. QED
  BY <1>1, <1>7, <1>8, <1>9, <1>10, <1>11, <1>12, <1>13 DEF said

LEMMA NextPassTurns ==
  ASSUME Types, Shape, TurnInv, NEW c \in Passes, NextPass(c)
  PROVE  TurnInv'
<1>0. /\ UNCHANGED <<sessionVars, taken>> /\ Running(c) /\ at[c] = "closed"
      /\ taken[c] = Len(emitted[c]) /\ pass' = [pass EXCEPT ![c[1]] = c[2] + 1]
  BY DEF NextPass, StreamClosed
<1>1. c[1] \in Turns /\ c[2] \in 1..MaxPasses /\ c = <<c[1], c[2]>> /\ MaxPasses \in Nat
      /\ pass \in [Turns -> 0..MaxPasses] /\ TalkAt(c[1]) /\ PassAt(c)
  BY PassFacts, BoundsAssumption DEF Types, TurnInv
<1>2. /\ Len(conv[c[1]]) \in Nat
      /\ Len(conv'[c[1]]) = Len(conv[c[1]]) + 2
      /\ \A i \in 1..Len(conv[c[1]]) : conv'[c[1]][i] = conv[c[1]][i]
      /\ \A i \in 1..Len(conv'[c[1]]) : i > Len(conv[c[1]]) => conv'[c[1]][i].role # "user"
      /\ \A t \in Turns : t # c[1] => conv'[t] = conv[t]
  BY NextPassTalk
<1>3. /\ pass'[c[1]] = c[2] + 1 /\ pass[c[1]] = c[2]
      /\ \A t \in Turns : t # c[1] => pass'[t] = pass[t]
  BY <1>0, <1>1 DEF Running
<1>4. ASSUME NEW t \in Turns PROVE TalkAt(t)'
  <2>1. CASE t # c[1]
    <3>1. conv'[t] = conv[t] /\ pass'[t] = pass[t] /\ TalkAt(t)
      BY <1>2, <1>3, <2>1 DEF TurnInv
    <3>. QED
      BY <3>1 DEF TalkAt
  <2>2. CASE t = c[1]
    <3>1. Len(conv[t]) = 2 * c[2] - 1 /\ conv[t][1] = User(t) /\ Len(conv[t]) >= 1
          /\ \A i \in 2..Len(conv[t]) : conv[t][i].role # "user"
      BY <1>1, <1>3, <2>2 DEF TalkAt
    <3>2. Len(conv'[t]) = 2 * pass'[t] - 1 /\ Len(conv'[t]) >= 1
      <4>1. /\ Len(conv'[t]) = Len(conv[t]) + 2 /\ pass'[t] = c[2] + 1
            /\ Len(conv[t]) \in Nat /\ c[2] \in Nat
        BY <1>1, <1>2, <1>3, <2>2
      <4>2. Len(conv[t]) = 2 * c[2] - 1
        BY <3>1
      <4>3. ASSUME NEW l \in Nat, NEW p \in Nat, l = 2 * p - 1
            PROVE  l + 2 = 2 * (p + 1) - 1 /\ l + 2 >= 1
        BY <4>3
      <4>4. Len(conv[t]) + 2 = 2 * (c[2] + 1) - 1 /\ Len(conv[t]) + 2 >= 1
        BY <4>1, <4>2, <4>3
      <4>. QED
        BY <4>1, <4>4
    <3>3. conv'[t][1] = User(t)
      BY <1>2, <2>2, <3>1
    <3>4. \A i \in 2..Len(conv'[t]) : conv'[t][i].role # "user"
      <4>1. \A i \in 2..Len(conv'[t]) :
               i \in 1..Len(conv'[t]) /\ (i > Len(conv[t]) \/ i \in 2..Len(conv[t]))
               /\ (i \in 2..Len(conv[t]) => i \in 1..Len(conv[t]))
        BY <1>2, <2>2
      <4>. QED
        BY <1>2, <2>2, <3>1, <4>1
    <3>5. User(t)' = User(t)
      BY DEF User, Message
    <3>. QED
      BY <3>2, <3>3, <3>4, <3>5 DEF TalkAt
  <2>. QED
    BY <2>1, <2>2
<1>5. ASSUME NEW d \in Passes, d[1] # c[1] PROVE PassAt(d)'
  <2>1. /\ conv'[d[1]] = conv[d[1]] /\ pass'[d[1]] = pass[d[1]] /\ PassAt(d)
    BY <1>2, <1>3, <1>5, PassFacts DEF TurnInv
  <2>. QED
    BY <1>0, <2>1 DEF PassAt, sessionVars, Running, Has
<1>6. ASSUME NEW d \in Passes, d[1] = c[1] PROVE PassAt(d)'
  <2>1. /\ PassAt(d) /\ d[2] \in 1..MaxPasses /\ pass[d[1]] = c[2] /\ pass'[d[1]] = c[2] + 1
        /\ d = <<d[1], d[2]>> /\ d[1] \in Turns
    BY <1>3, <1>6, PassFacts DEF TurnInv
  <2>2. at[d] # "idle" => d[2] <= c[2]
    BY <1>1, <2>1 DEF PassAt
  <2>3. at[d] \notin Busy
    <3>1. at[d] \in Busy => d[2] = c[2]
      BY <1>1, <2>1 DEF PassAt
    <3>2. d[2] = c[2] => d = c
      BY <1>1, <1>6, <2>1
    <3>. QED
      BY <1>0, <3>1, <3>2 DEF Busy
  <2>4. at[d] # "idle" => Len(conv'[d[1]]) >= 2 * d[2] - 1
    BY <1>1, <1>2, <1>6, <2>1 DEF PassAt
  <2>5. d[2] = c[2] + 1 => \A i \in 1..taken[d] : emitted[d][i] # "error"
    <3>1. d[2] = c[2] + 1 => at[d] = "idle"
      BY <1>1, <2>1, <2>2
    <3>2. at[d] = "idle" => taken[d] = 0
      <4>1. at[d] = "idle" => emitted[d] = <<>> /\ Len(emitted[d]) = 0
        BY DEF Shape, ShapeAt
      <4>. QED
        BY <4>1 DEF Types
    <3>. QED
      BY <3>1, <3>2
  <2>6. ASSUME at[d] # "idle" \/ d[2] = c[2] + 1, NEW q \in 1..(d[2] - 1)
        PROVE  /\ at[<<d[1], q>>] = "closed" /\ ~Has(<<d[1], q>>, "error")
               /\ Has(<<d[1], q>>, "completed")
    <3>1. CASE at[d] # "idle"
      BY <2>1, <3>1 DEF PassAt
    <3>2. CASE d[2] = c[2] + 1 /\ q = c[2]
      <4>1. <<d[1], q>> = c
        BY <1>1, <1>6, <3>2
      <4>2. ~Has(c, "error")
        BY <1>0, <1>1 DEF PassAt, Has
      <4>3. Has(c, "completed")
        <5>1. EndedAt(c) /\ emitted[c] \in Seq(EventKinds)
          BY <1>0 DEF NextPass, Shape, ShapeAt, Types
        <5>2. Len(emitted[c]) \in 1..Len(emitted[c])
          BY <5>1, EmptySeq DEF EndedAt
        <5>. QED
          BY <4>2, <5>1, <5>2 DEF EndedAt, Has, Terminal
      <4>. QED
        BY <1>0, <4>1, <4>2, <4>3
    <3>3. CASE d[2] = c[2] + 1 /\ q # c[2]
      <4>1. q \in 1..(c[2] - 1)
        BY <1>1, <2>1, <3>3
      <4>. QED
        BY <1>0, <1>1, <1>6, <4>1 DEF PassAt
    <3>. QED
      BY <2>6, <3>1, <3>2, <3>3
  <2>7. pass'[d[1]] # 0 /\ at[d] # "idle" => d[2] <= pass'[d[1]]
    BY <1>1, <2>1, <2>2
  <2>. QED
    BY <1>0, <2>1, <2>3, <2>4, <2>5, <2>6, <2>7 DEF PassAt, sessionVars, Running, Has
<1>. QED
  BY <1>4, <1>5, <1>6 DEF TurnInv

\* A turn that is over leaves nothing to say of its passes to come.
LEMMA OverTurns ==
  ASSUME Types, TurnInv, NEW c \in Passes, UNCHANGED <<sessionVars, conv>>,
         pass' = pass \/ TurnOver(c[1]),
         \A d \in Passes : Running(d)' => \A i \in 1..taken'[d] : emitted[d][i] # "error"
  PROVE  TurnInv'
<1>1. \A t \in Turns : pass'[t] = pass[t] \/ pass'[t] = 0
  BY PassFacts DEF Types, TurnOver
<1>2. \A t \in Turns : TalkAt(t)'
  BY <1>1 DEF TurnInv, TalkAt, User, Message
<1>3. ASSUME NEW d \in Passes PROVE PassAt(d)'
  <2>1. PassAt(d) /\ d[1] \in Turns /\ d[2] \in 1..MaxPasses
    BY PassFacts DEF TurnInv
  <2>2. Running(d)' => Running(d)
    BY <1>1, <2>1 DEF Running
  <2>. QED
    BY <1>1, <2>1, <2>2 DEF PassAt, sessionVars, Running, Has
<1>. QED
  BY <1>2, <1>3 DEF TurnInv

LEMMA TurnNext == Types /\ Shape /\ TurnInv /\ [Next]_vars => TurnInv'
<1>. SUFFICES ASSUME Types, Shape, TurnInv, [Next]_vars PROVE TurnInv'
  OBVIOUS
<1>1. ASSUME NEW c \in Passes, Read(c) PROVE TurnInv'
  <2>1. /\ UNCHANGED <<sessionVars, conv>> /\ taken' = [taken EXCEPT ![c] = taken[c] + 1]
        /\ IF emitted[c][taken'[c]] = "error" THEN TurnOver(c[1]) ELSE pass' = pass
    BY <1>1 DEF Read
  <2>2. ASSUME NEW d \in Passes, Running(d)', NEW i \in 1..taken'[d]
        PROVE  emitted[d][i] # "error"
    <3>1. d[1] \in Turns /\ d[2] \in 1..MaxPasses /\ c[1] \in Turns /\ PassAt(d)
          /\ taken \in [Passes -> Nat] /\ pass \in [Turns -> 0..MaxPasses]
      BY PassFacts DEF Types, TurnInv
    <3>2. Running(d)
      BY <2>1, <2>2, <3>1 DEF Running, TurnOver
    <3>3. \A j \in 1..taken[d] : emitted[d][j] # "error"
      BY <3>1, <3>2 DEF PassAt
    <3>4. CASE d # c
      BY <2>1, <3>1, <3>3, <3>4
    <3>5. CASE d = c
      <4>1. taken'[c] = taken[c] + 1 /\ taken[c] \in Nat
        BY <2>1, <3>1
      <4>2. emitted[c][taken'[c]] # "error"
        <5>1. pass'[c[1]] # 0
          BY <2>2, <3>1, <3>5 DEF Running
        <5>. QED
          BY <2>1, <3>1, <5>1 DEF TurnOver
      <4>. QED
        BY <3>3, <3>5, <4>1, <4>2
    <3>. QED
      BY <3>4, <3>5
  <2>3. pass' = pass \/ TurnOver(c[1])
    BY <2>1
  <2>. QED
    BY <2>1, <2>2, <2>3, OverTurns
<1>2. ASSUME NEW c \in Passes, UNCHANGED <<sessionVars, conv, taken>>,
             pass' = pass \/ TurnOver(c[1])
      PROVE  TurnInv'
  <2>1. ASSUME NEW d \in Passes, Running(d)' PROVE Running(d) /\ PassAt(d)
    <3>1. d[1] \in Turns /\ d[2] \in 1..MaxPasses /\ c[1] \in Turns /\ PassAt(d)
          /\ pass \in [Turns -> 0..MaxPasses]
      BY PassFacts DEF Types, TurnInv
    <3>. QED
      BY <1>2, <2>1, <3>1 DEF Running, TurnOver
  <2>2. \A d \in Passes : Running(d)' => \A i \in 1..taken'[d] : emitted[d][i] # "error"
    BY <1>2, <2>1 DEF PassAt
  <2>. QED
    BY <1>2, <2>2, OverTurns
<1>3. ASSUME NEW c \in Passes, LastPass(c) \/ Interrupted(c) PROVE TurnInv'
  BY <1>2, <1>3 DEF LastPass, Interrupted
<1>4. ASSUME UNCHANGED <<sessionVars, conv, pass, taken>> PROVE TurnInv'
  BY <1>4 DEF TurnInv, TalkAt, PassAt, Running, Has, sessionVars, User, Message
<1>5. ASSUME NEW t \in Turns, CancelContext(t) PROVE TurnInv'
  BY <1>4, <1>5 DEF CancelContext
<1>6. CASE UNCHANGED vars
  BY <1>4, <1>6 DEF vars, engineVars
<1>. QED
  BY <1>1, <1>3, <1>5, <1>6, SessionTurns, NextPassTurns DEF Next, OfSession, Terminated

-----------------------------------------------------------------------------
(* What the history holds of the passes that came to their end.            *)

\* A part of a sequence stays in one piece when something is added behind.
LEMMA PieceStays ==
  ASSUME NEW S, NEW s \in Seq(S), NEW u \in Seq(S), NEW part \in Seq(S), part # <<>>,
         InOnePiece(s, part)
  PROVE  InOnePiece(s \o u, part)
<1>1. PICK i \in 0..(Len(s) - Len(part)) : SubSeq(s, i + 1, i + Len(part)) = part
  BY DEF InOnePiece
<1>2. Len(s) \in Nat /\ Len(u) \in Nat /\ Len(part) \in Nat /\ Len(part) >= 1
  BY EmptySeq, LenProperties
<1>3. i + 1 \in 1..Len(s) /\ i + Len(part) \in 1..Len(s)
  BY <1>2
<1>4. SubSeq(s \o u, i + 1, i + Len(part)) = part
  BY <1>1, <1>3, SubSeqOfConcat1
<1>5. Len(s \o u) = Len(s) + Len(u)
  BY ConcatProperties
<1>6. i \in 0..(Len(s \o u) - Len(part))
  BY <1>2, <1>5
<1>. QED
  BY <1>4, <1>6 DEF InOnePiece

LEMMA PieceAdded ==
  ASSUME NEW S, NEW s \in Seq(S), NEW part \in Seq(S), part # <<>>
  PROVE  InOnePiece(s \o part, part)
<1>1. Len(s) \in Nat /\ Len(part) \in Nat /\ Len(part) >= 1
  BY EmptySeq, LenProperties
<1>2. /\ Len(s) + 1 \in Len(s) + 1 .. Len(s) + Len(part)
      /\ Len(s) + Len(part) \in Len(s) + 1 .. Len(s) + Len(part)
      /\ (Len(s) + 1) - Len(s) = 1 /\ (Len(s) + Len(part)) - Len(s) = Len(part)
  BY <1>1
<1>3. SubSeq(s \o part, Len(s) + 1, Len(s) + Len(part)) = SubSeq(part, 1, Len(part))
  BY <1>2, SubSeqOfConcat2
<1>4. SubSeq(part, 1, Len(part)) = part
  BY SubSeqFull
<1>5. Len(s \o part) = Len(s) + Len(part)
  BY ConcatProperties
<1>6. Len(s) \in 0..(Len(s \o part) - Len(part))
  BY <1>1, <1>5
<1>. QED
  BY <1>3, <1>4, <1>6 DEF InOnePiece

\* What a pass said and was told is something, and all of the conversation so far
\* while its goroutine runs.
LEMMA ExchangeTypes ==
  ASSUME Types, TurnInv, NEW c \in Passes, at[c] # "idle"
  PROVE  /\ Exchange(c) \in Seq(MessageSet) /\ Exchange(c) # <<>>
         /\ at[c] \in Busy => Exchange(c) = conv[c[1]] \o Answer(c)
<1> DEFINE n == 2 * c[2] - 1
           said == SubSeq(conv[c[1]], 1, n)
<1>1. c[1] \in Turns /\ c[2] \in Nat /\ n \in Nat /\ n >= 1
      /\ conv[c[1]] \in Seq(MessageSet) /\ Len(conv[c[1]]) \in Nat
  BY PassFacts, BoundsAssumption DEF Types
<1>2. Len(conv[c[1]]) >= n /\ (at[c] \in Busy => Len(conv[c[1]]) = n)
  BY DEF TurnInv, PassAt
<1> HIDE DEF n
<1>3. \A i \in 1..n : conv[c[1]][i] \in MessageSet
  BY <1>1, <1>2, ElementOfSeq
<1>4. said \in Seq(MessageSet) /\ Len(said) = n
  <2>1. n - 1 + 1 = n /\ 1 <= n
    BY <1>1
  <2>. QED
    BY <1>1, <1>3, <2>1, SubSeqProperties
<1>5. /\ said \o Answer(c) \in Seq(MessageSet)
      /\ Len(said \o Answer(c)) = n + Len(Answer(c)) /\ Len(Answer(c)) \in Nat
  BY <1>4, AnswerTypes, ConcatProperties, LenProperties
<1>6. said \o Answer(c) # <<>>
  <2>1. Len(said \o Answer(c)) # Len(<<>>)
    BY <1>1, <1>5
  <2>. QED
    BY <2>1, Zenon
<1>7. at[c] \in Busy => said = conv[c[1]]
  BY <1>1, <1>2, SubSeqFull
<1>8. Exchange(c) = said \o Answer(c)
  BY DEF Exchange, n
<1>. QED
  BY <1>5, <1>6, <1>7, <1>8

\* It stays what it was, whatever is said after it.
LEMMA ExchangeStays ==
  ASSUME Types, Shape, TurnInv, [Next]_vars, NEW c \in Passes, at[c] # "idle",
         reply'[c] = reply[c]
  PROVE  Exchange(c)' = Exchange(c)
<1> DEFINE n == 2 * c[2] - 1
           said == SubSeq(conv[c[1]], 1, n)
           says == SubSeq(conv'[c[1]], 1, n)
<1>1. c[1] \in Turns /\ c[2] \in Nat /\ n \in Nat /\ n >= 1
      /\ conv[c[1]] \in Seq(MessageSet) /\ Len(conv[c[1]]) \in Nat
  BY PassFacts, BoundsAssumption DEF Types
<1>2. Len(conv[c[1]]) >= n
  BY DEF TurnInv, PassAt
<1>3. \/ conv'[c[1]] = conv[c[1]]
      \/ /\ conv'[c[1]] \in Seq(MessageSet) /\ Len(conv'[c[1]]) = Len(conv[c[1]]) + 2
         /\ \A i \in 1..Len(conv[c[1]]) : conv'[c[1]][i] = conv[c[1]][i]
  <2>1. ASSUME NEW d \in Passes, NextPass(d), d[1] = c[1]
        PROVE  /\ conv'[c[1]] \in Seq(MessageSet) /\ Len(conv'[c[1]]) = Len(conv[c[1]]) + 2
               /\ \A i \in 1..Len(conv[c[1]]) : conv'[c[1]][i] = conv[c[1]][i]
    BY <1>1, <2>1, NextPassTalk
  <2>2. ASSUME NEW d \in Passes, NextPass(d), d[1] # c[1] PROVE conv'[c[1]] = conv[c[1]]
    BY <1>1, <2>2, NextPassTalk
  <2>3. ASSUME NEW d \in Passes, Read(d) \/ LastPass(d) \/ Interrupted(d) PROVE conv' = conv
    BY <2>3 DEF Read, LastPass, Interrupted
  <2>4. ASSUME NEW d \in Passes, OfSession(d) PROVE conv' = conv
    BY <2>4, SessionFrame DEF engineVars
  <2>5. ASSUME NEW t \in Turns, CancelContext(t) PROVE conv' = conv
    BY <2>5 DEF CancelContext
  <2>6. CASE UNCHANGED vars
    BY <2>6 DEF vars, engineVars
  <2>. QED
    BY <2>1, <2>2, <2>3, <2>4, <2>5, <2>6 DEF Next, OfSession, Terminated
<1> HIDE DEF n
<1>4. \A i \in 1..n : conv[c[1]][i] \in MessageSet /\ conv'[c[1]][i] = conv[c[1]][i]
  BY <1>1, <1>2, <1>3, ElementOfSeq
<1>5. n - 1 + 1 = n /\ 1 <= n /\ \A i \in 1..n : 1 + i - 1 = i
  BY <1>1
<1>6. said \in Seq(MessageSet) /\ Len(said) = n /\ \A i \in 1..n : said[i] = conv[c[1]][i]
  BY <1>1, <1>4, <1>5, SubSeqProperties
<1>7. says \in Seq(MessageSet) /\ Len(says) = n /\ \A i \in 1..n : says[i] = conv'[c[1]][i]
  BY <1>1, <1>4, <1>5, SubSeqProperties
<1>8. says = said
  <2>1. \A i \in 1..Len(says) : says[i] = said[i]
    BY <1>4, <1>6, <1>7
  <2>. QED
    BY <1>6, <1>7, <2>1, SeqEqual
<1>9. Answer(c)' = Answer(c)
  BY DEF Answer, Message
<1>10. Exchange(c) = said \o Answer(c) /\ Exchange(c)' = says \o Answer(c)'
  BY DEF Exchange, n
<1>. QED
  BY <1>8, <1>9, <1>10

\* The pass is about to be reported as completed, or was.
Reported(c) == at[c] = "complete" \/ Has(c, "completed")

KnownAt(c) == provider = "anthropic" /\ Reported(c) => InOnePiece(known, Exchange(c))

KnownInv == \A c \in Passes : KnownAt(c)

LEMMA InitKnown == Init => KnownInv
<1>. SUFFICES ASSUME Init PROVE KnownInv
  OBVIOUS
<1>1. \A c \in Passes : emitted[c] = <<>> /\ Len(emitted[c]) = 0 /\ at[c] = "idle"
  BY DEF Init
<1>. QED
  BY <1>1 DEF KnownInv, KnownAt, Reported, Has

LEMMA ReportedSpeaks ==
  ASSUME Shape, NEW c \in Passes, Reported(c)
  PROVE  at[c] # "idle"
<1>1. at[c] = "idle" => emitted[c] = <<>> /\ Len(emitted[c]) = 0
  BY DEF Shape, ShapeAt
<1>. QED
  BY <1>1 DEF Reported, Has

\* The anthropic session's history changes when an exchange is recorded, and only then.
LEMMA HistoryGrows ==
  ASSUME Types, NEW c \in Passes, OfSession(c), provider = "anthropic"
  PROVE  \/ known' = known
         \/ Record(c) /\ known' = known \o conv[c[1]] \o Answer(c)
BY DEF OfSession, StreamTurn, RememberRequest, AskFails, AskRefused, Ask, SessionStep, Start,
       Report, DecodeFails, Record, Complete, Fail, Close

\* A pass comes to its end by Record.
LEMMA ReportedOnce ==
  ASSUME Types, Shape, NEW c \in Passes, OfSession(c), Reported(c)', ~Record(c)
  PROVE  Reported(c) /\ reply'[c] = reply[c]
<1>0. at \in [Passes -> Places] /\ reply \in [Passes -> Replies \cup {<<>>}]
  BY DEF Types
<1>1. ASSUME NEW kind \in EventKinds \ {"completed"}, NEW next, Emit(c, kind, next),
             next # "complete"
      PROVE  Reported(c)
  <2>1. \/ /\ at'[c] = next /\ Len(emitted[c]) \in Nat
           /\ Len(emitted'[c]) = Len(emitted[c]) + 1
           /\ emitted'[c][Len(emitted[c]) + 1] = kind
           /\ \A i \in 1..Len(emitted[c]) : emitted'[c][i] = emitted[c][i]
        \/ at'[c] = "return" /\ emitted' = emitted
    BY <1>1, EmitFacts
  <2>2. PICK i \in 1..Len(emitted'[c]) : emitted'[c][i] = "completed"
    BY <1>1, <2>1 DEF Reported, Has
  <2>3. i \in 1..Len(emitted[c]) /\ emitted[c][i] = "completed"
    BY <1>1, <2>1, <2>2
  <2>. QED
    BY <2>3 DEF Reported, Has
<1>2. CASE StreamTurn(c) \/ AskFails(c) \/ AskRefused(c) \/ DecodeFails(c) \/ Close(c)
  <2>1. emitted' = emitted /\ at'[c] # "complete" /\ reply' = reply
    BY <1>0, <1>2 DEF StreamTurn, AskFails, AskRefused, Answered, DecodeFails, Close, Goto
  <2>. QED
    BY <2>1 DEF Reported, Has
<1>3. CASE Ask(c)
  <2>1. emitted' = emitted /\ at'[c] = "report" /\ at[c] = "ask"
    BY <1>0, <1>3 DEF Ask, Answered, Goto
  <2>2. \A i \in 1..Len(emitted[c]) : emitted[c][i] \notin Terminal
    BY <2>1 DEF Shape, ShapeAt, Live
  <2>. QED
    BY <2>1, <2>2 DEF Reported, Has, Terminal
<1>4. CASE Start(c) \/ Fail(c)
  BY <1>1, <1>4 DEF Start, Fail, EventKinds, Terminal
<1>5. CASE Report(c)
  <2>1. Block(c) \in EventKinds \ {"completed"}
    BY <1>5, BlockKind DEF Report, EventKinds, Spoken
  <2>. QED
    BY <1>1, <1>5, <2>1 DEF Report
<1>6. CASE Complete(c)
  BY <1>6 DEF Complete, Reported
<1>. QED
  BY <1>2, <1>3, <1>4, <1>5, <1>6 DEF OfSession, SessionStep

LEMMA KnownNext == Types /\ Shape /\ TurnInv /\ KnownInv /\ [Next]_vars => KnownInv'
<1>. SUFFICES ASSUME Types, Shape, TurnInv, KnownInv, [Next]_vars PROVE KnownInv'
  OBVIOUS
<1>1. ASSUME NEW d \in Passes, KnownAt(d), known' = known, provider' = provider,
             Reported(d)' => Reported(d) /\ reply'[d] = reply[d]
      PROVE  KnownAt(d)'
  <2>. SUFFICES ASSUME provider = "anthropic", Reported(d)'
                PROVE  InOnePiece(known', Exchange(d)')
    BY <1>1 DEF KnownAt, InOnePiece
  <2>1. Exchange(d)' = Exchange(d)
    BY <1>1, ReportedSpeaks, ExchangeStays
  <2>. QED
    BY <1>1, <2>1 DEF KnownAt
<1>2. ASSUME NEW c \in Passes, OfSession(c), NEW d \in Passes PROVE KnownAt(d)'
  <2>1. provider' = provider /\ conv' = conv
    BY <1>2, SessionFrame DEF engineVars
  <2>2. d # c => (Reported(d)' => Reported(d)) /\ reply'[d] = reply[d]
    BY <1>2, SessionFrame DEF Reported, Has
  <2>3. d = c /\ ~Record(c) => (Reported(d)' => Reported(d) /\ reply'[d] = reply[d])
    BY <1>2, ReportedOnce
  <2>4. CASE known' = known /\ ~(d = c /\ Record(c))
    BY <1>1, <2>1, <2>2, <2>3, <2>4 DEF KnownInv
  <2>5. CASE provider # "anthropic"
    BY <2>1, <2>5 DEF KnownAt
  <2>6. CASE provider = "anthropic" /\ Record(c)
    <3>1. /\ at[c] = "report" /\ reply' = reply /\ emitted' = emitted
          /\ known' = known \o conv[c[1]] \o Answer(c)
      BY <2>6 DEF Record
    <3>2. /\ Exchange(c) \in Seq(MessageSet) /\ Exchange(c) # <<>>
          /\ Exchange(c) = conv[c[1]] \o Answer(c)
      BY <1>2, <3>1, ExchangeTypes DEF Busy
    <3>3. known' = known \o Exchange(c)
      <4>1. /\ known \in Seq(MessageSet) /\ conv[c[1]] \in Seq(MessageSet)
            /\ Answer(c) \in Seq(MessageSet)
        BY <1>2, PassFacts, AnswerTypes DEF Types
      <4>2. \A s, t, u \in Seq(MessageSet) : (s \o t) \o u = s \o (t \o u)
        BY ConcatAssociative
      <4>3. (known \o conv[c[1]]) \o Answer(c) = known \o (conv[c[1]] \o Answer(c))
        BY <4>1, <4>2, Zenon
      <4>. QED
        BY <3>1, <3>2, <4>3
    <3>4. known \in Seq(MessageSet)
      BY DEF Types
    <3>5. CASE d = c
      <4>1. Exchange(c)' = Exchange(c)
        BY <1>2, <3>1, ExchangeStays
      <4>2. InOnePiece(known', Exchange(c)')
        BY <3>2, <3>3, <3>4, <4>1, PieceAdded
      <4>. QED
        BY <3>5, <4>2 DEF KnownAt, InOnePiece
    <3>6. CASE d # c
      <4>. SUFFICES ASSUME Reported(d)' PROVE InOnePiece(known', Exchange(d)')
        BY DEF KnownAt, InOnePiece
      <4>1. Reported(d) /\ reply'[d] = reply[d]
        BY <2>2, <3>6
      <4>2. Exchange(d)' = Exchange(d)
        BY <4>1, ReportedSpeaks, ExchangeStays
      <4>3. Exchange(d) \in Seq(MessageSet) /\ Exchange(d) # <<>> /\ InOnePiece(known, Exchange(d))
        BY <2>6, <4>1, ReportedSpeaks, ExchangeTypes DEF KnownInv, KnownAt
      <4>. QED
        BY <3>2, <3>3, <3>4, <4>2, <4>3, PieceStays
    <3>. QED
      BY <3>5, <3>6
  <2>7. provider = "anthropic" => known' = known \/ Record(c)
    BY <1>2, HistoryGrows
  <2>. QED
    BY <2>4, <2>5, <2>6, <2>7
<1>3. ASSUME UNCHANGED sessionVars PROVE KnownInv'
  BY <1>1, <1>3 DEF sessionVars, KnownInv, Reported, Has
<1>4. ASSUME NEW c \in Passes, OfEngine(c) PROVE KnownInv'
  BY <1>3, <1>4 DEF OfEngine, Read, LastPass, NextPass, Interrupted
<1>5. ASSUME NEW t \in Turns, CancelContext(t) PROVE KnownInv'
  BY <1>3, <1>5 DEF CancelContext
<1>6. CASE UNCHANGED vars
  BY <1>3, <1>6 DEF vars
<1>. QED
  BY <1>2, <1>4, <1>5, <1>6 DEF Next, OfSession, OfEngine, Terminated, KnownInv

(***************************************************************************)
(* The exchange of a pass that was reported as completed is in the history *)
(* in one piece, for any number of turns at once and any replies           *)
(* (anthropic/session.go:236-262).                                         *)
(***************************************************************************)
THEOREM CompletedCorrect == Spec => []CompletedIsKnown
<1> DEFINE IInv == Types /\ Shape /\ TurnInv /\ KnownInv
<1>1. Init => IInv
  BY InitShape, InitTurns, InitKnown
<1>2. IInv /\ [Next]_vars => IInv'
  BY TypesNext, ShapeNext, TurnNext, KnownNext
<1>3. IInv => CompletedIsKnown
  BY DEF KnownInv, KnownAt, Reported, CompletedIsKnown
<1>. QED
  BY <1>1, <1>2, <1>3, PTL DEF Spec

-----------------------------------------------------------------------------
(* What a pass that failed left in the history.                            *)

\* Where the history says the prompt of a turn, and the passes that put it there.
Prompts(t) == {i \in 1..Len(known) : known[i] = User(t)}

Recorded(t) ==
  {p \in 1..MaxPasses :
     /\ at[<<t, p>>] \in {"complete", "return", "closed"}
     /\ AllReported(<<t, p>>) /\ ~Has(<<t, p>>, "error")}

CountInv ==
  provider = "anthropic" => \A t \in Turns : Cardinality(Prompts(t)) <= Cardinality(Recorded(t))

LEMMA CountTypes ==
  ASSUME Types, NEW t \in Turns
  PROVE  /\ IsFiniteSet(Prompts(t)) /\ Cardinality(Prompts(t)) \in Nat
         /\ IsFiniteSet(Recorded(t)) /\ Cardinality(Recorded(t)) \in Nat
<1>1. Len(known) \in Int /\ MaxPasses \in Int /\ 1 \in Int
  BY BoundsAssumption DEF Types
<1>2. IsFiniteSet(1..Len(known)) /\ IsFiniteSet(1..MaxPasses)
  BY <1>1, FS_Interval
<1>3. Prompts(t) \in SUBSET (1..Len(known)) /\ Recorded(t) \in SUBSET (1..MaxPasses)
  BY DEF Prompts, Recorded
<1>4. IsFiniteSet(Prompts(t)) /\ IsFiniteSet(Recorded(t))
  BY <1>2, <1>3, FS_Subset
<1>. QED
  BY <1>4, FS_CardinalityType

LEMMA InitCount == Init => CountInv
<1>. SUFFICES ASSUME Init, NEW t \in Turns PROVE Cardinality(Prompts(t)) <= Cardinality(Recorded(t))
  BY DEF CountInv
<1>1. Types
  BY InitShape
<1>2. Len(known) = 0
  BY DEF Init
<1>3. Prompts(t) = {}
  BY <1>2 DEF Prompts
<1>4. Cardinality(Prompts(t)) = 0
  BY <1>3, FS_EmptySet
<1>. QED
  BY <1>1, <1>4, CountTypes

\* A reply that was reported stays so, and only then the pass is said to be completed.
LEMMA ReportedStays ==
  ASSUME Types, Shape, NEW c \in Passes, OfSession(c), NEW d \in Passes,
         AllReported(d), reply'[d] = reply[d]
  PROVE  AllReported(d)'
<1>1. Len(emitted[d]) \in Nat /\ Len(emitted'[d]) >= Len(emitted[d]) /\ Len(emitted'[d]) \in Nat
  BY SessionSends, SessionTypes DEF Types
<1>2. Len(reply[d]) \in Nat
  <2>1. <<>> \in Seq(Spoken)
    OBVIOUS
  <2>. QED
    BY <2>1, RepliesAssumption DEF Types, Spoken
<1>. QED
  BY <1>1, <1>2 DEF AllReported

CompleteInv == \A c \in Passes : Reported(c) => AllReported(c)

LEMMA InitComplete == Init => CompleteInv
<1>. SUFFICES ASSUME Init PROVE CompleteInv
  OBVIOUS
<1>1. \A c \in Passes : emitted[c] = <<>> /\ Len(emitted[c]) = 0 /\ at[c] = "idle"
  BY DEF Init
<1>. QED
  BY <1>1 DEF CompleteInv, Reported, Has

LEMMA CompleteNext == Types /\ Shape /\ CompleteInv /\ [Next]_vars => CompleteInv'
<1>. SUFFICES ASSUME Types, Shape, CompleteInv, [Next]_vars PROVE CompleteInv'
  OBVIOUS
<1>1. ASSUME NEW c \in Passes, OfSession(c), NEW d \in Passes, Reported(d)'
      PROVE  AllReported(d)'
  <2>1. CASE d # c
    <3>1. Reported(d) /\ reply'[d] = reply[d]
      BY <1>1, <2>1, SessionFrame DEF Reported, Has
    <3>. QED
      BY <1>1, <3>1, ReportedStays DEF CompleteInv
  <2>2. CASE d = c /\ ~Record(c)
    <3>1. Reported(d) /\ reply'[d] = reply[d]
      BY <1>1, <2>2, ReportedOnce
    <3>. QED
      BY <1>1, <3>1, ReportedStays DEF CompleteInv
  <2>3. CASE d = c /\ Record(c)
    BY <2>3 DEF Record, AllReported
  <2>. QED
    BY <2>1, <2>2, <2>3
<1>2. ASSUME UNCHANGED sessionVars PROVE CompleteInv'
  BY <1>2 DEF sessionVars, CompleteInv, Reported, AllReported, Has
<1>3. ASSUME NEW c \in Passes, OfEngine(c) PROVE CompleteInv'
  BY <1>2, <1>3 DEF OfEngine, Read, LastPass, NextPass, Interrupted
<1>4. ASSUME NEW t \in Turns, CancelContext(t) PROVE CompleteInv'
  BY <1>2, <1>4 DEF CancelContext
<1>5. CASE UNCHANGED vars
  BY <1>2, <1>5 DEF vars
<1>. QED
  BY <1>1, <1>3, <1>4, <1>5 DEF Next, OfSession, OfEngine, Terminated, CompleteInv

\* A pass that is recorded stays so: it reports no error any more.
LEMMA RecordedStays ==
  ASSUME Types, Shape, NEW c \in Passes, OfSession(c), NEW t \in Turns
  PROVE  Recorded(t) \subseteq Recorded(t)'
<1>. SUFFICES ASSUME NEW p \in Recorded(t) PROVE p \in Recorded(t)'
  OBVIOUS
<1>1. /\ p \in 1..MaxPasses /\ <<t, p>> \in Passes
      /\ at[<<t, p>>] \in {"complete", "return", "closed"} /\ ~Has(<<t, p>>, "error")
      /\ AllReported(<<t, p>>)
  BY PassFacts DEF Recorded
<1>3. AllReported(<<t, p>>)'
  <2>1. reply'[<<t, p>>] = reply[<<t, p>>]
    <3>1. CASE <<t, p>> # c
      BY <1>1, <3>1, SessionFrame
    <3>2. CASE <<t, p>> = c
      BY <1>1, <3>2
         DEF OfSession, StreamTurn, AskFails, AskRefused, Ask, Answered, SessionStep, Start,
             Report, DecodeFails, Record, Complete, Fail, Close
    <3>. QED
      BY <3>1, <3>2
  <2>. QED
    BY <1>1, <2>1, ReportedStays
<1>2. at'[<<t, p>>] \in {"complete", "return", "closed"} /\ ~Has(<<t, p>>, "error")'
  <2>1. CASE <<t, p>> # c
    BY <1>1, <2>1, SessionFrame DEF Has
  <2>2. CASE <<t, p>> = c
    <3>0. at \in [Passes -> Places]
      BY DEF Types
    <3>1. CASE Complete(c)
      <4>1. Emit(c, "completed", "return") /\ "completed" \in EventKinds
        BY <3>1 DEF Complete, EventKinds, Terminal
      <4>2. \/ /\ at'[c] = "return" /\ Len(emitted[c]) \in Nat
               /\ Len(emitted'[c]) = Len(emitted[c]) + 1
               /\ emitted'[c][Len(emitted[c]) + 1] = "completed"
               /\ \A i \in 1..Len(emitted[c]) : emitted'[c][i] = emitted[c][i]
            \/ at'[c] = "return" /\ emitted' = emitted
        BY <4>1, EmitFacts
      <4>3. CASE emitted' = emitted
        BY <1>1, <2>2, <4>2, <4>3 DEF Has
      <4>4. CASE emitted' # emitted
        <5>1. \A i \in 1..Len(emitted'[c]) :
                 i \in 1..Len(emitted[c]) \/ i = Len(emitted[c]) + 1
          BY <4>2, <4>4
        <5>2. \A i \in 1..Len(emitted'[c]) : emitted'[c][i] # "error"
          BY <1>1, <2>2, <4>2, <4>4, <5>1 DEF Has
        <5>. QED
          BY <2>2, <4>2, <5>2 DEF Has
      <4>. QED
        BY <4>3, <4>4
    <3>2. CASE Close(c)
      BY <1>1, <2>2, <3>0, <3>2 DEF Close, Goto, Has
    <3>. QED
      BY <1>1, <2>2, <3>1, <3>2
         DEF OfSession, StreamTurn, AskFails, AskRefused, Ask, Answered, SessionStep, Start,
             Report, DecodeFails, Record, Fail
  <2>. QED
    BY <2>1, <2>2
<1>. QED
  BY <1>1, <1>2, <1>3 DEF Recorded

\* What Record adds to the history begins with the prompt of the turn, and holds no other.
LEMMA RecordPrompts ==
  ASSUME Types, TurnInv, NEW c \in Passes, Record(c), provider = "anthropic", NEW t \in Turns
  PROVE  Prompts(t)' \subseteq Prompts(t) \cup (IF t = c[1] THEN {Len(known) + 1} ELSE {})
<1> DEFINE said == conv[c[1]]
           first == known \o said
           tail == Answer(c)
<1>1. c[1] \in Turns /\ known \in Seq(MessageSet) /\ said \in Seq(MessageSet)
      /\ tail \in Seq(MessageSet) /\ Len(known) \in Nat /\ Len(said) \in Nat /\ Len(tail) \in Nat
  BY PassFacts, AnswerTypes, LenProperties DEF Types
<1>2. Len(said) >= 1 /\ said[1] = User(c[1]) /\ \A i \in 2..Len(said) : said[i].role # "user"
  BY <1>1 DEF TurnInv, TalkAt
<1>3. \A i \in 1..Len(tail) : tail[i].role # "user"
  <2>1. Message(c, "assistant").role = "assistant"
    BY DEF Message
  <2>2. Len(tail) = 0 \/ (Len(tail) = 1 /\ tail[1] = Message(c, "assistant"))
    BY AnswerTypes
  <2> HIDE DEF tail
  <2>. QED
    BY <2>1, <2>2
<1>4. known' = first \o tail
  BY DEF Record
<1>5. User(t).role = "user" /\ (t # c[1] => User(t) # User(c[1]))
  BY DEF User, Message
<1> HIDE DEF said, tail
<1>6. /\ first \in Seq(MessageSet) /\ Len(first) = Len(known) + Len(said)
      /\ \A i \in 1..Len(known) + Len(said) :
           first[i] = IF i <= Len(known) THEN known[i] ELSE said[i - Len(known)]
  BY <1>1, ConcatProperties
<1>7. /\ Len(first \o tail) = Len(first) + Len(tail)
      /\ \A i \in 1..Len(first) + Len(tail) :
           (first \o tail)[i] = IF i <= Len(first) THEN first[i] ELSE tail[i - Len(first)]
  BY <1>1, <1>6, ConcatProperties
<1> HIDE DEF first
<1>8. ASSUME NEW i \in 1..Len(known'), known'[i] = User(t)
      PROVE  i \in Prompts(t) \/ (t = c[1] /\ i = Len(known) + 1)
  <2>1. /\ i \in 1..Len(first) + Len(tail)
        /\ known'[i] = IF i <= Len(first) THEN first[i] ELSE tail[i - Len(first)]
    BY <1>4, <1>7
  <2>2. CASE i <= Len(known)
    <3>1. i \in 1..Len(known) + Len(said) /\ i <= Len(first) /\ i \in 1..Len(known)
      BY <1>1, <1>6, <2>2
    <3>. QED
      BY <1>6, <1>8, <2>1, <2>2, <3>1 DEF Prompts
  <2>3. CASE i = Len(known) + 1
    <3>1. i \in 1..Len(known) + Len(said) /\ i <= Len(first) /\ ~(i <= Len(known))
          /\ i - Len(known) = 1
      BY <1>1, <1>2, <1>6, <2>3
    <3>2. known'[i] = said[1]
      BY <1>6, <2>1, <3>1
    <3>. QED
      BY <1>2, <1>5, <1>8, <2>3, <3>2
  <2>4. CASE i > Len(known) + 1 /\ i <= Len(first)
    <3>1. i \in 1..Len(known) + Len(said) /\ ~(i <= Len(known))
          /\ i - Len(known) \in 2..Len(said)
      BY <1>1, <1>6, <2>4
    <3>2. known'[i] = said[i - Len(known)]
      BY <1>6, <2>1, <2>4, <3>1
    <3>. QED
      BY <1>2, <1>5, <1>8, <3>1, <3>2
  <2>5. CASE i > Len(first)
    <3>1. ~(i <= Len(first)) /\ i - Len(first) \in 1..Len(tail)
      BY <1>1, <1>6, <2>1, <2>5
    <3>. QED
      BY <1>3, <1>5, <1>8, <2>1, <3>1
  <2>. QED
    BY <1>1, <1>6, <2>1, <2>2, <2>3, <2>4, <2>5
<1>9. Prompts(t)' = {i \in 1..Len(known') : known'[i] = User(t)}
  BY DEF Prompts, User, Message
<1>. QED
  BY <1>8, <1>9

LEMMA CountNext == Types /\ Shape /\ TurnInv /\ CountInv /\ [Next]_vars => CountInv'
<1>. SUFFICES ASSUME Types, Shape, TurnInv, CountInv, [Next]_vars PROVE CountInv'
  OBVIOUS
<1>0. ASSUME NEW t \in Turns
      PROVE  IsFiniteSet(Recorded(t)') /\ Cardinality(Recorded(t)') \in Nat
  <2>1. IsFiniteSet(1..MaxPasses)
    BY FS_Interval, BoundsAssumption
  <2>2. Recorded(t)' \in SUBSET (1..MaxPasses)
    BY DEF Recorded
  <2>. QED
    BY <2>1, <2>2, FS_Subset, FS_CardinalityType
\* No more prompts, and the passes recorded are still so.
<1>1. ASSUME NEW t \in Turns, Prompts(t)' \subseteq Prompts(t), Recorded(t) \subseteq Recorded(t)',
             Cardinality(Prompts(t)) <= Cardinality(Recorded(t))
      PROVE  Cardinality(Prompts(t)') <= Cardinality(Recorded(t)')
  <2>1. /\ IsFiniteSet(Prompts(t)') /\ Cardinality(Prompts(t)') <= Cardinality(Prompts(t))
        /\ Cardinality(Prompts(t)) \in Nat /\ Cardinality(Recorded(t)) \in Nat
    BY <1>1, CountTypes, FS_Subset
  <2>2. Cardinality(Prompts(t)') \in Nat
    BY <2>1, FS_CardinalityType
  <2>3. Cardinality(Recorded(t)) <= Cardinality(Recorded(t)') /\ Cardinality(Recorded(t)') \in Nat
    BY <1>0, <1>1, FS_Subset
  <2>. QED
    BY <1>1, <2>1, <2>2, <2>3
\* One prompt more, and the pass that put it there.
<1>2. ASSUME NEW t \in Turns, NEW i, NEW p, p \notin Recorded(t),
             Prompts(t)' \subseteq Prompts(t) \cup {i},
             Recorded(t) \cup {p} \subseteq Recorded(t)',
             Cardinality(Prompts(t)) <= Cardinality(Recorded(t))
      PROVE  Cardinality(Prompts(t)') <= Cardinality(Recorded(t)')
  <2>1. /\ IsFiniteSet(Prompts(t)) /\ Cardinality(Prompts(t)) \in Nat
        /\ IsFiniteSet(Recorded(t)) /\ Cardinality(Recorded(t)) \in Nat
    BY CountTypes
  <2>2. /\ IsFiniteSet(Prompts(t) \cup {i})
        /\ Cardinality(Prompts(t) \cup {i}) <= Cardinality(Prompts(t)) + 1
        /\ Cardinality(Prompts(t) \cup {i}) \in Nat
    <3>1. /\ IsFiniteSet(Prompts(t) \cup {i})
          /\ Cardinality(Prompts(t) \cup {i}) =
               IF i \in Prompts(t) THEN Cardinality(Prompts(t)) ELSE Cardinality(Prompts(t)) + 1
      BY <2>1, FS_AddElement
    <3>. QED
      BY <2>1, <3>1
  <2>3. /\ IsFiniteSet(Prompts(t)')
        /\ Cardinality(Prompts(t)') <= Cardinality(Prompts(t) \cup {i})
    BY <1>2, <2>2, FS_Subset
  <2>4. Cardinality(Prompts(t)') \in Nat
    BY <2>3, FS_CardinalityType
  <2>5. Cardinality(Recorded(t) \cup {p}) = Cardinality(Recorded(t)) + 1
    BY <1>2, <2>1, FS_AddElement
  <2>6. /\ Cardinality(Recorded(t) \cup {p}) <= Cardinality(Recorded(t)')
        /\ Cardinality(Recorded(t)') \in Nat
    BY <1>0, <1>2, FS_Subset
  <2>. QED
    BY <1>2, <2>1, <2>2, <2>3, <2>4, <2>5, <2>6
<1>3. ASSUME NEW c \in Passes, OfSession(c) PROVE CountInv'
  <2>1. provider' = provider
    BY <1>3, SessionFrame
  <2>. SUFFICES ASSUME provider = "anthropic", NEW t \in Turns
                PROVE  Cardinality(Prompts(t)') <= Cardinality(Recorded(t)')
    BY <2>1 DEF CountInv
  <2>2. /\ Recorded(t) \subseteq Recorded(t)'
        /\ Cardinality(Prompts(t)) <= Cardinality(Recorded(t))
    BY <1>3, RecordedStays DEF CountInv
  <2>3. CASE known' = known
    <3>1. Prompts(t)' \subseteq Prompts(t)
      BY <2>3 DEF Prompts, User, Message
    <3>. QED
      BY <1>1, <2>2, <3>1
  <2>4. CASE Record(c)
    <3>1. Prompts(t)' \subseteq Prompts(t) \cup (IF t = c[1] THEN {Len(known) + 1} ELSE {})
      BY <2>4, RecordPrompts
    <3>2. CASE t # c[1]
      <4>1. Prompts(t)' \subseteq Prompts(t)
        BY <3>1, <3>2
      <4>. QED
        BY <1>1, <2>2, <4>1
    <3>3. CASE t = c[1]
      <4>1. /\ c = <<t, c[2]>> /\ c[2] \in 1..MaxPasses /\ at[c] = "report"
            /\ at'[c] = "complete" /\ emitted' = emitted
        BY <2>4, <3>3, PassFacts DEF Record, Goto, Types
      <4>2. c[2] \notin Recorded(t)
        BY <4>1 DEF Recorded
      <4>3. ~Has(c, "error")
        BY <4>1 DEF Shape, ShapeAt, Live, Has, Terminal
      <4>4. c[2] \in Recorded(t)'
        BY <2>4, <4>1, <4>3 DEF Recorded, Record, AllReported, Has
      <4>5. Prompts(t)' \subseteq Prompts(t) \cup {Len(known) + 1}
        BY <3>1, <3>3
      <4>6. Recorded(t) \cup {c[2]} \subseteq Recorded(t)'
        BY <2>2, <4>4
      <4>. QED
        BY <1>2, <2>2, <4>2, <4>5, <4>6
    <3>. QED
      BY <3>2, <3>3
  <2>. QED
    BY <1>3, <2>3, <2>4, HistoryGrows
<1>4. ASSUME UNCHANGED sessionVars PROVE CountInv'
  BY <1>4 DEF sessionVars, CountInv, Prompts, Recorded, AllReported, Has, User, Message
<1>5. ASSUME NEW c \in Passes, OfEngine(c) PROVE CountInv'
  BY <1>4, <1>5 DEF OfEngine, Read, LastPass, NextPass, Interrupted
<1>6. ASSUME NEW t \in Turns, CancelContext(t) PROVE CountInv'
  BY <1>4, <1>6 DEF CancelContext
<1>7. CASE UNCHANGED vars
  BY <1>4, <1>7 DEF vars
<1>. QED
  BY <1>3, <1>5, <1>6, <1>7 DEF Next, OfSession, OfEngine, Terminated

\* The passes of a turn that are recorded come before one that failed, was given up or
\* is under way.
LEMMA RecordedBefore ==
  ASSUME Types, Shape, TurnInv, CompleteInv, NEW c \in Passes,
         Unfinished(c) \/ GivenUp(c) \/ Has(c, "error")
  PROVE  Recorded(c[1]) \subseteq 1..(c[2] - 1)
<1>. SUFFICES ASSUME NEW p \in Recorded(c[1]) PROVE p \in 1..(c[2] - 1)
  OBVIOUS
<1>1. /\ p \in 1..MaxPasses /\ c[2] \in 1..MaxPasses /\ c[1] \in Turns /\ c = <<c[1], c[2]>>
      /\ at[<<c[1], p>>] \in {"complete", "return", "closed"} /\ ~Has(<<c[1], p>>, "error")
      /\ AllReported(<<c[1], p>>)
  BY PassFacts DEF Recorded
<1>2. p # c[2]
  BY <1>1 DEF Unfinished, GivenUp
<1>3. ASSUME p > c[2] PROVE FALSE
  <2>0. at[c] # "idle"
    <3>1. at[c] = "idle" => emitted[c] = <<>> /\ Len(emitted[c]) = 0
      BY DEF Shape, ShapeAt
    <3>. QED
      BY <3>1 DEF Unfinished, GivenUp, Has
  <2>1. /\ <<c[1], p>> \in Passes /\ <<c[1], p>>[1] = c[1] /\ <<c[1], p>>[2] = p
        /\ at[<<c[1], p>>] # "idle"
    BY <1>1, PassFacts
  <2>2. c[2] \in 1..(p - 1)
    BY <1>1, <1>3
  <2>3. /\ at[<<c[1], c[2]>>] = "closed" /\ ~Has(<<c[1], c[2]>>, "error")
        /\ Has(<<c[1], c[2]>>, "completed")
    BY <2>1, <2>2 DEF TurnInv, PassAt
  <2>4. AllReported(c)
    BY <1>1, <2>3 DEF CompleteInv, Reported
  <2>. QED
    BY <1>1, <2>3, <2>4 DEF Unfinished, GivenUp
<1>. QED
  BY <1>1, <1>2, <1>3, BoundsAssumption

(***************************************************************************)
(* A pass that failed, was given up half way or has not come to its end    *)
(* has left nothing in the history: the prompt of its turn is there at     *)
(* most once for each pass before it, for any number of turns at once      *)
(* (anthropic/session.go:133-153, 200-234).                                *)
(***************************************************************************)
THEOREM FailedCorrect == Spec => []FailedIsForgotten
<1> DEFINE IInv == Types /\ Shape /\ TurnInv /\ CompleteInv /\ CountInv
<1>1. Init => IInv
  BY InitShape, InitTurns, InitComplete, InitCount
<1>2. IInv /\ [Next]_vars => IInv'
  BY TypesNext, ShapeNext, TurnNext, CompleteNext, CountNext
<1>3. IInv => FailedIsForgotten
  <2>. SUFFICES ASSUME IInv, NEW c \in Passes, provider = "anthropic",
                       Unfinished(c) \/ GivenUp(c) \/ Has(c, "error")
                PROVE  Cardinality(Prompts(c[1])) < c[2]
    BY DEF FailedIsForgotten, Prompts
  <2>1. c[1] \in Turns /\ c[2] \in Nat /\ c[2] >= 1 /\ c[2] - 1 \in Int /\ 1 \in Int
    BY PassFacts, BoundsAssumption
  <2>2. Recorded(c[1]) \in SUBSET (1..(c[2] - 1))
    BY RecordedBefore
  <2>3. IsFiniteSet(1..(c[2] - 1)) /\ Cardinality(1..(c[2] - 1)) = c[2] - 1
    <3>1. /\ IsFiniteSet(1..(c[2] - 1))
          /\ Cardinality(1..(c[2] - 1)) = IF 1 > c[2] - 1 THEN 0 ELSE (c[2] - 1) - 1 + 1
      BY <2>1, FS_Interval
    <3>. QED
      BY <2>1, <3>1
  <2>4. Cardinality(Recorded(c[1])) <= c[2] - 1
    BY <2>2, <2>3, FS_Subset
  <2>5. /\ Cardinality(Prompts(c[1])) <= Cardinality(Recorded(c[1]))
        /\ Cardinality(Prompts(c[1])) \in Nat /\ Cardinality(Recorded(c[1])) \in Nat
    BY <2>1, CountTypes DEF CountInv
  <2>. QED
    BY <2>1, <2>4, <2>5
<1>. QED
  BY <1>1, <1>2, <1>3, PTL DEF Spec
=============================================================================
