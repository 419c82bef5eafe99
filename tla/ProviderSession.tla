--------------------------- MODULE ProviderSession ---------------------------
(***************************************************************************)
(* A model session under the engine's turns: StreamTurn of the anthropic,  *)
(* the openai and the openai-chatcompat session, whose goroutine asks the  *)
(* provider and reports the reply over a bounded channel, what the session *)
(* remembers for the requests to come, and the turns of one Runtime, one   *)
(* after the other or at once, each with a request for every model pass.   *)
(*                                                                         *)
(* A message is the turn and the pass it belongs to and its role; the      *)
(* contents of a reply are the kinds of event it is reported by.           *)
(***************************************************************************)
EXTENDS Naturals, Sequences, FiniteSets

CONSTANTS
  Providers,        \* of "anthropic", "openai" and "openai-chatcompat"
  NumTurns,
  MaxPasses,        \* bound: model passes of a turn
  Cancellable,      \* bound: the turns whose context may be cancelled
  EventCap,         \* capacity of the event channel, 8 in the code
  Replies           \* what the provider may answer: sequences of event kinds

ASSUME ProvidersAssumption == Providers \subseteq {"anthropic", "openai", "openai-chatcompat"}

ASSUME BoundsAssumption ==
  NumTurns \in Nat /\ MaxPasses \in Nat \ {0} /\ EventCap \in Nat \ {0}
  /\ Cancellable \subseteq 1..NumTurns

ASSUME RepliesAssumption == Replies \subseteq Seq({"message", "tool_call"})

Turns == 1..NumTurns
Passes == Turns \X (1..MaxPasses)

VARIABLES
  provider,         \* the session's
  known,            \* Session.history, or the messages behind previousResponseID
  conv,             \* normalized.Messages of each turn
  pass,             \* the model pass each turn is in, 0 when the turn is over
  at,               \* where the goroutine of each StreamTurn stands
  request,          \* the messages of its request, until that is answered
  reply,            \* what the provider answered
  emitted,          \* events it has sent
  taken,            \* events of the channel the engine has read
  ctxDone           \* turns whose context is done

sessionVars == <<provider, known, at, request, reply, emitted>>
engineVars == <<conv, pass, taken, ctxDone>>
vars == <<sessionVars, engineVars>>

Message(c, role) == [turn |-> c[1], pass |-> c[2], role |-> role]
User(t) == Message(<<t, 0>>, "user")

\* The assistant's message in a reply, in the session as in the engine's continuation.
Answer(c) == IF reply[c] = <<>> THEN <<>> ELSE <<Message(c, "assistant")>>

Init ==
  /\ provider \in Providers
  /\ known = <<>>
  /\ conv = [t \in Turns |-> <<User(t)>>]
  /\ pass = [t \in Turns |-> 1]
  /\ at = [c \in Passes |-> "idle"]
  /\ request = [c \in Passes |-> <<>>] /\ reply = [c \in Passes |-> <<>>]
  /\ emitted = [c \in Passes |-> <<>>]
  /\ taken = [c \in Passes |-> 0]
  /\ ctxDone = {}

Goto(c, place) == at' = [at EXCEPT ![c] = place]

-----------------------------------------------------------------------------
(* Session.StreamTurn.  One message each of a reply is reported; the       *)
(* channel is closed when the goroutine returns.                           *)

Room(c) == Len(emitted[c]) - taken[c] < EventCap

Send(c, kind, next) ==
  /\ Room(c)
  /\ emitted' = [emitted EXCEPT ![c] = Append(@, kind)]
  /\ Goto(c, next)

\* Seeded fault: the send is given up for no context.
EmitStubborn(c, kind, next) == Send(c, kind, next)

\* The select takes either case when both are ready.
Emit(c, kind, next) ==
  \/ Send(c, kind, next)
  \/ /\ c[1] \in ctxDone
     /\ Goto(c, "return")
     /\ UNCHANGED emitted

\* Seeded fault: the messages are remembered when they are sent.
RememberEarly(c) == known' = known \o conv[c[1]]

RememberRequest(c) == UNCHANGED known

\* buildRequest: what the session remembers, and the input after it.
Request(c) == known \o conv[c[1]]

StreamTurn(c) ==
  /\ at[c] = "idle" /\ pass[c[1]] = c[2]
  /\ IF c[1] \in ctxDone
       THEN Goto(c, "refused") /\ UNCHANGED <<known, request>>
       ELSE /\ Goto(c, "start")
            /\ request' = [request EXCEPT ![c] = Request(c)]
            /\ RememberRequest(c)
  /\ UNCHANGED <<provider, reply, emitted, engineVars>>

Start(c) ==
  /\ at[c] = "start"
  /\ Emit(c, "started", "ask")
  /\ UNCHANGED <<provider, known, request, reply, engineVars>>

\* The request is over, with a response or without.
Answered(c, next) ==
  /\ at[c] = "ask"
  /\ request' = [request EXCEPT ![c] = <<>>]
  /\ Goto(c, next)

\* The connection, the status or the decoding of the response, or the context.
AskFails(c) ==
  /\ Answered(c, "error")
  /\ UNCHANGED <<provider, known, reply, emitted, engineVars>>

\* A response that says what went wrong.  The openai session goes on from its id
\* all the same, which the response may lack.
AskRefused(c) ==
  /\ Answered(c, "error")
  /\ known' \in (IF provider = "openai" THEN {request[c], <<>>} ELSE {known})
  /\ UNCHANGED <<provider, reply, emitted, engineVars>>

\* previousResponseID is set before the response is looked at.
Ask(c) ==
  /\ Answered(c, "report")
  /\ reply' \in {[reply EXCEPT ![c] = r] : r \in Replies}
  /\ known' = IF provider = "openai" THEN request[c] \o Answer(c)' ELSE known
  /\ UNCHANGED <<provider, emitted, engineVars>>

\* After "started", the blocks of the reply in order.
Block(c) == reply[c][Len(emitted[c])]
AllReported(c) == Len(emitted[c]) > Len(reply[c])

Report(c) ==
  /\ at[c] = "report" /\ ~AllReported(c)
  /\ Emit(c, Block(c), "report")
  /\ UNCHANGED <<provider, known, request, reply, engineVars>>

\* The openai session decodes each block as it comes to it.
DecodeFails(c) ==
  /\ at[c] = "report" /\ ~AllReported(c) /\ provider = "openai"
  /\ Goto(c, "error")
  /\ UNCHANGED <<provider, known, request, reply, emitted, engineVars>>

\* Seeded fault: the input and the answer are added in two critical sections.
RecordInTwo(c) ==
  /\ \/ /\ at[c] = "report" /\ AllReported(c)
        /\ known' = IF provider = "anthropic" THEN known \o conv[c[1]] ELSE known
        /\ Goto(c, "answer")
     \/ /\ at[c] = "answer"
        /\ known' = IF provider = "anthropic" THEN known \o Answer(c) ELSE known
        /\ Goto(c, "complete")
  /\ UNCHANGED <<provider, request, reply, emitted, engineVars>>

\* The anthropic session adds the exchange to what its history is by now.
Record(c) ==
  /\ at[c] = "report" /\ AllReported(c)
  /\ known' = IF provider = "anthropic" THEN known \o conv[c[1]] \o Answer(c) ELSE known
  /\ Goto(c, "complete")
  /\ UNCHANGED <<provider, request, reply, emitted, engineVars>>

Complete(c) ==
  /\ at[c] = "complete"
  /\ Emit(c, "completed", "return")
  /\ UNCHANGED <<provider, known, request, reply, engineVars>>

\* Seeded fault: the goroutine goes on after it reported an error.
FailGoesOn(c) ==
  /\ at[c] = "error"
  /\ Emit(c, "error", "complete")
  /\ UNCHANGED <<provider, known, request, reply, engineVars>>

Fail(c) ==
  /\ at[c] = "error"
  /\ Emit(c, "error", "return")
  /\ UNCHANGED <<provider, known, request, reply, engineVars>>

Close(c) ==
  /\ at[c] = "return"
  /\ Goto(c, "closed")
  /\ UNCHANGED <<provider, known, request, reply, emitted, engineVars>>

SessionStep(c) ==
  \/ Start(c) \/ Report(c) \/ DecodeFails(c) \/ Record(c)
  \/ Complete(c) \/ Fail(c) \/ Close(c)

-----------------------------------------------------------------------------
(* The engine's loop over model passes.                                    *)

TurnOver(t) == pass' = [pass EXCEPT ![t] = 0]

Running(c) == pass[c[1]] = c[2]
Called(c) == \E i \in 1..taken[c] : emitted[c][i] = "tool_call"

\* An error event ends the turn, with the stream undrained.
Read(c) ==
  /\ Running(c) /\ taken[c] < Len(emitted[c])
  /\ taken' = [taken EXCEPT ![c] = @ + 1]
  /\ IF emitted[c][taken'[c]] = "error" THEN TurnOver(c[1]) ELSE UNCHANGED pass
  /\ UNCHANGED <<sessionVars, conv, ctxDone>>

StreamClosed(c) == Running(c) /\ at[c] = "closed" /\ taken[c] = Len(emitted[c])

\* A stream without calls ends the turn, and so does the limit of passes.
LastPass(c) ==
  /\ StreamClosed(c) /\ (~Called(c) \/ c[2] = MaxPasses)
  /\ TurnOver(c[1])
  /\ UNCHANGED <<sessionVars, conv, taken, ctxDone>>

\* Otherwise the calls are executed and what was said goes into the next request.
NextPass(c) ==
  /\ StreamClosed(c) /\ Called(c) /\ c[2] < MaxPasses /\ c[1] \notin ctxDone
  /\ conv' = [conv EXCEPT ![c[1]] = @ \o Answer(c) \o <<Message(c, "tool")>>]
  /\ pass' = [pass EXCEPT ![c[1]] = c[2] + 1]
  /\ UNCHANGED <<sessionVars, taken, ctxDone>>

\* The session refuses the pass, or the engine sees the context.
Interrupted(c) ==
  /\ Running(c) /\ c[1] \in ctxDone
  /\ at[c] # "idle"
  /\ TurnOver(c[1])
  /\ UNCHANGED <<sessionVars, conv, taken, ctxDone>>

CancelContext(t) ==
  /\ t \in Cancellable \ ctxDone /\ pass[t] # 0
  /\ ctxDone' = ctxDone \cup {t}
  /\ UNCHANGED <<sessionVars, conv, pass, taken>>

Terminated ==
  /\ \A t \in Turns : pass[t] = 0
  /\ \A c \in Passes : at[c] \in {"idle", "refused", "closed"}
  /\ UNCHANGED vars

Next ==
  \/ \E c \in Passes :
       \/ StreamTurn(c) \/ AskFails(c) \/ AskRefused(c) \/ Ask(c) \/ SessionStep(c)
       \/ Read(c) \/ LastPass(c) \/ NextPass(c) \/ Interrupted(c)
  \/ \E t \in Turns : CancelContext(t)
  \/ Terminated

Spec == Init /\ [][Next]_vars

\* The goroutines run on, and the HTTP client gives a request up with its context;
\* the provider need not answer and nobody need read.
Fairness ==
  \A c \in Passes : WF_vars(SessionStep(c)) /\ WF_vars(c[1] \in ctxDone /\ AskFails(c))

FairSpec == Spec /\ Fairness

-----------------------------------------------------------------------------
(* Properties.                                                             *)

\* Types, and the capacity of the event channel.
TypeOK ==
  /\ provider \in Providers
  /\ at \in [Passes -> {"idle", "refused", "start", "ask", "report", "complete", "error",
                      "return", "closed"}]
  /\ pass \in [Turns -> 0..MaxPasses]
  /\ reply \in [Passes -> Replies \cup {<<>>}]
  /\ ctxDone \in SUBSET Turns
  /\ \A c \in Passes : taken[c] \in 0..Len(emitted[c]) /\ Len(emitted[c]) - taken[c] <= EventCap

\* What the pass of a turn said and was told, as the session remembers it.
Exchange(c) == SubSeq(conv[c[1]], 1, 2 * c[2] - 1) \o Answer(c)

InOnePiece(s, part) == \E i \in 0..(Len(s) - Len(part)) : SubSeq(s, i + 1, i + Len(part)) = part

Has(c, kind) == \E i \in 1..Len(emitted[c]) : emitted[c][i] = kind

(***************************************************************************)
(* A pass that was reported as completed is in the history, in one piece,  *)
(* whatever turns share the session: the request after it sends it along.  *)
(* anthropic/session.go:236-262.                                           *)
(***************************************************************************)
CompletedIsKnown ==
  \A c \in Passes : provider = "anthropic" /\ Has(c, "completed") => InOnePiece(known, Exchange(c))

(***************************************************************************)
(* A pass that failed, was given up before all of its reply was reported,  *)
(* or has not come to its end yet, has left nothing in the history: one    *)
(* prompt of a turn for each of its passes before.                         *)
(* anthropic/session.go:133-153, 200-234.                                  *)
(***************************************************************************)
Unfinished(c) == at[c] \in {"start", "ask", "report", "error"}
GivenUp(c) == at[c] \in {"refused", "return", "closed"} /\ ~AllReported(c)

FailedIsForgotten ==
  \A c \in Passes :
    provider = "anthropic" /\ (Unfinished(c) \/ GivenUp(c) \/ Has(c, "error"))
      => Cardinality({i \in 1..Len(known) : known[i] = User(c[1])}) < c[2]

\* A stream whose context is cancelled is closed, wherever its goroutine stands and
\* although nobody reads any more.
CancelEndsStream ==
  \A c \in Passes : at[c] # "idle" /\ c[1] \in ctxDone ~> at[c] \in {"closed", "refused"}

(***************************************************************************)
(* Each stream keeps the promise the engine's own stream makes: started    *)
(* first, nothing after the terminal event, and closed only after it or    *)
(* because of the context.                                                 *)
(***************************************************************************)
Own(kinds) == [i \in DOMAIN kinds |-> [kind |-> kinds[i], own |-> TRUE]]

Stream(c) == INSTANCE TurnStream WITH
  log <- Own(emitted[c]), closed <- at[c] = "closed", cancelled <- c[1] \in ctxDone

ImplementsTurnStream ==
  /\ \A c \in Passes : Stream(c)!Init
  /\ [][\A c \in Passes : [Stream(c)!Next]_(Stream(c)!vars)]_vars

(***************************************************************************)
(* What the session's test says of the second request of a tool cycle: it  *)
(* sends the prompt, the tool use and the result, each once                *)
(* (anthropic/session_test.go:257, openai/session_test.go:274).            *)
(***************************************************************************)
SentOnce ==
  \A c \in Passes : \A i, j \in 1..Len(request[c]) : request[c][i] = request[c][j] => i = j
=============================================================================
