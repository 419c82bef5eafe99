----------------------------- MODULE McpClient -----------------------------
(***************************************************************************)
(* mcp.Client over a transport: callers of request, the one readLoop that  *)
(* correlates what arrives with the requests pending, Close, the reader of *)
(* Messages, and a server that answers in any order, more than once, late  *)
(* or never, and sends messages of its own.                                *)
(*                                                                         *)
(* A call is named by the id nextID gives its request.                     *)
(***************************************************************************)
EXTENDS Naturals, Sequences, FiniteSets

CONSTANTS
  NumCalls,         \* requests made
  NotesCap,         \* capacity of the notifications channel
  ServerIds,        \* ids the server gives requests of its own
  MaxMessages       \* bound: messages the server sends

ASSUME McpAssumption ==
  NumCalls \in Nat /\ NotesCap \in Nat /\ MaxMessages \in Nat /\ ServerIds \subseteq Nat

Calls == 1..NumCalls

VARIABLES
  \* the callers of request
  pc,               \* where each stands
  answer,           \* what each returned with
  ctxDone,          \* callers whose context is done
  \* the client
  pending,          \* keys of the pending map
  reply,            \* state of the reply channel of each call
  closed,
  notes,            \* buffered in the notifications channel
  notesClosed,
  \* readLoop and Close
  reader,           \* where readLoop stands
  message, target,  \* what it has in hand, and the call it will deliver it to
  closer,
  \* the transport and the server behind it
  asked,            \* requests the server has received
  wire,             \* messages on their way to the client
  sentCount,
  broken            \* Recv returns an error once the wire is empty

callVars == <<pc, answer, ctxDone>>
clientVars == <<pending, reply, closed, notes, notesClosed>>
loopVars == <<reader, message, target>>
serverVars == <<asked, wire, sentCount, broken>>
vars == <<callVars, clientVars, loopVars, closer, serverVars>>

\* A notification has no id; a server's request has one of its own.
Message == [kind : {"response", "request"}, id : Nat] \cup [kind : {"notification"}, id : {0}]
NoMessage == [kind |-> "notification", id |-> 0]

Answers == Message \cup [kind : {"none", "closed", "not_sent", "ctx"}, id : {0}]
Answer(kind) == [kind |-> kind, id |-> 0]

Init ==
  /\ pc = [c \in Calls |-> "idle"]
  /\ answer = [c \in Calls |-> Answer("none")]
  /\ ctxDone = {}
  /\ pending = {}
  /\ reply = [c \in Calls |-> <<>>]
  /\ closed = FALSE
  /\ notes = <<>> /\ notesClosed = FALSE
  /\ reader = "recv" /\ message = NoMessage /\ target = 0
  /\ closer = "idle"
  /\ asked = {} /\ wire = <<>> /\ sentCount = 0 /\ broken = FALSE

\* A reply channel holds at most one message; this marks one that was closed.
ClosedReply == <<NoMessage>>
IsClosed(c) == reply[c] = ClosedReply

Return(c, a) ==
  /\ pc' = [pc EXCEPT ![c] = "done"]
  /\ answer' = [answer EXCEPT ![c] = a]
  /\ UNCHANGED ctxDone

-----------------------------------------------------------------------------
(* request.                                                                *)

AddPending(c) ==
  /\ pending' = pending \cup {c}
  /\ pc' = [pc EXCEPT ![c] = "send"]
  /\ UNCHANGED <<answer, ctxDone>>

\* Seeded fault: closed is not looked at.
RegisterUnchecked(c) ==
  /\ pc[c] = "idle"
  /\ AddPending(c)
  /\ UNCHANGED <<reply, closed, notes, notesClosed, loopVars, closer, serverVars>>

Register(c) ==
  /\ pc[c] = "idle"
  /\ \/ closed /\ Return(c, Answer("closed")) /\ UNCHANGED pending
     \/ ~closed /\ AddPending(c)
  /\ UNCHANGED <<reply, closed, notes, notesClosed, loopVars, closer, serverVars>>

SendRequest(c) ==
  /\ pc[c] = "send" /\ ~broken
  /\ asked' = asked \cup {c}
  /\ pc' = [pc EXCEPT ![c] = "wait"]
  /\ UNCHANGED <<answer, ctxDone, clientVars, loopVars, closer, wire, sentCount, broken>>

\* The parameters cannot be encoded, or the transport refuses the message.
SendFails(c) ==
  /\ pc[c] = "send"
  /\ pending' = pending \ {c}
  /\ Return(c, Answer("not_sent"))
  /\ UNCHANGED <<reply, closed, notes, notesClosed, loopVars, closer, serverVars>>

TakeReply(c) ==
  /\ pc[c] = "wait" /\ reply[c] # <<>>
  /\ Return(c, IF IsClosed(c) THEN Answer("closed") ELSE Head(reply[c]))
  /\ UNCHANGED <<clientVars, loopVars, closer, serverVars>>

GiveUp(c) ==
  /\ pc[c] = "wait" /\ c \in ctxDone
  /\ pending' = pending \ {c}
  /\ Return(c, Answer("ctx"))
  /\ UNCHANGED <<reply, closed, notes, notesClosed, loopVars, closer, serverVars>>

ContextDone(c) ==
  /\ c \notin ctxDone /\ pc[c] # "done"
  /\ ctxDone' = ctxDone \cup {c}
  /\ UNCHANGED <<pc, answer, clientVars, loopVars, closer, serverVars>>

-----------------------------------------------------------------------------
(* readLoop.                                                               *)

HasId == message.kind # "notification"

\* Seeded fault: answers are taken for those of the oldest request.
MatchOldest(m) == {c \in pending : \A d \in pending : c <= d}

\* The pending call that the id of a message names, whoever sent the message.
Match(m) == {c \in pending : c = m.id}

Recv ==
  /\ reader = "recv" /\ wire # <<>>
  /\ message' = Head(wire)
  /\ wire' = Tail(wire)
  /\ reader' = "match"
  /\ UNCHANGED <<callVars, clientVars, target, closer, asked, sentCount, broken>>

\* Seeded fault: the entry stays in the map.
ClaimKeep(c) ==
  /\ reader' = "deliver" /\ target' = c
  /\ UNCHANGED pending

Claim(c) ==
  /\ pending' = pending \ {c}
  /\ reader' = "deliver" /\ target' = c

\* One section under the mutex: closed is read, the entry looked up and deleted.
Correlate ==
  /\ reader = "match"
  /\ \/ HasId /\ \E c \in Match(message) : Claim(c)
     \/ HasId /\ closed /\ reader' = "done" /\ UNCHANGED <<pending, target>>
     \/ /\ HasId => ~closed /\ Match(message) = {}
        /\ reader' = "publish"
        /\ UNCHANGED <<pending, target>>
  /\ UNCHANGED <<callVars, reply, closed, notes, notesClosed, message, closer, serverVars>>

NextMessage == /\ reader' = "recv" /\ message' = NoMessage /\ target' = 0

Deliver ==
  /\ reader = "deliver"
  /\ reply' = [reply EXCEPT ![target] = <<message>>]
  /\ NextMessage
  /\ UNCHANGED <<callVars, pending, closed, notes, notesClosed, closer, serverVars>>

\* Seeded fault: the channel has no bound.
RoomAlways == ~notesClosed

Room == Len(notes) < NotesCap /\ ~notesClosed

\* A message nobody waits for: dropped when the channel is full, and when it
\* is closed (the panic of the send is recovered).
Publish ==
  /\ reader = "publish"
  /\ notes' = IF Room THEN Append(notes, message) ELSE notes
  /\ NextMessage
  /\ UNCHANGED <<callVars, pending, reply, closed, notesClosed, closer, serverVars>>

\* Seeded fault: the map is emptied, the channels are left open.
ForgetPending == pending' = {} /\ UNCHANGED reply

ClosePending ==
  /\ reply' = [c \in Calls |-> IF c \in pending THEN ClosedReply ELSE reply[c]]
  /\ pending' = {}

\* The shared part of failPending and of Close: closed, and every entry of the
\* map closed and deleted, in one section under the mutex.
CloseCalls ==
  /\ closed' = TRUE
  /\ ClosePending

\* failPending closes the notifications under the mutex, and leaves them to
\* Close when Close came first.
RecvError ==
  /\ reader = "recv" /\ wire = <<>> /\ broken
  /\ reader' = "done"
  /\ \/ closed /\ UNCHANGED clientVars
     \/ ~closed /\ CloseCalls /\ notesClosed' = TRUE /\ UNCHANGED notes
  /\ UNCHANGED <<callVars, message, target, closer, serverVars>>

-----------------------------------------------------------------------------
(* Close, and the reader of Messages.                                      *)

CloseClient ==
  /\ closer = "idle"
  /\ CloseCalls
  /\ closer' = "notes"
  /\ UNCHANGED <<callVars, notes, notesClosed, loopVars, serverVars>>

CloseNotes ==
  /\ closer = "notes"
  /\ notesClosed' = TRUE
  /\ closer' = "transport"
  /\ UNCHANGED <<callVars, pending, reply, closed, notes, loopVars, serverVars>>

\* What was still on its way may be lost, the last messages first.
Cut == \E n \in 0..Len(wire) : wire' = SubSeq(wire, 1, n)

CloseTransport ==
  /\ closer = "transport"
  /\ broken' = TRUE /\ Cut
  /\ closer' = "done"
  /\ UNCHANGED <<callVars, clientVars, loopVars, asked, sentCount>>

TakeNote ==
  /\ notes # <<>>
  /\ notes' = Tail(notes)
  /\ UNCHANGED <<callVars, pending, reply, closed, notesClosed, loopVars, closer, serverVars>>

-----------------------------------------------------------------------------
(* The server behind the transport.                                        *)

Sends(m) ==
  /\ ~broken /\ sentCount < MaxMessages
  /\ wire' = Append(wire, m)
  /\ sentCount' = sentCount + 1
  /\ UNCHANGED <<callVars, clientVars, loopVars, closer, asked, broken>>

\* Any request, in any order, and again.
Respond(c) == c \in asked /\ Sends([kind |-> "response", id |-> c])

ServerRequest == \E i \in ServerIds : Sends([kind |-> "request", id |-> i])

ServerNotify == Sends(NoMessage)

Dies ==
  /\ ~broken
  /\ broken' = TRUE /\ Cut
  /\ UNCHANGED <<callVars, clientVars, loopVars, closer, asked, sentCount>>

-----------------------------------------------------------------------------
Caller(c) == Register(c) \/ SendRequest(c) \/ SendFails(c) \/ TakeReply(c) \/ GiveUp(c)

Reader == Recv \/ Correlate \/ Deliver \/ Publish \/ RecvError

Server == ServerRequest \/ ServerNotify \/ Dies \/ \E c \in Calls : Respond(c)

AllDone == (\A c \in Calls : pc[c] = "done") /\ reader = "done" /\ UNCHANGED vars

Next ==
  \/ \E c \in Calls : Caller(c) \/ ContextDone(c)
  \/ Reader
  \/ CloseClient \/ CloseNotes \/ CloseTransport
  \/ TakeNote
  \/ Server
  \/ AllDone

Spec == Init /\ [][Next]_vars

\* A caller that waits and readLoop run on; nobody has to call, to answer,
\* to close or to read, and Send need not return: the one of StdioTransport
\* holds its mutex in a write that looks at no context.
Fairness ==
  /\ \A c \in Calls : WF_vars(TakeReply(c) \/ GiveUp(c))
  /\ WF_vars(Reader)

FairSpec == Spec /\ Fairness

-----------------------------------------------------------------------------
TypeOK ==
  /\ pc \in [Calls -> {"idle", "send", "wait", "done"}]
  /\ answer \in [Calls -> Answers]
  /\ ctxDone \subseteq Calls /\ pending \subseteq Calls /\ asked \subseteq Calls
  /\ reply \in [Calls -> Seq(Message)]
  /\ \A c \in Calls : Len(reply[c]) <= 1
  /\ closed \in BOOLEAN /\ notesClosed \in BOOLEAN /\ broken \in BOOLEAN
  /\ notes \in Seq(Message) /\ Len(notes) <= NotesCap
  /\ reader \in {"recv", "match", "deliver", "publish", "done"}
  /\ message \in Message /\ target \in 0..NumCalls
  /\ closer \in {"idle", "notes", "transport", "done"}
  /\ wire \in Seq(Message) /\ sentCount \in 0..MaxMessages

(* What request returns came with the id of its own request, whatever the  *)
(* order the server answered in and however late or often.                 *)
AnswerIsMine == \A c \in Calls : answer[c].kind = "response" => answer[c].id = c

(* A call that waits can still be woken: it is in the map, where readLoop  *)
(* and Close find it, or its channel holds a message or is closed, or      *)
(* readLoop has taken it out of the map and is about to send.  The map     *)
(* holds nothing of a call that has returned: it cannot grow with every    *)
(* request that timed out.                                                 *)
NoLostWaiter ==
  /\ \A c \in Calls : pc[c] = "wait" =>
       c \in pending \/ reply[c] # <<>> \/ (reader = "deliver" /\ target = c)
  /\ \A c \in pending : pc[c] \in {"send", "wait"}

(* readLoop only ever sends on a channel that is empty and open: it would  *)
(* block on a full one, with every call of the client behind it, and the   *)
(* answer would be lost on a closed one.                                   *)
SafeDelivery == reader = "deliver" => target \in Calls /\ reply[target] = <<>>

(* A request that was sent ends once its context is done, the client is    *)
(* closed or the server has died, also while others are stuck in Send.     *)
(* One that is being sent ends then too if its Send returns, which Close   *)
(* and the context of the call do nothing about.                           *)
Over(c) == closed \/ broken \/ c \in ctxDone

SendReturns(c) == WF_vars(SendRequest(c) \/ SendFails(c))

EveryCallEnds ==
  \A c \in Calls :
    /\ pc[c] = "wait" /\ Over(c) ~> pc[c] = "done"
    /\ SendReturns(c) => (pc[c] = "send" /\ Over(c) ~> pc[c] = "done")

(* The comment of Messages: what a server sends of its own goes to         *)
(* Messages, so a call is never answered by it.                            *)
AnswersAreResponses == \A c \in Calls : answer[c].kind # "request"
=============================================================================
