-------------------------- MODULE McpClientProofs --------------------------
(***************************************************************************)
(* Proofs about McpClient for any number of calls, server messages and     *)
(* server ids, and any capacity of the notifications channel: types, and   *)
(* the correlation of replies with the calls that wait for them.  The last *)
(* part is about the names by which its tools are listed and called, those *)
(* of ToolCatalog, for any servers and tools.                              *)
(***************************************************************************)
EXTENDS McpClient, SequenceTheorems, WellFoundedInduction, TLAPS

Catalog == INSTANCE ToolCatalog

(***************************************************************************)
(* The correlation.  A reply channel has at any time at most one owner     *)
(* allowed to touch it: the map, while the call is pending, or readLoop,   *)
(* once it has taken the entry out.                                        *)
(***************************************************************************)
Owned ==
  /\ \A c \in pending : pc[c] \in {"send", "wait"} /\ reply[c] = <<>>
  /\ reader = "deliver" => /\ target \in Calls \ pending
                           /\ reply[target] = <<>>
                           /\ message.id = target
                           /\ pc[target] # "idle"

Replies ==
  /\ \A c \in Calls : pc[c] = "idle" => reply[c] = <<>>
  /\ \A c \in Calls : reply[c] \in {<<>>, ClosedReply} \/ Head(reply[c]).id = c
  /\ \A c \in Calls : pc[c] \in {"send", "wait"} =>
       c \in pending \/ reply[c] # <<>> \/ (reader = "deliver" /\ target = c)
  /\ AnswerIsMine

IInv == TypeOK /\ Owned /\ Replies

LEMMA Singleton ==
  ASSUME NEW S, NEW m \in S
  PROVE  <<m>> # <<>> /\ Head(<<m>>) = m /\ <<m>> \in Seq(S) /\ Len(<<m>>) = 1
OBVIOUS

LEMMA MessageFacts ==
  /\ NoMessage \in Message
  /\ ClosedReply # <<>> /\ ClosedReply \in Seq(Message) /\ Len(ClosedReply) = 1
<1>1. NoMessage \in Message
  BY DEF NoMessage, Message
<1>. QED
  BY <1>1, Singleton DEF ClosedReply

LEMMA InvInit == Init => IInv
<1>. SUFFICES ASSUME Init PROVE IInv
  OBVIOUS
<1>1. Answer("none") \in Answers /\ Answer("none").kind = "none"
  BY DEF Answer, Answers
<1>2. TypeOK
  <2>1. /\ \A c \in Calls : reply[c] \in Seq(Message) /\ Len(reply[c]) <= 1
        /\ notes \in Seq(Message) /\ Len(notes) <= NotesCap /\ wire \in Seq(Message)
    BY McpAssumption DEF Init
  <2>2. reply \in [Calls -> Seq(Message)]
    BY <2>1 DEF Init
  <2>3. target \in 0..NumCalls /\ sentCount \in 0..MaxMessages
    BY McpAssumption DEF Init
  <2>4. pc \in [Calls -> {"idle", "send", "wait", "done"}] /\ answer \in [Calls -> Answers]
    BY <1>1 DEF Init
  <2>. QED
    BY <2>1, <2>2, <2>3, <2>4, MessageFacts DEF Init, TypeOK
<1>3. Owned /\ Replies
  BY <1>1 DEF Init, Owned, Replies, AnswerIsMine
<1>. QED
  BY <1>2, <1>3 DEF IInv

-----------------------------------------------------------------------------
(* Types.                                                                  *)

LEMMA CallerTypes ==
  ASSUME TypeOK, NEW c \in Calls, Caller(c) \/ ContextDone(c)
  PROVE  TypeOK'
<1>1. \A k \in {"none", "closed", "not_sent", "ctx"} : Answer(k) \in Answers
  BY DEF Answer, Answers
<1>2. ASSUME reply[c] # <<>> PROVE Head(reply[c]) \in Answers
  <2>1. reply[c] \in Seq(Message)
    BY DEF TypeOK
  <2>2. Head(reply[c]) \in Message
    BY <1>2, <2>1
  <2>. QED
    BY <2>2 DEF Answers
<1>3. CASE Register(c)
  BY <1>1, <1>3 DEF Register, AddPending, Return, TypeOK, loopVars, serverVars
<1>4. CASE SendRequest(c)
  BY <1>4 DEF SendRequest, TypeOK, clientVars, loopVars
<1>5. CASE SendFails(c)
  BY <1>1, <1>5 DEF SendFails, Return, TypeOK, loopVars, serverVars
<1>6. CASE TakeReply(c)
  BY <1>1, <1>2, <1>6 DEF TakeReply, Return, TypeOK, clientVars, loopVars, serverVars
<1>7. CASE GiveUp(c)
  BY <1>1, <1>7 DEF GiveUp, Return, TypeOK, loopVars, serverVars
<1>8. CASE ContextDone(c)
  BY <1>8 DEF ContextDone, TypeOK, clientVars, loopVars, serverVars
<1>. QED
  BY <1>3, <1>4, <1>5, <1>6, <1>7, <1>8 DEF Caller

LEMMA PendingTypes ==
  ASSUME TypeOK, ClosePending
  PROVE  /\ pending' = {}
         /\ reply' \in [Calls -> Seq(Message)]
         /\ \A c \in Calls : Len(reply'[c]) <= 1
<1>1. pending' = {} /\ reply' = [c \in Calls |-> IF c \in pending THEN ClosedReply ELSE reply[c]]
  BY DEF ClosePending
<1>2. \A c \in Calls : reply[c] \in Seq(Message) /\ Len(reply[c]) <= 1
  BY DEF TypeOK
<1>3. \A c \in Calls : reply'[c] \in Seq(Message) /\ Len(reply'[c]) <= 1
  <2>1. TAKE c \in Calls
  <2>2. reply'[c] = ClosedReply \/ reply'[c] = reply[c]
    BY <1>1
  <2>3. CASE reply'[c] = ClosedReply
    <3>1. Len(ClosedReply) <= 1 /\ ClosedReply \in Seq(Message)
      BY MessageFacts
    <3>. QED
      BY <2>3, <3>1
  <2>4. CASE reply'[c] = reply[c]
    BY <1>2, <2>4
  <2>. QED
    BY <2>2, <2>3, <2>4
<1>. QED
  BY <1>1, <1>3

LEMMA ReaderTypes ==
  ASSUME TypeOK, Owned, Reader
  PROVE  TypeOK'
<1>1. CASE Recv
  <2>1. wire \in Seq(Message) /\ wire # <<>>
    BY <1>1 DEF Recv, TypeOK
  <2>2. Head(wire) \in Message /\ Tail(wire) \in Seq(Message)
    BY <2>1
  <2>. QED
    BY <1>1, <2>2 DEF Recv, TypeOK, callVars, clientVars
<1>2. CASE Correlate
  <2>1. /\ pending' \subseteq pending
        /\ reader' \in {"deliver", "done", "publish"}
        /\ target' \in pending \/ target' = target
    BY <1>2 DEF Correlate, Claim, Match
  <2>2. pending' \subseteq Calls /\ target' \in 0..NumCalls
    <3>1. pending \subseteq Calls /\ target \in 0..NumCalls
      BY DEF TypeOK
    <3>2. Calls \subseteq 0..NumCalls
      BY McpAssumption DEF Calls
    <3>. QED
      BY <2>1, <3>1, <3>2
  <2>. QED
    BY <1>2, <2>1, <2>2 DEF Correlate, TypeOK, callVars, serverVars
<1>3. CASE Deliver
  <2>1. target \in Calls /\ message \in Message
    BY <1>3 DEF Deliver, Owned, TypeOK
  <2>2. <<message>> \in Seq(Message) /\ Len(<<message>>) = 1
    BY <2>1, Singleton
  <2>. QED
    BY <1>3, <2>1, <2>2, MessageFacts, McpAssumption
       DEF Deliver, NextMessage, TypeOK, callVars, serverVars
<1>4. CASE Publish
  <2>1. notes' \in Seq(Message) /\ Len(notes') <= NotesCap
    <3>1. notes \in Seq(Message) /\ Len(notes) <= NotesCap /\ message \in Message
      BY DEF TypeOK
    <3>2. CASE Room
      BY <1>4, <3>1, <3>2, McpAssumption DEF Publish, Room
    <3>3. CASE ~Room
      BY <1>4, <3>1, <3>3 DEF Publish
    <3>. QED
      BY <3>2, <3>3
  <2>. QED
    BY <1>4, <2>1, MessageFacts, McpAssumption
       DEF Publish, NextMessage, TypeOK, callVars, serverVars
<1>5. CASE RecvError
  BY <1>5, PendingTypes DEF RecvError, CloseCalls, TypeOK, callVars, clientVars, serverVars
<1>. QED
  BY <1>1, <1>2, <1>3, <1>4, <1>5 DEF Reader

LEMMA CutTypes ==
  ASSUME wire \in Seq(Message), Cut
  PROVE  wire' \in Seq(Message)
BY DEF Cut

LEMMA RestTypes ==
  ASSUME TypeOK, CloseClient \/ CloseNotes \/ CloseTransport \/ TakeNote \/ Server
  PROVE  TypeOK'
<1>1. CASE CloseClient
  BY <1>1, PendingTypes DEF CloseClient, CloseCalls, TypeOK, callVars, loopVars, serverVars
<1>2. CASE CloseNotes
  BY <1>2 DEF CloseNotes, TypeOK, callVars, loopVars, serverVars
<1>3. CASE CloseTransport
  BY <1>3, CutTypes DEF CloseTransport, TypeOK, callVars, clientVars, loopVars
<1>4. CASE TakeNote
  <2>1. notes \in Seq(Message) /\ notes # <<>> /\ notes' = Tail(notes)
    BY <1>4 DEF TakeNote, TypeOK
  <2>2. notes' \in Seq(Message) /\ Len(notes') = Len(notes) - 1 /\ Len(notes) \in Nat
    BY <2>1
  <2>3. Len(notes') <= NotesCap
    BY <2>2, McpAssumption DEF TypeOK
  <2>. QED
    BY <1>4, <2>2, <2>3 DEF TakeNote, TypeOK, callVars, loopVars, serverVars
<1>5. ASSUME NEW m \in Message, Sends(m) PROVE TypeOK'
  <2>1. wire' \in Seq(Message)
    BY <1>5 DEF Sends, TypeOK
  <2>2. sentCount' \in 0..MaxMessages
    BY <1>5, McpAssumption DEF Sends, TypeOK
  <2>. QED
    BY <1>5, <2>1, <2>2 DEF Sends, TypeOK, callVars, clientVars, loopVars
<1>6. CASE Dies
  BY <1>6, CutTypes DEF Dies, TypeOK, callVars, clientVars, loopVars
<1>7. CASE ServerRequest \/ ServerNotify \/ \E c \in Calls : Respond(c)
  <2>1. \A i \in ServerIds : [kind |-> "request", id |-> i] \in Message
    BY McpAssumption DEF Message
  <2>2. \A c \in Calls : [kind |-> "response", id |-> c] \in Message
    BY McpAssumption DEF Message, Calls
  <2>. QED
    BY <1>5, <1>7, <2>1, <2>2, MessageFacts DEF ServerRequest, ServerNotify, Respond
<1>. QED
  BY <1>1, <1>2, <1>3, <1>4, <1>6, <1>7 DEF Server

-----------------------------------------------------------------------------
(* The correlation, step by step.                                          *)

corrVars == <<pc, answer, pending, reply, loopVars>>

LEMMA QuietStep ==
  ASSUME Owned, Replies, UNCHANGED corrVars
  PROVE  Owned' /\ Replies'
BY DEF Owned, Replies, AnswerIsMine, corrVars, loopVars

\* A step of readLoop that delivers nothing and takes nothing out of the map.
LEMMA IdleReader ==
  ASSUME Owned, Replies, UNCHANGED <<pc, answer, pending, reply>>,
         reader # "deliver", reader' # "deliver"
  PROVE  Owned' /\ Replies'
BY DEF Owned, Replies, AnswerIsMine

LEMMA CallerStep ==
  ASSUME TypeOK, Owned, Replies, NEW c \in Calls, Caller(c) \/ ContextDone(c)
  PROVE  Owned' /\ Replies'
<1>. DEFINE Returned(a) ==
       /\ pc' = [pc EXCEPT ![c] = "done"]
       /\ answer' = [answer EXCEPT ![c] = a]
<1>1. pc \in [Calls -> {"idle", "send", "wait", "done"}] /\ answer \in [Calls -> Answers]
  BY DEF TypeOK
\* A call returns once nothing can find it in the map.
<1>2. ASSUME NEW a, Returned(a), a.kind = "response" => a.id = c,
             pending' = pending \ {c}, pc[c] # "idle",
             UNCHANGED <<reply, loopVars>>
      PROVE  Owned' /\ Replies'
  BY <1>1, <1>2 DEF Owned, Replies, AnswerIsMine, loopVars
<1>3. \A k \in {"closed", "not_sent", "ctx"} : Answer(k).kind # "response"
  BY DEF Answer
<1>4. CASE Register(c)
  <2>1. pc[c] = "idle" /\ UNCHANGED <<reply, loopVars>>
    BY <1>4 DEF Register
  <2>2. CASE closed
    <3>1. Returned(Answer("closed")) /\ pending' = pending
      BY <1>4, <2>2 DEF Register, Return, AddPending
    <3>2. c \notin pending
      BY <2>1 DEF Owned
    <3>3. pc' = [pc EXCEPT ![c] = "done"] /\ answer'[c].kind # "response"
      BY <1>1, <1>3, <3>1
    <3>4. AnswerIsMine'
      BY <1>1, <3>1, <3>3 DEF Replies, AnswerIsMine
    <3>. QED
      BY <1>1, <2>1, <3>1, <3>2, <3>3, <3>4 DEF Owned, Replies, loopVars
  <2>3. CASE ~closed
    <3>1. /\ pending' = pending \cup {c} /\ answer' = answer
          /\ pc' = [pc EXCEPT ![c] = "send"]
      BY <1>4, <2>3 DEF Register, AddPending
    <3>. QED
      BY <1>1, <2>1, <3>1 DEF Owned, Replies, AnswerIsMine, loopVars
  <2>. QED
    BY <2>2, <2>3
<1>5. CASE SendRequest(c)
  <2>1. /\ pc[c] = "send" /\ pc' = [pc EXCEPT ![c] = "wait"] /\ answer' = answer
        /\ UNCHANGED <<pending, reply, loopVars>>
    BY <1>5 DEF SendRequest, clientVars
  <2>. QED
    BY <1>1, <2>1 DEF Owned, Replies, AnswerIsMine, loopVars
<1>6. CASE SendFails(c)
  BY <1>2, <1>3, <1>6 DEF SendFails, Return
<1>7. CASE TakeReply(c)
  <2>1. pc[c] = "wait" /\ reply[c] # <<>> /\ UNCHANGED <<pending, reply, loopVars>>
    BY <1>7 DEF TakeReply, clientVars
  <2>2. PICK a : Returned(a) /\ a = IF IsClosed(c) THEN Answer("closed") ELSE Head(reply[c])
    BY <1>7 DEF TakeReply, Return
  <2>3. a.kind = "response" => a.id = c
    BY <1>3, <2>1, <2>2 DEF Replies, IsClosed
  <2>4. c \notin pending
    BY <2>1 DEF Owned
  <2>5. pending' = pending \ {c}
    BY <2>1, <2>4
  <2>. QED
    BY <1>2, <2>1, <2>2, <2>3, <2>5
<1>8. CASE GiveUp(c)
  BY <1>2, <1>3, <1>8 DEF GiveUp, Return
<1>9. CASE ContextDone(c)
  BY <1>9, QuietStep DEF ContextDone, corrVars, clientVars
<1>. QED
  BY <1>4, <1>5, <1>6, <1>7, <1>8, <1>9 DEF Caller

LEMMA ReaderStep ==
  ASSUME TypeOK, Owned, Replies, Reader
  PROVE  Owned' /\ Replies'
<1>1. CASE Recv
  BY <1>1, IdleReader DEF Recv, callVars, clientVars
<1>2. CASE Correlate
  <2>1. reader = "match" /\ UNCHANGED <<pc, answer, reply, message>>
    BY <1>2 DEF Correlate, callVars
  <2>2. CASE reader' \in {"done", "publish"}
    BY <1>2, <2>1, <2>2, IdleReader DEF Correlate, Claim
  <2>3. ASSUME NEW c \in Match(message), Claim(c)
        PROVE  Owned' /\ Replies'
    <3>1. /\ pending' = pending \ {c} /\ reader' = "deliver" /\ target' = c
          /\ c \in pending /\ c \in Calls /\ message.id = c
      BY <2>3 DEF Claim, Match, TypeOK
    <3>. QED
      BY <2>1, <3>1 DEF Owned, Replies, AnswerIsMine
  <2>. QED
    BY <1>2, <2>2, <2>3 DEF Correlate
<1>3. CASE Deliver
  <2>1. /\ reader = "deliver" /\ reply' = [reply EXCEPT ![target] = <<message>>]
        /\ reader' = "recv" /\ UNCHANGED <<pc, answer, pending>>
    BY <1>3 DEF Deliver, NextMessage, callVars
  <2>2. /\ target \in Calls \ pending /\ message.id = target /\ pc[target] # "idle"
        /\ reply \in [Calls -> Seq(Message)] /\ message \in Message
    BY <2>1 DEF Owned, TypeOK
  <2>3. <<message>> # <<>> /\ Head(<<message>>) = message
    BY <2>2, Singleton
  <2>4. /\ reply'[target] = <<message>>
        /\ \A c \in Calls : c # target => reply'[c] = reply[c]
    BY <2>1, <2>2
  <2>5. pending \subseteq Calls
    BY DEF TypeOK
  <2>6. Owned'
    BY <2>1, <2>2, <2>4, <2>5 DEF Owned
  <2>7. \A c \in Calls : reply'[c] \in {<<>>, ClosedReply} \/ Head(reply'[c]).id = c
    BY <2>2, <2>3, <2>4 DEF Replies
  <2>8. Replies'
    BY <2>1, <2>2, <2>3, <2>4, <2>7 DEF Replies, AnswerIsMine
  <2>. QED
    BY <2>6, <2>8
<1>4. CASE Publish
  BY <1>4, IdleReader DEF Publish, NextMessage, callVars
<1>5. CASE RecvError /\ closed
  BY <1>5, IdleReader DEF RecvError, callVars, clientVars
<1>6. CASE RecvError /\ ~closed
  <2>1. /\ reader = "recv" /\ reader' = "done" /\ ClosePending
        /\ UNCHANGED <<pc, answer>>
    BY <1>6 DEF RecvError, CloseCalls, callVars
  <2>. QED
    BY <2>1, MessageFacts DEF ClosePending, Owned, Replies, AnswerIsMine, TypeOK
<1>. QED
  BY <1>1, <1>2, <1>3, <1>4, <1>5, <1>6 DEF Reader

LEMMA CloseStep ==
  ASSUME TypeOK, Owned, Replies, CloseClient
  PROVE  Owned' /\ Replies'
<1>1. ClosePending /\ UNCHANGED <<pc, answer, loopVars>>
  BY DEF CloseClient, CloseCalls, callVars
<1>. QED
  BY <1>1, MessageFacts DEF ClosePending, Owned, Replies, AnswerIsMine, TypeOK, loopVars

LEMMA InvNext == IInv /\ [Next]_vars => IInv'
<1>. SUFFICES ASSUME IInv, [Next]_vars PROVE IInv'
  OBVIOUS
<1>. USE DEF IInv
<1>1. ASSUME NEW c \in Calls, Caller(c) \/ ContextDone(c) PROVE IInv'
  BY <1>1, CallerTypes, CallerStep
<1>2. CASE Reader
  BY <1>2, ReaderTypes, ReaderStep
<1>3. CASE CloseClient
  BY <1>3, RestTypes, CloseStep
<1>4. CASE CloseNotes \/ CloseTransport \/ TakeNote \/ Server
  <2>1. UNCHANGED corrVars
    BY <1>4 DEF CloseNotes, CloseTransport, TakeNote, Server, ServerRequest, ServerNotify,
       Respond, Dies, Sends, corrVars, callVars, clientVars
  <2>. QED
    BY <1>4, <2>1, RestTypes, QuietStep
<1>5. CASE UNCHANGED vars
  <2>1. TypeOK'
    BY <1>5 DEF TypeOK, vars, callVars, clientVars, loopVars, serverVars
  <2>2. UNCHANGED corrVars
    BY <1>5 DEF vars, corrVars, callVars, clientVars
  <2>. QED
    BY <2>1, <2>2, QuietStep
<1>. QED
  BY <1>1, <1>2, <1>3, <1>4, <1>5 DEF Next, AllDone

LEMMA InvAlways == Spec => []IInv
BY InvInit, InvNext, PTL DEF Spec

-----------------------------------------------------------------------------
(***************************************************************************)
(* Every variable keeps its type; the notifications channel stays within   *)
(* its capacity, and a reply channel never holds two messages.             *)
(***************************************************************************)
THEOREM TypeCorrect == Spec => []TypeOK
<1>1. IInv => TypeOK
  BY DEF IInv
<1>. QED
  BY <1>1, InvAlways, PTL

(***************************************************************************)
(* A response reaches the call whose request it answers, for servers that  *)
(* answer in any order, late or more than once.                            *)
(***************************************************************************)
THEOREM CorrelationCorrect == Spec => []AnswerIsMine
<1>1. IInv => AnswerIsMine
  BY DEF IInv, Replies
<1>. QED
  BY <1>1, InvAlways, PTL

(***************************************************************************)
(* No interleaving of request, readLoop and Close leaves a call waiting    *)
(* for a channel that nobody can find any more, or an entry of the map     *)
(* behind for a call that has returned.                                    *)
(***************************************************************************)
THEOREM WaitersAreFound == Spec => []NoLostWaiter
<1>1. IInv => NoLostWaiter
  BY DEF IInv, Replies, Owned, NoLostWaiter
<1>. QED
  BY <1>1, InvAlways, PTL

(***************************************************************************)
(* readLoop never blocks on a reply channel, and never sends on one that   *)
(* Close has closed, although it sends after it let go of the mutex.       *)
(***************************************************************************)
THEOREM DeliveryCorrect == Spec => []SafeDelivery
<1>1. IInv => SafeDelivery
  BY DEF IInv, Owned, SafeDelivery
<1>. QED
  BY <1>1, InvAlways, PTL

-----------------------------------------------------------------------------
(* The names of tools: a name is a sequence over any alphabet that has the *)
(* underscore and the prefix.                                              *)

\* The separator is where two underscores are.
LEMMA SepAtIs ==
  ASSUME NEW S, NEW name \in Seq(S), Catalog!Underscore \in S
  PROVE  \A i \in Int :
           i \in Catalog!SepAt(name) <=>
             i \in 1..(Len(name) - 1) /\ name[i] = Catalog!Underscore /\ name[i + 1] = Catalog!Underscore
<1>. SUFFICES ASSUME NEW i \in 1..(Len(name) - 1)
              PROVE  SubSeq(name, i, i + 1) = Catalog!Sep <=> name[i] = Catalog!Underscore /\ name[i + 1] = Catalog!Underscore
  BY DEF Catalog!SepAt
<1>1. Len(name) \in Nat
  OBVIOUS
<1>2. i \in Int /\ i + 1 \in Int /\ i <= i + 1 /\ (i + 1) - i + 1 = 2 /\ i + 1 - 1 = i
      /\ i + 2 - 1 = i + 1
  BY <1>1
<1>3. \A j \in i..(i + 1) : name[j] \in S
  BY <1>1, ElementOfSeq
<1>4. /\ SubSeq(name, i, i + 1) \in Seq(S) /\ Len(SubSeq(name, i, i + 1)) = 2
      /\ \A j \in 1..2 : SubSeq(name, i, i + 1)[j] = name[i + j - 1]
  BY <1>2, <1>3, SubSeqProperties
<1>5. SubSeq(name, i, i + 1)[1] = name[i] /\ SubSeq(name, i, i + 1)[2] = name[i + 1]
  BY <1>2, <1>4
<1>6. Catalog!Sep \in Seq(S) /\ Len(Catalog!Sep) = 2 /\ Catalog!Sep[1] = Catalog!Underscore /\ Catalog!Sep[2] = Catalog!Underscore
  BY DEF Catalog!Sep
<1>7. name[i] = Catalog!Underscore /\ name[i + 1] = Catalog!Underscore => SubSeq(name, i, i + 1) = Catalog!Sep
  <2>. SUFFICES ASSUME name[i] = Catalog!Underscore /\ name[i + 1] = Catalog!Underscore
                PROVE  SubSeq(name, i, i + 1) = Catalog!Sep
    OBVIOUS
  <2>1. \A j \in 1..2 : j = 1 \/ j = 2
    OBVIOUS
  <2>2. \A j \in 1..Len(SubSeq(name, i, i + 1)) : SubSeq(name, i, i + 1)[j] = Catalog!Sep[j]
    BY <1>4, <1>5, <1>6, <2>1
  <2>. QED
    BY <1>4, <1>6, <2>2, SeqEqual
<1>. QED
  BY <1>5, <1>6, <1>7

LEMMA SplitAt ==
  ASSUME NEW S, NEW name \in Seq(S), NEW i \in Catalog!SepAt(name),
         \A j \in Catalog!SepAt(name) : i <= j
  PROVE  Catalog!SplitFirst(name) = [found |-> TRUE, before |-> SubSeq(name, 1, i - 1),
                                     after |-> SubSeq(name, i + 2, Len(name))]
<1> DEFINE least == CHOOSE k \in Catalog!SepAt(name) : \A j \in Catalog!SepAt(name) : k <= j
<1>1. Catalog!SepAt(name) \subseteq Int
  BY DEF Catalog!SepAt
<1>2. least \in Catalog!SepAt(name) /\ \A j \in Catalog!SepAt(name) : least <= j
  OBVIOUS
<1>3. least = i
  BY <1>1, <1>2
<1>. QED
  BY <1>3 DEF Catalog!SplitFirst

\* A set of numbers has a least one.
LEMMA Least ==
  ASSUME NEW T, T \subseteq Nat, T # {}
  PROVE  \E i \in T : \A j \in T : i <= j
<1>1. PICK i \in T : \A j \in T : ~(<<j, i>> \in OpToRel(<, Nat))
  BY NatLessThanWellFounded, WFMin
<1>2. \A j \in T : ~(j < i)
  BY <1>1 DEF OpToRel
<1>. QED
  BY <1>2

\* Two names with a separator between them.
Joined(s, t) == s \o Catalog!Sep \o t

LEMMA JoinedIs ==
  ASSUME NEW S, Catalog!Underscore \in S, NEW s \in Seq(S), NEW t \in Seq(S)
  PROVE  /\ Joined(s, t) \in Seq(S) /\ Len(Joined(s, t)) = Len(s) + 2 + Len(t)
         /\ \A i \in 1..Len(s) : Joined(s, t)[i] = s[i]
         /\ Joined(s, t)[Len(s) + 1] = Catalog!Underscore
         /\ Joined(s, t)[Len(s) + 2] = Catalog!Underscore
         /\ \A i \in 1..Len(t) : Joined(s, t)[Len(s) + 2 + i] = t[i]
         /\ Len(s) \in Nat /\ Len(t) \in Nat
<1> DEFINE sep == Catalog!Sep
           first == s \o sep
<1>1. sep \in Seq(S) /\ Len(sep) = 2 /\ sep[1] = Catalog!Underscore /\ sep[2] = Catalog!Underscore
  BY DEF Catalog!Sep
<1>2. Len(s) \in Nat /\ Len(t) \in Nat
  BY LenProperties
<1> HIDE DEF sep
<1>3. /\ first \in Seq(S) /\ Len(first) = Len(s) + Len(sep)
      /\ \A i \in 1..Len(s) + Len(sep) : first[i] = IF i <= Len(s) THEN s[i] ELSE sep[i - Len(s)]
  BY <1>1, ConcatProperties
<1>4. /\ first \o t \in Seq(S) /\ Len(first \o t) = Len(first) + Len(t)
      /\ \A i \in 1..Len(first) + Len(t) :
           (first \o t)[i] = IF i <= Len(first) THEN first[i] ELSE t[i - Len(first)]
  BY <1>3, ConcatProperties
<1>5. Joined(s, t) = first \o t
  BY DEF Joined, sep
<1> HIDE DEF first
<1>6. \A i \in 1..Len(s) : (first \o t)[i] = s[i]
  <2>. SUFFICES ASSUME NEW i \in 1..Len(s) PROVE (first \o t)[i] = s[i]
    OBVIOUS
  <2>1. /\ i \in 1..Len(first) + Len(t) /\ i <= Len(first) /\ i \in 1..Len(s) + Len(sep)
        /\ i <= Len(s)
    BY <1>1, <1>2, <1>3
  <2>. QED
    BY <1>3, <1>4, <2>1
<1>7. ASSUME NEW k \in 1..2 PROVE (first \o t)[Len(s) + k] = Catalog!Underscore
  <2>1. /\ Len(s) + k \in 1..Len(first) + Len(t) /\ Len(s) + k <= Len(first)
        /\ Len(s) + k \in 1..Len(s) + Len(sep) /\ ~(Len(s) + k <= Len(s))
        /\ (Len(s) + k) - Len(s) = k
    BY <1>1, <1>2, <1>3
  <2>2. (first \o t)[Len(s) + k] = sep[k]
    BY <1>3, <1>4, <2>1
  <2>3. k = 1 \/ k = 2
    OBVIOUS
  <2>. QED
    BY <1>1, <2>2, <2>3
<1>8. \A i \in 1..Len(t) : (first \o t)[Len(s) + 2 + i] = t[i]
  <2>. SUFFICES ASSUME NEW i \in 1..Len(t) PROVE (first \o t)[Len(s) + 2 + i] = t[i]
    OBVIOUS
  <2>1. /\ Len(s) + 2 + i \in 1..Len(first) + Len(t) /\ ~(Len(s) + 2 + i <= Len(first))
        /\ (Len(s) + 2 + i) - Len(first) = i
    BY <1>1, <1>2, <1>3
  <2>. QED
    BY <1>4, <2>1
<1>. QED
  BY <1>1, <1>2, <1>3, <1>4, <1>5, <1>6, <1>7, <1>8

\* A name that a separator behind it does not run into.
Clean(s) == Catalog!SepAt(s) = {} /\ (s = <<>> \/ s[Len(s)] # Catalog!Underscore)

LEMMA SplitJoined ==
  ASSUME NEW S, Catalog!Underscore \in S, NEW s \in Seq(S), NEW t \in Seq(S)
  PROVE  /\ Clean(s) => Catalog!SplitFirst(Joined(s, t)) = [found |-> TRUE, before |-> s, after |-> t]
         /\ ~Clean(s) => Catalog!SplitFirst(Joined(s, t)).before # s
<1> DEFINE r == Joined(s, t)
           n == Len(s)
<1>0. /\ Joined(s, t) \in Seq(S) /\ Len(Joined(s, t)) = Len(s) + 2 + Len(t)
      /\ \A i \in 1..Len(s) : Joined(s, t)[i] = s[i]
      /\ Joined(s, t)[Len(s) + 1] = Catalog!Underscore
      /\ Joined(s, t)[Len(s) + 2] = Catalog!Underscore
      /\ \A i \in 1..Len(t) : Joined(s, t)[Len(s) + 2 + i] = t[i]
      /\ Len(s) \in Nat /\ Len(t) \in Nat
  BY JoinedIs
<1>1. /\ r \in Seq(S) /\ n \in Nat /\ Len(t) \in Nat /\ Len(r) = n + 2 + Len(t)
      /\ \A i \in 1..n : r[i] = s[i]
      /\ r[n + 1] = Catalog!Underscore /\ r[n + 2] = Catalog!Underscore
      /\ \A i \in 1..Len(t) : r[n + 2 + i] = t[i]
  BY <1>0
<1> HIDE DEF r
<1>2. \A i \in Int : i \in Catalog!SepAt(r) <=>
         i \in 1..(Len(r) - 1) /\ r[i] = Catalog!Underscore /\ r[i + 1] = Catalog!Underscore
  BY <1>1, SepAtIs
<1>3. \A i \in Int : i \in Catalog!SepAt(s) <=>
         i \in 1..(n - 1) /\ s[i] = Catalog!Underscore /\ s[i + 1] = Catalog!Underscore
  BY SepAtIs
<1>4. n + 1 \in Catalog!SepAt(r)
  BY <1>1, <1>2
<1>5. Catalog!SepAt(r) \subseteq Nat /\ Catalog!SepAt(s) \subseteq Int
  BY <1>1 DEF Catalog!SepAt
<1>6. ASSUME Clean(s) PROVE Catalog!SplitFirst(r) = [found |-> TRUE, before |-> s, after |-> t]
  <2>1. ASSUME NEW j \in Catalog!SepAt(r), j <= n PROVE FALSE
    <3>1. j \in Int /\ j \in 1..n /\ r[j] = Catalog!Underscore /\ r[j + 1] = Catalog!Underscore
          /\ s[j] = Catalog!Underscore
      BY <1>1, <1>2, <1>5, <2>1
    <3>2. CASE j = n
      <4>1. s # <<>>
        BY <3>1
      <4>. QED
        BY <1>6, <3>1, <3>2, <4>1 DEF Clean
    <3>3. CASE j # n
      <4>1. j \in 1..(n - 1) /\ j + 1 \in 1..n
        BY <1>1, <3>1, <3>3
      <4>2. s[j + 1] = Catalog!Underscore
        BY <1>1, <3>1, <4>1
      <4>3. j \in Catalog!SepAt(s)
        BY <1>3, <3>1, <4>1, <4>2
      <4>. QED
        BY <1>6, <4>3 DEF Clean
    <3>. QED
      BY <3>2, <3>3
  <2>2. \A j \in Catalog!SepAt(r) : n + 1 <= j
    BY <1>1, <1>5, <2>1
  <2>3. Catalog!SplitFirst(r) = [found |-> TRUE, before |-> SubSeq(r, 1, (n + 1) - 1),
                                 after |-> SubSeq(r, (n + 1) + 2, Len(r))]
    BY <1>1, <1>4, <2>2, SplitAt
  <2>4. SubSeq(r, 1, (n + 1) - 1) = s
    <3>1. (n + 1) - 1 = n /\ (1 <= n => n - 1 + 1 = n) /\ (~(1 <= n) => n = 0)
          /\ \A i \in 1..n : i \in 1..Len(r) /\ 1 + i - 1 = i
      BY <1>1
    <3>2. \A i \in 1..n : r[i] \in S
      BY <1>1, <3>1, ElementOfSeq
    <3>3. /\ SubSeq(r, 1, n) \in Seq(S)
          /\ Len(SubSeq(r, 1, n)) = IF 1 <= n THEN n - 1 + 1 ELSE 0
          /\ \A i \in 1..n - 1 + 1 : SubSeq(r, 1, n)[i] = r[1 + i - 1]
      BY <1>1, <3>2, SubSeqProperties
    <3>4. Len(SubSeq(r, 1, n)) = n /\ \A i \in 1..n : SubSeq(r, 1, n)[i] = s[i]
      BY <1>1, <3>1, <3>3
    <3>5. SubSeq(r, 1, n) = s
      BY <3>3, <3>4, SeqEqual
    <3>. QED
      BY <3>1, <3>5
  <2>5. SubSeq(r, (n + 1) + 2, Len(r)) = t
    <3> DEFINE m == n + 3
               l == Len(r)
    <3>1. /\ (n + 1) + 2 = m /\ m \in Int /\ l \in Int /\ l - m + 1 = Len(t)
          /\ (~(m <= l) => Len(t) = 0)
          /\ \A i \in m..l : i \in 1..Len(r)
          /\ \A i \in 1..Len(t) : m + i - 1 = n + 2 + i
      BY <1>1
    <3>2. \A i \in m..l : r[i] \in S
      BY <1>1, <3>1, ElementOfSeq
    <3> HIDE DEF m, l
    <3>3. /\ SubSeq(r, m, l) \in Seq(S)
          /\ Len(SubSeq(r, m, l)) = IF m <= l THEN l - m + 1 ELSE 0
          /\ \A i \in 1..l - m + 1 : SubSeq(r, m, l)[i] = r[m + i - 1]
      BY <3>1, <3>2, SubSeqProperties
    <3>4. Len(SubSeq(r, m, l)) = Len(t) /\ \A i \in 1..Len(t) : SubSeq(r, m, l)[i] = t[i]
      BY <1>1, <3>1, <3>3
    <3>5. SubSeq(r, m, l) = t
      BY <3>3, <3>4, SeqEqual
    <3>. QED
      BY <3>1, <3>5 DEF l
  <2>. QED
    BY <2>3, <2>4, <2>5
<1>7. ASSUME ~Clean(s) PROVE Catalog!SplitFirst(r).before # s
  <2>1. PICK j \in Catalog!SepAt(r) : j <= n
    <3>1. CASE Catalog!SepAt(s) # {}
      <4>1. PICK j \in Catalog!SepAt(s) : TRUE
        BY <3>1
      <4>2. j \in 1..(n - 1) /\ s[j] = Catalog!Underscore /\ s[j + 1] = Catalog!Underscore
        BY <1>3, <1>5, <4>1
      <4>3. j \in 1..n /\ j + 1 \in 1..n /\ j \in 1..(Len(r) - 1) /\ j <= n /\ j \in Int
        BY <1>1, <4>2
      <4>4. j \in Catalog!SepAt(r)
        BY <1>1, <1>2, <4>2, <4>3
      <4>. QED
        BY <4>3, <4>4
    <3>2. CASE Catalog!SepAt(s) = {}
      <4>1. s # <<>> /\ s[n] = Catalog!Underscore
        BY <1>7, <3>2 DEF Clean
      <4>2. n >= 1
        BY <1>1, <4>1, EmptySeq
      <4>3. n \in 1..n /\ n \in 1..(Len(r) - 1) /\ n \in Int
        BY <1>1, <4>2
      <4>4. n \in Catalog!SepAt(r)
        BY <1>1, <1>2, <4>1, <4>3
      <4>. QED
        BY <1>1, <4>4
    <3>. QED
      BY <3>1, <3>2
  <2>2. PICK i \in Catalog!SepAt(r) : \A k \in Catalog!SepAt(r) : i <= k
    BY <1>4, <1>5, Least
  <2>3. i \in Nat /\ i >= 1 /\ i <= n
    BY <1>1, <1>2, <1>5, <2>1, <2>2
  <2>4. Catalog!SplitFirst(r).before = SubSeq(r, 1, i - 1)
    BY <1>1, <2>2, SplitAt
  <2>5. /\ i - 1 \in Int /\ \A k \in 1..(i - 1) : k \in 1..Len(r)
        /\ (1 <= i - 1 => (i - 1) - 1 + 1 # n) /\ (~(1 <= i - 1) => n # 0)
    BY <1>1, <2>3
  <2>6. \A k \in 1..(i - 1) : r[k] \in S
    BY <1>1, <2>5, ElementOfSeq
  <2>7. Len(SubSeq(r, 1, i - 1)) = IF 1 <= i - 1 THEN (i - 1) - 1 + 1 ELSE 0
    BY <2>5, <2>6, SubSeqProperties
  <2>8. Len(SubSeq(r, 1, i - 1)) # Len(s)
    BY <2>5, <2>7
  <2>. QED
    BY <2>4, <2>8
<1>. QED
  BY <1>6, <1>7 DEF r

LEMMA PrefixIsClean == Clean(<<"mcp">>)
<1>1. "mcp" # Catalog!Underscore
  BY Zenon DEF Catalog!Underscore
<1>2. Len(<<"mcp">>) = 1 /\ <<"mcp">>[1] = "mcp"
  OBVIOUS
<1>3. Catalog!SepAt(<<"mcp">>) = {}
  BY <1>2 DEF Catalog!SepAt
<1>. QED
  BY <1>1, <1>2, <1>3 DEF Clean

LEMMA BuiltIs ==
  ASSUME NEW S, {Catalog!Underscore, "mcp"} \subseteq S, NEW s \in Seq(S), NEW t \in Seq(S)
  PROVE  Catalog!BuildToolName(s, t) = Joined(<<"mcp">>, Joined(s, t))
<1> DEFINE prefix == <<"mcp">> \o Catalog!Sep
           sep == Catalog!Sep
<1>1. \A a, b \in Seq(S) : a \o b \in Seq(S)
  BY ConcatProperties
<1>2. \A a, b, c \in Seq(S) : (a \o b) \o c = a \o (b \o c)
  BY ConcatAssociative
<1>3. <<"mcp">> \in Seq(S) /\ Catalog!Sep \in Seq(S)
  BY DEF Catalog!Sep
<1>4. prefix \in Seq(S) /\ sep \in Seq(S) /\ s \o sep \in Seq(S)
  BY <1>1, <1>3
<1>5. /\ Catalog!BuildToolName(s, t) = ((prefix \o s) \o sep) \o t
      /\ Joined(<<"mcp">>, Joined(s, t)) = prefix \o ((s \o sep) \o t)
  BY DEF Catalog!BuildToolName, Joined
<1> HIDE DEF prefix, sep
<1>6. (prefix \o s) \o sep = prefix \o (s \o sep)
  BY <1>2, <1>4, Zenon
<1>7. (prefix \o (s \o sep)) \o t = prefix \o ((s \o sep) \o t)
  BY <1>2, <1>4, Zenon
<1>. QED
  BY <1>5, <1>6, <1>7

\* What ParseToolName makes of a name that BuildToolName made.
LEMMA ParsesAs ==
  ASSUME NEW S, {Catalog!Underscore, "mcp"} \subseteq S, NEW s \in Seq(S), NEW t \in Seq(S)
  PROVE  LET split == Catalog!SplitFirst(Joined(s, t))
         IN  Catalog!ParseToolName(Catalog!BuildToolName(s, t)) =
               [ok |-> split.before # <<>>, server |-> split.before, tool |-> split.after]
<1>1. <<"mcp">> \in Seq(S) /\ Catalog!Underscore \in S
  OBVIOUS
<1>2. Joined(s, t) \in Seq(S)
  BY <1>1, JoinedIs
<1>3. Catalog!SplitFirst(Joined(<<"mcp">>, Joined(s, t))) =
        [found |-> TRUE, before |-> <<"mcp">>, after |-> Joined(s, t)]
  BY <1>1, <1>2, PrefixIsClean, SplitJoined
<1>. QED
  BY <1>3, BuiltIs DEF Catalog!ParseToolName, Catalog!Empty

\* A name that BuildToolName made is longer than the tool's.
LEMMA BuiltIsLonger ==
  ASSUME NEW S, {Catalog!Underscore, "mcp"} \subseteq S, NEW s \in Seq(S), NEW t \in Seq(S)
  PROVE  Catalog!BuildToolName(s, t) # <<>> /\ Catalog!BuildToolName(s, t) # t
<1>1. <<"mcp">> \in Seq(S) /\ Len(<<"mcp">>) = 1 /\ Catalog!Underscore \in S /\ Len(<<>>) = 0
  OBVIOUS
<1>2. /\ Joined(s, t) \in Seq(S) /\ Len(Joined(s, t)) = Len(s) + 2 + Len(t)
      /\ Len(s) \in Nat /\ Len(t) \in Nat
  BY <1>1, JoinedIs
<1>3. Len(Joined(<<"mcp">>, Joined(s, t))) = Len(<<"mcp">>) + 2 + Len(Joined(s, t))
  BY <1>1, <1>2, JoinedIs
<1>4. Len(Catalog!BuildToolName(s, t)) # Len(t) /\ Len(Catalog!BuildToolName(s, t)) # Len(<<>>)
  BY <1>1, <1>2, <1>3, BuiltIs
<1>. QED
  BY <1>4, Zenon

\* What is left of a name, and what it is parsed into, are names.
LEMMA SplitTypes ==
  ASSUME NEW S, NEW name \in Seq(S)
  PROVE  Catalog!SplitFirst(name).before \in Seq(S) /\ Catalog!SplitFirst(name).after \in Seq(S)
<1>1. CASE Catalog!SepAt(name) = {}
  BY <1>1, EmptySeq DEF Catalog!SplitFirst, Catalog!Empty
<1>2. CASE Catalog!SepAt(name) # {}
  <2>1. Len(name) \in Nat /\ Catalog!SepAt(name) \subseteq Nat
    BY LenProperties DEF Catalog!SepAt
  <2>2. PICK i \in Catalog!SepAt(name) : \A j \in Catalog!SepAt(name) : i <= j
    BY <1>2, <2>1, Least
  <2>3. i \in 1..(Len(name) - 1)
    BY DEF Catalog!SepAt
  <2>4. /\ i - 1 \in Int /\ i + 2 \in Int /\ Len(name) \in Int
        /\ \A k \in 1..(i - 1) : k \in 1..Len(name)
        /\ \A k \in (i + 2)..Len(name) : k \in 1..Len(name)
    BY <2>1, <2>3
  <2>5. /\ \A k \in 1..(i - 1) : name[k] \in S
        /\ \A k \in (i + 2)..Len(name) : name[k] \in S
    BY <2>4, ElementOfSeq
  <2>6. SubSeq(name, 1, i - 1) \in Seq(S)
    BY <2>4, <2>5, SubSeqProperties
  <2>7. SubSeq(name, i + 2, Len(name)) \in Seq(S)
    BY <2>4, <2>5, SubSeqProperties
  <2>8. Catalog!SplitFirst(name) = [found |-> TRUE, before |-> SubSeq(name, 1, i - 1),
                                    after |-> SubSeq(name, i + 2, Len(name))]
    BY <2>2, SplitAt
  <2>. QED
    BY <2>6, <2>7, <2>8
<1>. QED
  BY <1>1, <1>2

LEMMA RawTypes ==
  ASSUME NEW S, NEW tool \in Seq(S) \ {<<>>}
  PROVE  Catalog!RawToolName(tool) \in Seq(S) \ {<<>>}
<1>1. Catalog!ParseToolName(tool).tool \in Seq(S)
  <2>1. Catalog!SplitFirst(tool).after \in Seq(S)
    BY SplitTypes
  <2>2. Catalog!SplitFirst(Catalog!SplitFirst(tool).after).after \in Seq(S)
    BY <2>1, SplitTypes
  <2>. QED
    BY <2>2 DEF Catalog!ParseToolName
<1>. QED
  BY <1>1 DEF Catalog!RawToolName, Catalog!Empty

LEMMA PlainIsClean ==
  ASSUME NEW S, NEW s \in Seq(S), s # <<>>
  PROVE  Catalog!Plain(s) <=> Clean(s)
BY DEF Catalog!Plain, Clean

(***************************************************************************)
(* What ParseToolName finds in a name is what BuildToolName put there      *)
(* exactly when the server's name neither contains the separator nor ends  *)
(* in half of one: for every server, every tool and every alphabet,        *)
(* whatever underscores the tool's name has (types.go:115-141).            *)
(***************************************************************************)
THEOREM ParseInvertsBuild ==
  ASSUME NEW S, {Catalog!Underscore, "mcp"} \subseteq S,
         NEW server \in Seq(S) \ {<<>>}, NEW tool \in Seq(S)
  PROVE  Catalog!ParsesBack(server, tool) <=> Catalog!Plain(server)
<1> DEFINE split == Catalog!SplitFirst(Joined(server, tool))
<1>1. Catalog!ParseToolName(Catalog!BuildToolName(server, tool)) =
        [ok |-> split.before # <<>>, server |-> split.before, tool |-> split.after]
  BY ParsesAs
<1>2. CASE Clean(server)
  <2>1. split.before = server /\ split.after = tool
    BY <1>2, SplitJoined
  <2>2. (split.before # <<>>) = TRUE
    BY <2>1
  <2>3. Catalog!ParsesBack(server, tool)
    BY <1>1, <2>1, <2>2 DEF Catalog!ParsesBack
  <2>. QED
    BY <1>2, <2>3, PlainIsClean
<1>3. CASE ~Clean(server)
  <2>1. split.before # server
    BY <1>3, SplitJoined
  <2>. QED
    BY <1>1, <1>3, <2>1, PlainIsClean DEF Catalog!ParsesBack
<1>. QED
  BY <1>2, <1>3

(***************************************************************************)
(* Two tools of servers with plain names are listed under one name exactly *)
(* when they are of one server and have one raw name.  No server shadows   *)
(* a tool of another; one that has a tool t and a tool mcp__x__t, for a    *)
(* plain x, would list both under one (adapter.go:261-273).                *)
(***************************************************************************)
THEOREM NamesAreUnique ==
  ASSUME NEW S, {Catalog!Underscore, "mcp"} \subseteq S,
         NEW server \in Seq(S) \ {<<>>}, NEW tool \in Seq(S) \ {<<>>},
         NEW other \in Seq(S) \ {<<>>}, NEW another \in Seq(S) \ {<<>>},
         Catalog!Plain(server), Catalog!Plain(other)
  PROVE  Catalog!QualifyToolName(server, tool) = Catalog!QualifyToolName(other, another)
           <=> server = other /\ Catalog!RawToolName(tool) = Catalog!RawToolName(another)
<1> DEFINE raw == Catalog!RawToolName(tool)
           rawOther == Catalog!RawToolName(another)
<1>1. raw \in Seq(S) /\ rawOther \in Seq(S)
  BY RawTypes
<1>2. Catalog!ParsesBack(server, raw) /\ Catalog!ParsesBack(other, rawOther)
  BY <1>1, ParseInvertsBuild
<1>3. ASSUME Catalog!BuildToolName(server, raw) = Catalog!BuildToolName(other, rawOther)
      PROVE  server = other /\ raw = rawOther
  <2>1. [ok |-> TRUE, server |-> server, tool |-> raw]
          = [ok |-> TRUE, server |-> other, tool |-> rawOther]
    BY <1>2, <1>3 DEF Catalog!ParsesBack
  <2>. QED
    BY <2>1
<1>. QED
  BY <1>3 DEF Catalog!QualifyToolName

(***************************************************************************)
(* A call by the name under which a server lists a tool asks the server    *)
(* for that tool, exactly when the server's name is plain: the tools of    *)
(* any other server are listed and cannot be called (adapter.go:81-105).   *)
(***************************************************************************)
THEOREM ListedToolsAreCallable ==
  ASSUME NEW S, {Catalog!Underscore, "mcp"} \subseteq S,
         NEW server \in Seq(S) \ {<<>>}, NEW tool \in Seq(S) \ {<<>>}
  PROVE  Catalog!ListedIsCallable(server, tool) <=> Catalog!Plain(server)
<1> DEFINE raw == Catalog!RawToolName(tool)
           full == Catalog!BuildToolName(server, raw)
           split == Catalog!SplitFirst(Joined(server, raw))
           parsed == Catalog!ParseToolName(full)
           request == Catalog!InvocationToCallRequest(server, full, TRUE)
<1>1. raw \in Seq(S) \ {<<>>}
  BY RawTypes
<1>2. parsed.ok = (split.before # <<>>) /\ parsed.server = split.before /\ parsed.tool = split.after
  BY <1>1, ParsesAs
<1>3. full # <<>> /\ full # raw
  BY <1>1, BuiltIsLonger
<1>4. Catalog!ListedIsCallable(server, tool) <=> request.ok /\ request.name = raw
  BY DEF Catalog!ListedIsCallable, Catalog!QualifyToolName
<1>5. /\ request.ok <=> (parsed.ok => parsed.server = server /\ parsed.tool # <<>>)
      /\ request.name = IF parsed.ok THEN parsed.tool ELSE full
  BY <1>3 DEF Catalog!InvocationToCallRequest, Catalog!Empty
<1>6. CASE Clean(server)
  <2>1. split.before = server /\ split.after = raw
    BY <1>1, <1>6, SplitJoined
  <2>2. parsed.ok /\ parsed.server = server /\ parsed.tool = raw
    BY <1>2, <2>1
  <2>. QED
    BY <1>1, <1>4, <1>5, <1>6, <2>2, PlainIsClean
<1>7. CASE ~Clean(server)
  <2>1. split.before # server
    BY <1>1, <1>7, SplitJoined
  <2>2. CASE parsed.ok
    BY <1>2, <1>4, <1>5, <1>7, <2>1, <2>2, PlainIsClean
  <2>3. CASE ~parsed.ok
    BY <1>3, <1>4, <1>5, <1>7, <2>3, PlainIsClean
  <2>. QED
    BY <2>2, <2>3
<1>. QED
  BY <1>6, <1>7

(***************************************************************************)
(* The adapter of a server accepts a qualified name exactly when it names  *)
(* this server, and a tool (adapter.go:87-105).                            *)
(***************************************************************************)
THEOREM OtherServersAreRefused ==
  ASSUME NEW S, {Catalog!Underscore, "mcp"} \subseteq S,
         NEW server \in Seq(S) \ {<<>>}, NEW other \in Seq(S) \ {<<>>}, NEW tool \in Seq(S),
         Catalog!Plain(other)
  PROVE  Catalog!InvocationToCallRequest(server, Catalog!BuildToolName(other, tool), TRUE).ok
           <=> server = other /\ tool # <<>>
<1>1. Catalog!BuildToolName(other, tool) # <<>>
  BY BuiltIsLonger
<1>2. Catalog!ParseToolName(Catalog!BuildToolName(other, tool)) =
        [ok |-> TRUE, server |-> other, tool |-> tool]
  BY ParseInvertsBuild DEF Catalog!ParsesBack
<1>. QED
  BY <1>1, <1>2 DEF Catalog!InvocationToCallRequest, Catalog!Empty

(***************************************************************************)
(* Qualifying a name that is qualified already changes nothing, so that    *)
(* the tools of a server behind a server keep their names                  *)
(* (adapter.go:261-266).                                                   *)
(***************************************************************************)
THEOREM QualifyingTwiceIsOnce ==
  ASSUME NEW S, {Catalog!Underscore, "mcp"} \subseteq S,
         NEW server \in Seq(S) \ {<<>>}, NEW tool \in Seq(S) \ {<<>>}, Catalog!Plain(server)
  PROVE  Catalog!QualifyToolName(server, Catalog!QualifyToolName(server, tool))
           = Catalog!QualifyToolName(server, tool)
<1> DEFINE raw == Catalog!RawToolName(tool)
           full == Catalog!BuildToolName(server, raw)
<1>1. raw \in Seq(S) \ {<<>>}
  BY RawTypes
<1>2. Catalog!ParseToolName(full) = [ok |-> TRUE, server |-> server, tool |-> raw]
  BY <1>1, ParseInvertsBuild DEF Catalog!ParsesBack
<1>3. Catalog!RawToolName(full) = raw
  BY <1>1, <1>2 DEF Catalog!RawToolName, Catalog!Empty
<1>. QED
  BY <1>3 DEF Catalog!QualifyToolName
=============================================================================
