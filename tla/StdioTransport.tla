--------------------------- MODULE StdioTransport ---------------------------
(***************************************************************************)
(* mcp.StdioTransport: Open, Send, Recv and Close under the transport's    *)
(* one mutex, the readLoop goroutine with its bounded channel, the two     *)
(* bounded pipes to the subprocess, and a server that reads a message,     *)
(* writes one, and does one thing at a time.                               *)
(*                                                                         *)
(* The messages of the server are numbered; those of the client are only   *)
(* counted.  A critical section in which nothing blocks is one step.       *)
(***************************************************************************)
EXTENDS Naturals, Sequences

CONSTANTS
  NumSenders,       \* calls of Send
  NumClosers,       \* calls of Close
  InCap, OutCap,    \* capacity of the subprocess's stdin and stdout
  RecvCap,          \* capacity of recvCh
  MaxMessages       \* bound: messages the server writes

ASSUME StdioAssumption ==
  /\ NumSenders \in Nat /\ NumClosers \in Nat /\ MaxMessages \in Nat
  /\ InCap \in Nat \ {0} /\ OutCap \in Nat \ {0} /\ RecvCap \in Nat \ {0}

Senders == 1..NumSenders
Closers == 1..NumClosers
Nobody == 0

VARIABLES
  \* the transport
  mutex,            \* the Send that holds it while it writes, or Nobody
  opened, closed, recvErr,
  once,             \* closeOnce
  reader, hand,     \* where readLoop stands, and the message it decoded
  recvCh, recvClosed,
  \* its callers
  sender, closer,   \* where each call stands
  got, ended,       \* what Recv returned, and whether it returned an error
  \* the subprocess
  process, server,
  stdin, stdout,    \* what is in the pipes
  written           \* messages the server has written

stateVars == <<opened, closed, recvErr>>
loopVars == <<reader, hand, recvCh, recvClosed>>
recvVars == <<got, ended>>
serverVars == <<server, stdin, stdout, written>>
vars == <<mutex, stateVars, once, loopVars, sender, closer, recvVars, process, serverVars>>

\* Output of the server that is no message.
Garbage == 0

Init ==
  /\ mutex = Nobody
  /\ opened = FALSE /\ closed = FALSE /\ recvErr = FALSE
  /\ once = "new"
  /\ reader = "none" /\ hand = Garbage
  /\ recvCh = <<>> /\ recvClosed = FALSE
  /\ sender = [s \in Senders |-> "idle"] /\ closer = [c \in Closers |-> "idle"]
  /\ got = <<>> /\ ended = FALSE
  /\ process = "none" /\ server = "ready"
  /\ stdin = 0 /\ stdout = <<>> /\ written = 0

Free == mutex = Nobody

-----------------------------------------------------------------------------
(* Open and Send.                                                          *)

\* A second Open, and one that fails, change nothing.  closed is not looked at.
Open ==
  /\ Free /\ ~opened
  /\ opened' = TRUE
  /\ process' = "running"
  /\ reader' = "decode"
  /\ UNCHANGED <<mutex, closed, recvErr, once, hand, recvCh, recvClosed, sender, closer,
                 recvVars, serverVars>>

SendRefused(s) ==
  /\ sender[s] = "idle" /\ Free
  /\ ~opened \/ closed
  /\ sender' = [sender EXCEPT ![s] = "refused"]
  /\ UNCHANGED <<mutex, stateVars, once, loopVars, closer, recvVars, process, serverVars>>

SendLock(s) ==
  /\ sender[s] = "idle" /\ Free
  /\ opened /\ ~closed
  /\ mutex' = s
  /\ sender' = [sender EXCEPT ![s] = "write"]
  /\ UNCHANGED <<stateVars, once, loopVars, closer, recvVars, process, serverVars>>

\* The write waits for room in the pipe, with the mutex held.
SendWrites(s) ==
  /\ sender[s] = "write"
  /\ process = "running" /\ stdin < InCap
  /\ stdin' = stdin + 1
  /\ mutex' = Nobody
  /\ sender' = [sender EXCEPT ![s] = "sent"]
  /\ UNCHANGED <<stateVars, once, loopVars, closer, recvVars, process, server, stdout, written>>

\* Seeded fault: an error of the encoder leaves the mutex locked.
SendFailsLocked(s) ==
  /\ sender[s] = "write" /\ process = "dead"
  /\ sender' = [sender EXCEPT ![s] = "failed"]
  /\ UNCHANGED <<mutex, stateVars, once, loopVars, closer, recvVars, process, serverVars>>

SendFails(s) ==
  /\ sender[s] = "write" /\ process = "dead"
  /\ mutex' = Nobody
  /\ sender' = [sender EXCEPT ![s] = "failed"]
  /\ UNCHANGED <<stateVars, once, loopVars, closer, recvVars, process, serverVars>>

-----------------------------------------------------------------------------
(* readLoop, and Recv.                                                     *)

\* The deferred calls: the read end of stdout and recvCh are closed.
LoopEnds ==
  /\ reader' = "gone" /\ hand' = Garbage
  /\ recvClosed' = TRUE
  /\ UNCHANGED <<mutex, opened, closed, once, recvCh, sender, closer, recvVars, process,
                 server, stdin, written>>

Decode ==
  /\ reader = "decode" /\ stdout # <<>> /\ Head(stdout) # Garbage
  /\ hand' = Head(stdout)
  /\ stdout' = Tail(stdout)
  /\ reader' = "check"
  /\ UNCHANGED <<mutex, stateVars, once, recvCh, recvClosed, sender, closer, recvVars,
                 process, server, stdin, written>>

DecodeFails ==
  /\ reader = "decode" /\ stdout # <<>> /\ Head(stdout) = Garbage
  /\ stdout' = Tail(stdout)
  /\ recvErr' = TRUE
  /\ LoopEnds

\* The end of the file, within a message perhaps.
DecodeEnds ==
  /\ reader = "decode" /\ stdout = <<>> /\ process = "dead"
  /\ recvErr' \in {recvErr, TRUE}
  /\ UNCHANGED stdout
  /\ LoopEnds

CheckOpen ==
  /\ reader = "check" /\ Free /\ ~closed
  /\ reader' = "send"
  /\ UNCHANGED <<mutex, stateVars, once, hand, recvCh, recvClosed, sender, closer, recvVars,
                 process, serverVars>>

CheckClosed ==
  /\ reader = "check" /\ Free /\ closed
  /\ UNCHANGED <<recvErr, stdout>>
  /\ LoopEnds

\* Seeded fault: the channel has no bound.
RoomAlways == TRUE

Room == Len(recvCh) < RecvCap

\* Seeded fault: a message nobody has room for is dropped.
QueueOrDrop ==
  /\ reader = "send"
  /\ recvCh' = IF Len(recvCh) < RecvCap THEN Append(recvCh, hand) ELSE recvCh
  /\ reader' = "decode" /\ hand' = Garbage
  /\ UNCHANGED <<mutex, stateVars, once, recvClosed, sender, closer, recvVars, process, serverVars>>

Queue ==
  /\ reader = "send" /\ Room
  /\ recvCh' = Append(recvCh, hand)
  /\ reader' = "decode" /\ hand' = Garbage
  /\ UNCHANGED <<mutex, stateVars, once, recvClosed, sender, closer, recvVars, process, serverVars>>

ReadLoop == Decode \/ DecodeFails \/ DecodeEnds \/ CheckOpen \/ CheckClosed \/ Queue

Recv ==
  /\ recvCh # <<>>
  /\ got' = Append(got, Head(recvCh))
  /\ recvCh' = Tail(recvCh)
  /\ UNCHANGED <<mutex, stateVars, once, reader, hand, recvClosed, sender, closer, ended,
                 process, serverVars>>

RecvEnds ==
  /\ recvCh = <<>> /\ recvClosed
  /\ ended' = TRUE
  /\ UNCHANGED <<mutex, stateVars, once, loopVars, sender, closer, got, process, serverVars>>

-----------------------------------------------------------------------------
(* Close.  One call runs the body of closeOnce and the others wait for it. *)

CloseMove(c, place) ==
  /\ closer' = [closer EXCEPT ![c] = place]
  /\ UNCHANGED <<mutex, opened, recvErr, loopVars, sender, recvVars, serverVars>>

Close(c) ==
  /\ closer[c] = "idle" /\ once = "new"
  /\ once' = "running"
  /\ CloseMove(c, "lock")
  /\ UNCHANGED <<closed, process>>

CloseAgain(c) ==
  /\ closer[c] = "idle" /\ once # "new"
  /\ CloseMove(c, "wait")
  /\ UNCHANGED <<closed, once, process>>

\* closed is set, stdin closed and cmd read in one section under the mutex.
CloseLock(c) ==
  /\ closer[c] = "lock" /\ Free
  /\ closed' = TRUE
  /\ CloseMove(c, IF opened THEN "kill" ELSE "leave")
  /\ UNCHANGED <<once, process>>

Kill(c) ==
  /\ closer[c] = "kill"
  /\ process' = "dead"
  /\ CloseMove(c, "leave")
  /\ UNCHANGED <<closed, once>>

CloseReturns(c) ==
  /\ closer[c] = "leave"
  /\ once' = "done"
  /\ CloseMove(c, "done")
  /\ UNCHANGED <<closed, process>>

CloseAgainReturns(c) ==
  /\ closer[c] = "wait" /\ once = "done"
  /\ CloseMove(c, "done")
  /\ UNCHANGED <<closed, once, process>>

CloseStep(c) == CloseLock(c) \/ Kill(c) \/ CloseReturns(c) \/ CloseAgainReturns(c)

-----------------------------------------------------------------------------
(* The subprocess, and the context Open was called with.                   *)

ServerMove ==
  /\ process = "running"
  /\ UNCHANGED <<mutex, stateVars, once, loopVars, sender, closer, recvVars, process>>

ServerReads ==
  /\ server = "ready" /\ stdin > 0
  /\ stdin' = stdin - 1
  /\ server' \in (IF written < MaxMessages THEN {"ready", "write"} ELSE {"ready"})
  /\ UNCHANGED <<stdout, written>>
  /\ ServerMove

ServerNotifies ==
  /\ server = "ready" /\ written < MaxMessages
  /\ server' = "write"
  /\ UNCHANGED <<stdin, stdout, written>>
  /\ ServerMove

ServerWrites ==
  /\ server = "write" /\ reader # "gone" /\ Len(stdout) < OutCap
  /\ \/ stdout' = Append(stdout, written + 1) /\ written' = written + 1
     \/ stdout' = Append(stdout, Garbage) /\ UNCHANGED written
  /\ server' = "ready"
  /\ UNCHANGED stdin
  /\ ServerMove

\* Nobody holds the other end of its stdout any more.
ServerWriteFails ==
  /\ server = "write" /\ reader = "gone"
  /\ server' = "ready"
  /\ UNCHANGED <<stdin, stdout, written>>
  /\ ServerMove

\* It exits, or the context of Open is done and os/exec kills it.
Dies ==
  /\ process = "running"
  /\ process' = "dead"
  /\ UNCHANGED <<mutex, stateVars, once, loopVars, sender, closer, recvVars, serverVars>>

ServerAnswers == ServerWrites \/ ServerWriteFails

-----------------------------------------------------------------------------
SendStep(s) == SendWrites(s) \/ SendFails(s)

Terminated ==
  /\ ended
  /\ \A s \in Senders : sender[s] # "write"
  /\ UNCHANGED vars

Next ==
  \/ Open
  \/ \E s \in Senders : SendRefused(s) \/ SendLock(s) \/ SendStep(s)
  \/ ReadLoop \/ Recv \/ RecvEnds
  \/ \E c \in Closers : Close(c) \/ CloseAgain(c) \/ CloseStep(c)
  \/ ServerReads \/ ServerAnswers \/ ServerNotifies \/ Dies
  \/ Terminated

Spec == Init /\ [][Next]_vars

\* Goroutines run on, a mutex that is free is got in the end, and the server
\* writes when it can and comes back to its stdin however much it has to say.
Fairness ==
  /\ \A s \in Senders : WF_vars(SendStep(s))
  /\ \A c \in Closers : WF_vars(CloseStep(c))
  /\ WF_vars(ReadLoop)
  /\ WF_vars(ServerAnswers) /\ SF_vars(ServerReads)

FairSpec == Spec /\ Fairness

-----------------------------------------------------------------------------
(* Properties.                                                             *)

\* Types, and the bounds of the pipes and of recvCh.
TypeOK ==
  /\ mutex \in Senders \cup {Nobody}
  /\ opened \in BOOLEAN /\ closed \in BOOLEAN /\ recvErr \in BOOLEAN
  /\ once \in {"new", "running", "done"}
  /\ reader \in {"none", "decode", "check", "send", "gone"} /\ hand \in Nat
  /\ recvCh \in Seq(Nat) /\ Len(recvCh) <= RecvCap /\ recvClosed \in BOOLEAN
  /\ sender \in [Senders -> {"idle", "refused", "write", "sent", "failed"}]
  /\ closer \in [Closers -> {"idle", "lock", "kill", "leave", "wait", "done"}]
  /\ got \in Seq(Nat) /\ ended \in BOOLEAN
  /\ process \in {"none", "running", "dead"} /\ server \in {"ready", "write"}
  /\ stdin \in 0..InCap /\ stdout \in Seq(Nat) /\ Len(stdout) <= OutCap
  /\ written \in Nat

(***************************************************************************)
(* Recv returns the server's messages in order and without a gap through   *)
(* two buffers, a goroutine and a Close at any moment, and its error only  *)
(* when the subprocess is dead, its output no message, or Close was called.*)
(***************************************************************************)
Wire == INSTANCE MessageWire
  WITH sent <- written, broken <- process = "dead" \/ closed \/ recvErr

ImplementsMessageWire == Wire!Spec

(***************************************************************************)
(* The one configuration a Close cannot get out of: a Send waits for room  *)
(* in stdin with the mutex held, the server for room in stdout before it   *)
(* reads on, and readLoop for the mutex before it makes that room.         *)
(***************************************************************************)
Deadlocked ==
  /\ process = "running"
  /\ mutex # Nobody /\ stdin = InCap
  /\ server = "write" /\ Len(stdout) = OutCap
  /\ reader = "check"

(***************************************************************************)
(* "Close terminates the subprocess and stops the transport": every Close  *)
(* returns, over a server that works as long as it can and a client that   *)
(* receives, unless the two ends have locked each other out.               *)
(***************************************************************************)
CloseReturnsUnlessLocked ==
  WF_vars(Recv) =>
    \A c \in Closers : closer[c] # "idle" ~> closer[c] = "done" \/ Deadlocked
=============================================================================
