----------------------- MODULE StdioTransportProofs -----------------------
(***************************************************************************)
(* Proofs about StdioTransport for any number of callers and any capacity  *)
(* of the pipes and of the channel: types, the order in which the server's *)
(* messages come out of Recv, and that nobody but the server ends the      *)
(* deadlock between the two ends.                                          *)
(***************************************************************************)
EXTENDS StdioTransport, SequenceTheorems, TLAPS

-----------------------------------------------------------------------------
(* The inductive invariant.                                                *)

InHand == IF reader \in {"check", "send"} THEN 1 ELSE 0

\* The messages that have left the pipe and were not lost.
Passed == Len(got) + Len(recvCh) + InHand

\* The first k messages of the pipe are messages.
Clean(k) == \A j \in 1..k : stdout[j] # Garbage

\* From the server's stdout to the caller of Recv the messages are numbered on,
\* up to the first that cannot be decoded.
Numbered ==
  /\ \A k \in 1..Len(recvCh) : recvCh[k] = Len(got) + k
  /\ InHand = 1 => hand = Passed
  /\ Passed <= written
  /\ reader # "gone" =>
       /\ \A k \in 1..Len(stdout) : Clean(k) => stdout[k] = Passed + k /\ Passed + k <= written
       /\ Clean(Len(stdout)) => Passed + Len(stdout) = written

Broken == process = "dead" \/ closed \/ recvErr

Ends ==
  /\ process = "none" <=> ~opened
  /\ reader = "none" <=> ~opened
  /\ recvClosed <=> reader = "gone"
  /\ recvClosed => Broken
  /\ ended => recvClosed /\ recvCh = <<>>

\* closed is not set while a Send writes, and set and cmd read by a Close that kills.
Locking ==
  /\ mutex # Nobody => ~closed
  /\ \A c \in Closers : closer[c] = "kill" => closed /\ opened

IInv == TypeOK /\ Numbered /\ Ends /\ Locking

LEMMA InitInv == Init => IInv
<1>. SUFFICES ASSUME Init PROVE IInv
  OBVIOUS
<1>1. TypeOK
  <2>1. /\ recvCh \in Seq(Nat) /\ Len(recvCh) <= RecvCap /\ got \in Seq(Nat)
        /\ stdin \in 0..InCap /\ stdout \in Seq(Nat) /\ Len(stdout) <= OutCap
    BY StdioAssumption DEF Init
  <2>. QED
    BY <2>1 DEF Init, TypeOK, Garbage
<1>2. Numbered
  BY DEF Init, Numbered, Passed, InHand, Clean
<1>. QED
  BY <1>1, <1>2 DEF Init, IInv, Ends, Locking, Broken

-----------------------------------------------------------------------------
(* Types.                                                                  *)

LEMMA TypeNext == TypeOK /\ [Next]_vars => TypeOK'
<1>. SUFFICES ASSUME TypeOK, [Next]_vars PROVE TypeOK'
  OBVIOUS
<1>. USE DEF TypeOK, stateVars, loopVars, recvVars, serverVars
<1>1. CASE Open
  BY <1>1 DEF Open
<1>2. ASSUME NEW s \in Senders, SendRefused(s) \/ SendLock(s) \/ SendFails(s) PROVE TypeOK'
  <2>1. /\ mutex' \in Senders \cup {Nobody}
        /\ \E place \in {"refused", "write", "failed"} : sender' = [sender EXCEPT ![s] = place]
    BY <1>2 DEF SendRefused, SendLock, SendFails
  <2>2. sender' \in [Senders -> {"idle", "refused", "write", "sent", "failed"}]
    BY <2>1
  <2>3. UNCHANGED <<stateVars, once, loopVars, closer, recvVars, process, serverVars>>
    BY <1>2 DEF SendRefused, SendLock, SendFails
  <2>. QED
    BY <2>1, <2>2, <2>3
<1>3. ASSUME NEW s \in Senders, SendWrites(s) PROVE TypeOK'
  <2>1. stdin + 1 \in 0..InCap
    BY <1>3, StdioAssumption DEF SendWrites
  <2>. QED
    BY <1>3, <2>1 DEF SendWrites
<1>4. CASE Decode
  <2>1. Head(stdout) \in Nat /\ Tail(stdout) \in Seq(Nat) /\ Len(Tail(stdout)) <= OutCap
    BY <1>4, StdioAssumption DEF Decode
  <2>. QED
    BY <1>4, <2>1 DEF Decode
<1>5. CASE DecodeFails
  <2>1. Tail(stdout) \in Seq(Nat) /\ Len(Tail(stdout)) <= OutCap
    BY <1>5, StdioAssumption DEF DecodeFails
  <2>. QED
    BY <1>5, <2>1 DEF DecodeFails, LoopEnds, Garbage
<1>6. CASE DecodeEnds \/ CheckOpen \/ CheckClosed
  <2>1. CASE DecodeEnds
    BY <2>1 DEF DecodeEnds, LoopEnds, Garbage
  <2>2. CASE CheckOpen
    BY <2>2 DEF CheckOpen
  <2>3. CASE CheckClosed
    BY <2>3 DEF CheckClosed, LoopEnds, Garbage
  <2>. QED
    BY <1>6, <2>1, <2>2, <2>3
<1>7. CASE Queue
  <2>1. Append(recvCh, hand) \in Seq(Nat) /\ Len(Append(recvCh, hand)) <= RecvCap
    BY <1>7, StdioAssumption DEF Queue, Room
  <2>. QED
    BY <1>7, <2>1 DEF Queue, Garbage
<1>8. CASE Recv
  <2>1. /\ Tail(recvCh) \in Seq(Nat) /\ Len(Tail(recvCh)) <= RecvCap
        /\ Append(got, Head(recvCh)) \in Seq(Nat)
    BY <1>8, StdioAssumption DEF Recv
  <2>. QED
    BY <1>8, <2>1 DEF Recv
<1>9. CASE RecvEnds
  BY <1>9 DEF RecvEnds
<1>10. ASSUME NEW c \in Closers, Close(c) \/ CloseAgain(c) \/ CloseStep(c) PROVE TypeOK'
  <2>. DEFINE Places == {"lock", "kill", "leave", "wait", "done"}
  <2>1. PICK place \in Places : CloseMove(c, place)
    BY <1>10 DEF Close, CloseAgain, CloseStep, CloseLock, Kill, CloseReturns, CloseAgainReturns
  <2>2. closer' \in [Closers -> {"idle", "lock", "kill", "leave", "wait", "done"}]
    BY <2>1 DEF CloseMove
  <2>3. /\ once' \in {"new", "running", "done"} /\ closed' \in BOOLEAN
        /\ process' \in {"none", "running", "dead"}
    BY <1>10 DEF Close, CloseAgain, CloseStep, CloseLock, Kill, CloseReturns, CloseAgainReturns
  <2>. QED
    BY <2>1, <2>2, <2>3 DEF CloseMove
<1>11. CASE ServerReads
  <2>1. stdin - 1 \in 0..InCap
    BY <1>11, StdioAssumption DEF ServerReads
  <2>. QED
    BY <1>11, <2>1 DEF ServerReads, ServerMove
<1>12. CASE ServerNotifies \/ ServerWriteFails
  BY <1>12 DEF ServerNotifies, ServerWriteFails, ServerMove
<1>13. CASE ServerWrites
  <2>1. PICK m \in Nat : stdout' = Append(stdout, m) /\ written' \in Nat /\ Len(stdout) < OutCap
    <3>1. Garbage \in Nat /\ written + 1 \in Nat
      BY DEF Garbage
    <3>. QED
      BY <1>13, <3>1 DEF ServerWrites
  <2>2. stdout' \in Seq(Nat) /\ Len(stdout') <= OutCap
    BY <2>1, StdioAssumption
  <2>. QED
    BY <1>13, <2>1, <2>2 DEF ServerWrites, ServerMove
<1>14. CASE Dies \/ Terminated \/ UNCHANGED vars
  BY <1>14 DEF Dies, Terminated, vars
<1>. HIDE DEF TypeOK
<1>. QED
  BY <1>1, <1>2, <1>3, <1>4, <1>5, <1>6, <1>7, <1>8, <1>9, <1>10, <1>11, <1>12, <1>13, <1>14
     DEF Next, ReadLoop, SendStep, ServerAnswers

-----------------------------------------------------------------------------
(* The order of the messages.                                              *)

\* The steps in which no message moves.
LEMMA PipeStays ==
  ASSUME Numbered, UNCHANGED <<got, recvCh, hand, stdout, written>>, InHand' = InHand,
         reader' # "gone" => reader # "gone"
  PROVE  Numbered'
<1>1. Passed' = Passed
  BY DEF Passed
<1>2. \A k : Clean(k)' = Clean(k)
  BY DEF Clean
<1>. QED
  BY <1>1, <1>2 DEF Numbered

\* readLoop ends: what was in its hand and in the pipe is lost.
LEMMA EndNumbered ==
  ASSUME TypeOK, Numbered, LoopEnds
  PROVE  Numbered'
<1>1. InHand' = 0 /\ InHand \in {0, 1} /\ UNCHANGED <<got, recvCh, written>> /\ reader' = "gone"
  BY DEF LoopEnds, InHand, recvVars
<1>2. Len(got) \in Nat /\ Len(recvCh) \in Nat /\ written \in Nat
  BY DEF TypeOK
<1>3. Passed' <= written'
  BY <1>1, <1>2 DEF Passed, Numbered
<1>. QED
  BY <1>1, <1>3 DEF Numbered

LEMMA NumberedNext == TypeOK /\ Ends /\ Numbered /\ [Next]_vars => Numbered'
<1>. SUFFICES ASSUME TypeOK, Ends, Numbered, [Next]_vars PROVE Numbered'
  OBVIOUS
<1>0. /\ got \in Seq(Nat) /\ recvCh \in Seq(Nat) /\ stdout \in Seq(Nat) /\ written \in Nat
      /\ Len(got) \in Nat /\ Len(recvCh) \in Nat /\ Len(stdout) \in Nat /\ hand \in Nat
      /\ InHand \in {0, 1} /\ Passed \in Nat
  BY DEF TypeOK, InHand, Passed
<1>1. CASE Open
  BY <1>1, PipeStays DEF Open, InHand, Ends, recvVars, serverVars
<1>2. ASSUME NEW s \in Senders, SendRefused(s) \/ SendLock(s) \/ SendStep(s) PROVE Numbered'
  BY <1>2, PipeStays DEF SendRefused, SendLock, SendStep, SendWrites, SendFails, InHand, loopVars, recvVars, serverVars
<1>3. CASE Decode
  <2>1. /\ reader = "decode" /\ stdout # <<>> /\ Head(stdout) # Garbage /\ hand' = Head(stdout)
        /\ stdout' = Tail(stdout) /\ reader' = "check" /\ UNCHANGED <<got, recvCh, written>>
    BY <1>3 DEF Decode, recvVars
  <2>2. /\ Len(stdout') = Len(stdout) - 1 /\ Len(stdout) > 0
        /\ \A k \in 1..Len(stdout') : stdout'[k] = stdout[k + 1]
        /\ Head(stdout) = stdout[1]
    BY <1>0, <2>1
  <2>3. Passed' = Passed + 1 /\ InHand' = 1
    BY <1>0, <2>1 DEF Passed, InHand
  <2>4. ASSUME NEW k \in 0..Len(stdout'), Clean(k)' PROVE Clean(k + 1)
    <3>. SUFFICES ASSUME NEW j \in 1..(k + 1) PROVE stdout[j] # Garbage
      BY DEF Clean
    <3>1. CASE j = 1
      BY <2>1, <2>2, <3>1
    <3>2. CASE j # 1
      <4>1. j - 1 \in 1..k /\ j - 1 \in 1..Len(stdout') /\ stdout'[j - 1] = stdout[j]
        BY <1>0, <2>2, <3>2
      <4>. QED
        BY <2>4, <4>1 DEF Clean, Garbage
    <3>. QED
      BY <3>1, <3>2
  <2>5. Clean(1)
    BY <2>1, <2>2 DEF Clean
  <2>6. stdout[1] = Passed + 1 /\ Passed + 1 <= written
    BY <1>0, <2>1, <2>2, <2>5 DEF Numbered
  <2>7. ASSUME NEW k \in 1..Len(stdout'), Clean(k)'
        PROVE  stdout'[k] = Passed' + k /\ Passed' + k <= written'
    <3>1. Clean(k + 1) /\ k + 1 \in 1..Len(stdout)
      BY <1>0, <2>2, <2>4, <2>7
    <3>2. stdout[k + 1] = Passed + (k + 1) /\ Passed + (k + 1) <= written
      BY <2>1, <3>1 DEF Numbered
    <3>. QED
      BY <1>0, <2>1, <2>2, <2>3, <3>2
  <2>8. ASSUME Clean(Len(stdout))' PROVE Passed' + Len(stdout') = written'
    <3>1. PICK n \in Nat : n = Len(stdout')
      BY <1>0, <2>2
    <3>2. Clean(n)'
      BY <2>8, <3>1 DEF Clean
    <3>3. Clean(Len(stdout))
      BY <1>0, <2>2, <2>4, <3>1, <3>2
    <3>4. Passed + Len(stdout) = written
      BY <2>1, <3>3 DEF Numbered
    <3>5. written' = written /\ Passed \in Nat /\ Len(stdout) \in Nat /\ written \in Nat
      BY <1>0, <2>1
    <3>6. Len(stdout') = Len(stdout) - 1 /\ Passed' = Passed + 1
      BY <2>2, <2>3
    <3>. QED
      BY <3>4, <3>5, <3>6
  <2>. QED
    BY <2>1, <2>2, <2>3, <2>6, <2>7, <2>8 DEF Numbered
<1>4. CASE DecodeFails \/ DecodeEnds \/ CheckClosed
  BY <1>4, EndNumbered DEF DecodeFails, DecodeEnds, CheckClosed
<1>5. CASE CheckOpen
  BY <1>5, PipeStays DEF CheckOpen, InHand, recvVars, serverVars
<1>6. CASE Queue
  <2>1. /\ reader = "send" /\ recvCh' = Append(recvCh, hand) /\ reader' = "decode"
        /\ UNCHANGED <<got, stdout, written>>
    BY <1>6 DEF Queue, recvVars, serverVars
  <2>2. /\ Len(recvCh') = Len(recvCh) + 1 /\ recvCh'[Len(recvCh) + 1] = hand
        /\ \A k \in 1..Len(recvCh) : recvCh'[k] = recvCh[k]
    BY <1>0, <2>1
  <2>3. Passed' = Passed /\ InHand = 1 /\ InHand' = 0
    BY <1>0, <2>1, <2>2 DEF Passed, InHand
  <2>4. hand = Len(got) + (Len(recvCh) + 1)
    BY <1>0, <2>3 DEF Numbered, Passed
  <2>5. \A k \in 1..Len(recvCh') : recvCh'[k] = Len(got') + k
    <3>. SUFFICES ASSUME NEW k \in 1..Len(recvCh') PROVE recvCh'[k] = Len(got) + k
      BY <2>1
    <3>1. CASE k \in 1..Len(recvCh)
      BY <2>2, <3>1 DEF Numbered
    <3>2. CASE k = Len(recvCh) + 1
      BY <2>2, <2>4, <3>2
    <3>. QED
      BY <1>0, <2>2, <3>1, <3>2
  <2>6. \A k : Clean(k)' = Clean(k)
    BY <2>1 DEF Clean
  <2>. QED
    BY <2>1, <2>3, <2>5, <2>6 DEF Numbered
<1>7. CASE Recv
  <2>1. /\ recvCh # <<>> /\ got' = Append(got, Head(recvCh)) /\ recvCh' = Tail(recvCh)
        /\ UNCHANGED <<reader, hand, stdout, written>>
    BY <1>7 DEF Recv, serverVars
  <2>2. /\ Len(got') = Len(got) + 1 /\ Len(recvCh') = Len(recvCh) - 1
        /\ \A k \in 1..Len(recvCh') : recvCh'[k] = recvCh[k + 1]
    BY <1>0, <2>1
  <2>3. Passed' = Passed /\ InHand' = InHand
    BY <1>0, <2>1, <2>2 DEF Passed, InHand
  <2>4. \A k \in 1..Len(recvCh') : recvCh'[k] = Len(got') + k
    BY <1>0, <2>2 DEF Numbered
  <2>5. \A k : Clean(k)' = Clean(k)
    BY <2>1 DEF Clean
  <2>. QED
    BY <2>1, <2>3, <2>4, <2>5 DEF Numbered
<1>8. CASE RecvEnds
  BY <1>8, PipeStays DEF RecvEnds, InHand, loopVars, serverVars
<1>9. ASSUME NEW c \in Closers, Close(c) \/ CloseAgain(c) \/ CloseStep(c) PROVE Numbered'
  BY <1>9, PipeStays DEF Close, CloseAgain, CloseStep, CloseLock, Kill, CloseReturns, CloseAgainReturns,
     CloseMove, InHand, loopVars, recvVars, serverVars
<1>10. CASE ServerReads \/ ServerNotifies \/ ServerWriteFails
  BY <1>10, PipeStays DEF ServerReads, ServerNotifies, ServerWriteFails, ServerMove, InHand, loopVars, recvVars
<1>11. CASE ServerWrites
  <2>1. reader # "gone" /\ UNCHANGED <<reader, got, recvCh, hand>>
    BY <1>11 DEF ServerWrites, ServerMove, loopVars, recvVars
  <2>2. Passed' = Passed /\ InHand' = InHand
    BY <2>1 DEF Passed, InHand
  <2>3. PICK m \in Nat, n \in Nat :
          /\ n = Len(stdout) + 1 /\ stdout' = Append(stdout, m)
          /\ \/ m = written + 1 /\ written' = written + 1
             \/ m = Garbage /\ written' = written
    BY <1>0, <1>11 DEF ServerWrites, Garbage
  <2>4. /\ Len(stdout') = n /\ stdout'[n] = m /\ written <= written' /\ written' \in Nat
        /\ \A k \in 1..Len(stdout) : stdout'[k] = stdout[k]
    BY <1>0, <2>3
  <2>5. \A k \in 0..Len(stdout) : Clean(k)' = Clean(k)
    <3>. SUFFICES ASSUME NEW k \in 0..Len(stdout) PROVE Clean(k)' = Clean(k)
      OBVIOUS
    <3>1. \A j \in 1..k : stdout'[j] = stdout[j]
      BY <1>0, <2>4
    <3>. QED
      BY <3>1 DEF Clean, Garbage
  <2>6. ASSUME Clean(n)'
        PROVE  m = Passed + n /\ Passed + n = written'
    <3>1. m # Garbage
      BY <2>3, <2>4, <2>6 DEF Clean, Garbage
    <3>2. Clean(Len(stdout))
      <4>1. Clean(Len(stdout)) <=> \A j \in 1..Len(stdout) : stdout[j] # Garbage
        BY DEF Clean
      <4>2. \A j \in 1..Len(stdout) : stdout'[j] # Garbage
        BY <1>0, <2>3, <2>6 DEF Clean, Garbage
      <4>. QED
        BY <2>4, <4>1, <4>2
    <3>3. Passed + Len(stdout) = written
      BY <2>1, <3>2 DEF Numbered
    <3>4. m = written + 1 /\ written' = written + 1 /\ n = Len(stdout) + 1
      BY <2>3, <3>1
    <3>5. Passed \in Nat /\ Len(stdout) \in Nat /\ written \in Nat
      BY <1>0
    <3>. QED
      BY <3>3, <3>4, <3>5
  <2>7. ASSUME NEW k \in 1..Len(stdout'), Clean(k)'
        PROVE  stdout'[k] = Passed' + k /\ Passed' + k <= written'
    <3>1. CASE k = n
      BY <1>0, <2>2, <2>4, <2>6, <2>7, <3>1
    <3>2. CASE k # n
      <4>1. k \in 1..Len(stdout) /\ Clean(k)
        BY <1>0, <2>3, <2>4, <2>5, <2>7, <3>2
      <4>2. stdout[k] = Passed + k /\ Passed + k <= written
        BY <2>1, <4>1 DEF Numbered
      <4>. QED
        BY <1>0, <2>2, <2>4, <4>1, <4>2
    <3>. QED
      BY <3>1, <3>2
  <2>8. ASSUME Clean(Len(stdout))' PROVE Passed' + Len(stdout') = written'
    <3>1. Clean(n)'
      BY <2>4, <2>8 DEF Clean
    <3>. QED
      BY <2>2, <2>4, <2>6, <3>1
  <2>9. Passed' <= written'
    BY <1>0, <2>2, <2>4 DEF Numbered
  <2>. QED
    BY <2>1, <2>2, <2>7, <2>8, <2>9 DEF Numbered
<1>12. CASE Dies \/ Terminated \/ UNCHANGED vars
  BY <1>12, PipeStays DEF Dies, Terminated, vars, InHand, loopVars, recvVars, serverVars
<1>. QED
  BY <1>1, <1>2, <1>3, <1>4, <1>5, <1>6, <1>7, <1>8, <1>9, <1>10, <1>11, <1>12
     DEF Next, ReadLoop, ServerAnswers

-----------------------------------------------------------------------------
(* The end of the stream, and the mutex.                                   *)

LEMMA EndsNext == TypeOK /\ Ends /\ Locking /\ [Next]_vars => Ends'
<1>. SUFFICES ASSUME TypeOK, Ends, Locking, [Next]_vars PROVE Ends'
  OBVIOUS
<1>. USE DEF Ends, Broken, stateVars, loopVars, recvVars, serverVars
<1>0. /\ reader \in {"none", "decode", "check", "send", "gone"}
      /\ process \in {"none", "running", "dead"} /\ recvErr \in BOOLEAN /\ opened \in BOOLEAN
  BY DEF TypeOK
<1>1. CASE Open
  BY <1>0, <1>1 DEF Open
<1>2. ASSUME NEW s \in Senders, SendRefused(s) \/ SendLock(s) \/ SendStep(s) PROVE Ends'
  BY <1>2 DEF SendRefused, SendLock, SendStep, SendWrites, SendFails
<1>3. CASE Decode \/ CheckOpen
  BY <1>0, <1>3 DEF Decode, CheckOpen
<1>4. CASE DecodeFails
  BY <1>0, <1>4 DEF DecodeFails, LoopEnds
<1>5. CASE DecodeEnds
  BY <1>0, <1>5 DEF DecodeEnds, LoopEnds
<1>6. CASE CheckClosed
  BY <1>0, <1>6 DEF CheckClosed, LoopEnds
<1>7. CASE Queue
  BY <1>0, <1>7 DEF Queue
<1>8. CASE Recv \/ RecvEnds
  BY <1>8 DEF Recv, RecvEnds
<1>9. ASSUME NEW c \in Closers, Close(c) \/ CloseAgain(c) \/ CloseLock(c) \/ CloseReturns(c) \/ CloseAgainReturns(c)
      PROVE  Ends'
  BY <1>9 DEF Close, CloseAgain, CloseLock, CloseReturns, CloseAgainReturns, CloseMove
<1>10. ASSUME NEW c \in Closers, Kill(c) PROVE Ends'
  <2>1. process # "none" /\ opened
    BY <1>10 DEF Kill, Locking
  <2>. QED
    BY <1>10, <2>1 DEF Kill, CloseMove
<1>11. CASE ServerReads \/ ServerNotifies \/ ServerAnswers
  BY <1>11 DEF ServerReads, ServerNotifies, ServerAnswers, ServerWrites, ServerWriteFails, ServerMove
<1>12. CASE Dies \/ Terminated \/ UNCHANGED vars
  BY <1>12 DEF Dies, Terminated, vars
<1>. QED
  BY <1>1, <1>2, <1>3, <1>4, <1>5, <1>6, <1>7, <1>8, <1>9, <1>10, <1>11, <1>12
     DEF Next, ReadLoop, CloseStep

LEMMA LockingNext == TypeOK /\ Locking /\ [Next]_vars => Locking'
<1>. SUFFICES ASSUME TypeOK, Locking, [Next]_vars PROVE Locking'
  OBVIOUS
<1>. USE DEF Locking, stateVars, loopVars, recvVars, serverVars
<1>0. closer \in [Closers -> {"idle", "lock", "kill", "leave", "wait", "done"}]
  BY DEF TypeOK
<1>1. CASE Open
  BY <1>1 DEF Open
<1>2. ASSUME NEW s \in Senders, SendRefused(s) \/ SendLock(s) \/ SendStep(s) PROVE Locking'
  BY <1>2 DEF SendRefused, SendLock, SendStep, SendWrites, SendFails
<1>3. CASE ReadLoop \/ Recv \/ RecvEnds
  <2>1. UNCHANGED <<mutex, opened, closed, closer>>
    BY <1>3 DEF ReadLoop, Decode, DecodeFails, DecodeEnds, CheckOpen, CheckClosed, Queue, LoopEnds, Recv, RecvEnds
  <2>. QED
    BY <2>1
<1>4. ASSUME NEW c \in Closers, CloseLock(c) PROVE Locking'
  <2>1. mutex' = Nobody /\ closed'
    BY <1>4 DEF CloseLock, CloseMove, Free
  <2>2. \A d \in Closers : closer'[d] = "kill" => d = c \/ closer[d] = "kill"
    BY <1>0, <1>4 DEF CloseLock, CloseMove
  <2>3. closer'[c] = "kill" => opened'
    BY <1>0, <1>4 DEF CloseLock, CloseMove
  <2>. QED
    BY <1>4, <2>1, <2>2, <2>3 DEF CloseLock, CloseMove
<1>5. ASSUME NEW c \in Closers,
             Close(c) \/ CloseAgain(c) \/ Kill(c) \/ CloseReturns(c) \/ CloseAgainReturns(c)
      PROVE  Locking'
  <2>1. /\ UNCHANGED <<mutex, closed, opened>>
        /\ \E place \in {"lock", "wait", "leave", "done"} : closer' = [closer EXCEPT ![c] = place]
    BY <1>5 DEF Close, CloseAgain, Kill, CloseReturns, CloseAgainReturns, CloseMove
  <2>2. \A d \in Closers : closer'[d] = "kill" => closer[d] = "kill"
    BY <1>0, <2>1
  <2>. QED
    BY <2>1, <2>2
<1>6. CASE ServerReads \/ ServerNotifies \/ ServerAnswers
  BY <1>6 DEF ServerReads, ServerNotifies, ServerAnswers, ServerWrites, ServerWriteFails, ServerMove
<1>7. CASE Dies \/ Terminated \/ UNCHANGED vars
  BY <1>7 DEF Dies, Terminated, vars
<1>. QED
  BY <1>1, <1>2, <1>3, <1>4, <1>5, <1>6, <1>7 DEF Next, CloseStep

LEMMA InvNext == IInv /\ [Next]_vars => IInv'
BY TypeNext, NumberedNext, EndsNext, LockingNext DEF IInv

LEMMA InvAlways == Spec => []IInv
BY InitInv, InvNext, PTL DEF Spec

-----------------------------------------------------------------------------
(* The theorems.                                                           *)

(***************************************************************************)
(* Types, and neither the pipes nor recvCh hold more than their capacity.  *)
(***************************************************************************)
THEOREM TypeCorrect == Spec => []TypeOK
BY InvAlways, PTL DEF IInv

LEMMA WireInit == Init => Wire!Init
BY DEF Init, Wire!Init

LEMMA WireNext == IInv /\ [Next]_vars => [Wire!Next]_Wire!vars
<1>. SUFFICES ASSUME IInv, [Next]_vars PROVE [Wire!Next]_Wire!vars
  OBVIOUS
<1>. USE DEF stateVars, loopVars, recvVars, serverVars
<1>0. /\ got \in Seq(Nat) /\ recvCh \in Seq(Nat) /\ written \in Nat /\ InHand \in {0, 1}
      /\ recvErr \in BOOLEAN
  BY DEF IInv, TypeOK, InHand
<1>1. CASE Recv
  <2>1. recvCh # <<>> /\ got' = Append(got, Head(recvCh))
    BY <1>1 DEF Recv
  <2>2. Head(recvCh) = Len(got) + 1 /\ Len(got) < written
    <3>1. Head(recvCh) = recvCh[1] /\ Len(recvCh) > 0 /\ Len(recvCh) \in Nat
      BY <1>0, <2>1
    <3>2. recvCh[1] = Len(got) + 1
      BY <3>1 DEF IInv, Numbered
    <3>. QED
      BY <1>0, <3>1, <3>2 DEF IInv, Numbered, Passed
  <2>3. ~ended
    BY <2>1 DEF IInv, Ends
  <2>4. Wire!Get
    BY <1>1, <2>1, <2>2, <2>3 DEF Recv, Wire!Get
  <2>. QED
    BY <2>4 DEF Wire!Next
<1>2. CASE RecvEnds
  <2>1. Wire!End
    BY <1>2 DEF RecvEnds, Wire!End, IInv, Ends, Broken
  <2>. QED
    BY <2>1 DEF Wire!Next
<1>3. CASE ServerWrites
  BY <1>3 DEF ServerWrites, ServerMove, Wire!Next, Wire!Put, Wire!vars
<1>4. ASSUME UNCHANGED <<written, got, ended>>, Broken => Broken' PROVE [Wire!Next]_Wire!vars
  BY <1>4 DEF Broken, Wire!Next, Wire!Break, Wire!vars
<1>5. CASE Open
  BY <1>4, <1>5 DEF Open, Broken, IInv, Ends
<1>6. ASSUME NEW s \in Senders, SendRefused(s) \/ SendLock(s) \/ SendStep(s)
      PROVE  [Wire!Next]_Wire!vars
  BY <1>4, <1>6 DEF SendRefused, SendLock, SendStep, SendWrites, SendFails, Broken
<1>7. CASE ReadLoop
  BY <1>0, <1>4, <1>7 DEF ReadLoop, Decode, DecodeFails, DecodeEnds, CheckOpen, CheckClosed, Queue, LoopEnds, Broken
<1>8. ASSUME NEW c \in Closers, Close(c) \/ CloseAgain(c) \/ CloseStep(c)
      PROVE  [Wire!Next]_Wire!vars
  BY <1>4, <1>8 DEF Close, CloseAgain, CloseStep, CloseLock, Kill, CloseReturns, CloseAgainReturns, CloseMove, Broken
<1>9. CASE ServerReads \/ ServerNotifies \/ ServerWriteFails
  BY <1>4, <1>9 DEF ServerReads, ServerNotifies, ServerWriteFails, ServerMove, Broken
<1>10. CASE Dies \/ Terminated \/ UNCHANGED vars
  BY <1>4, <1>10 DEF Dies, Terminated, vars, Broken
<1>. QED
  BY <1>1, <1>2, <1>3, <1>5, <1>6, <1>7, <1>8, <1>9, <1>10 DEF Next, ServerAnswers

(***************************************************************************)
(* The messages of the server come out of Recv in the order they were sent *)
(* and without a gap, however many calls of Send and Close race with       *)
(* readLoop: stdio_transport.go:126-164.                                   *)
(***************************************************************************)
THEOREM WireImplemented == Spec => ImplementsMessageWire
BY InvAlways, WireInit, WireNext, PTL DEF Spec, ImplementsMessageWire, Wire!Spec

(***************************************************************************)
(* Once the two ends have locked each other out no step of the transport,  *)
(* of its callers or of the server ends it: a Close waits for the mutex    *)
(* before it kills, and only the server's death, or the context of Open    *)
(* that brings it about, makes room.  stdio_transport.go:94-123, 156-158.  *)
(***************************************************************************)
LockedForGood == [][Deadlocked => Deadlocked' \/ Dies]_vars

THEOREM OnlyDeathUnlocks == Spec => LockedForGood
<1>1. IInv /\ [Next]_vars => [Deadlocked => Deadlocked' \/ Dies]_vars
  <2>. SUFFICES ASSUME IInv, Next, Deadlocked, ~Dies PROVE Deadlocked'
    OBVIOUS
  <2>. USE DEF Deadlocked, stateVars, loopVars, recvVars, serverVars
  <2>0. stdin \in Nat /\ InCap \in Nat /\ Len(stdout) \in Nat /\ ~closed
    BY StdioAssumption DEF IInv, TypeOK, Locking
  <2>1. CASE Open \/ ReadLoop \/ ServerReads \/ ServerNotifies \/ ServerAnswers
    BY <2>0, <2>1 DEF Open, Free, ReadLoop, Decode, DecodeFails, DecodeEnds, CheckOpen, CheckClosed, Queue,
       ServerReads, ServerNotifies, ServerAnswers, ServerWrites, ServerWriteFails
  <2>2. ASSUME NEW s \in Senders, SendRefused(s) \/ SendLock(s) \/ SendStep(s) PROVE FALSE
    BY <2>0, <2>2 DEF SendRefused, SendLock, SendStep, SendWrites, SendFails, Free
  <2>3. CASE Recv \/ RecvEnds \/ Terminated
    BY <2>3 DEF Recv, RecvEnds, Terminated, vars
  <2>4. ASSUME NEW c \in Closers, Close(c) \/ CloseAgain(c) \/ CloseStep(c) PROVE Deadlocked'
    <3>1. ~CloseLock(c) /\ ~Kill(c)
      BY <2>0 DEF CloseLock, Kill, Free, IInv, Locking
    <3>. QED
      BY <2>4, <3>1 DEF Close, CloseAgain, CloseStep, CloseReturns, CloseAgainReturns, CloseMove
  <2>. QED
    BY <2>1, <2>2, <2>3, <2>4 DEF Next
<1>. QED
  BY <1>1, InvAlways, PTL DEF Spec, LockedForGood
=============================================================================
