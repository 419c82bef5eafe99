-------------------------- MODULE TurnMemoryProofs --------------------------
(***************************************************************************)
(* Proofs about TurnMemory, for any number of turns, sessions and crashes. *)
(***************************************************************************)
EXTENDS TurnMemory, TLAPS

-----------------------------------------------------------------------------
(* The inductive invariant.  A turn is covered by an entry that tells of   *)
(* it and that no compaction under way is about to remove.  That it stays  *)
(* so rests on three facts: what an id tells never changes once it is in   *)
(* the store, an id is planned to be removed only after it was written,    *)
(* and a summary tells whatever the ids it replaces tell.  That its        *)
(* session finds the entry: a turn that names a session lists, and so sums *)
(* up, what turns of that session wrote.                                   *)

\* The compaction of u has written its summary and is removing entries.
Removing(u) == pc[u] = "delete" \/ (pc[u] \in Writing /\ then[u] = "delete")

Doomed(i) == \E u \in Turns : Removing(u) /\ i \in toRemove[u]

\* The write back of t is over; its compaction has written the summary or ended.
WrittenBack(t) == pc[t] \notin {"idle", "put"} /\ ~(pc[t] \in Writing /\ then[t] = "plan")
Summed(t) == Removing(t) \/ pc[t] \in Ended

\* What a store may hold under the ids of each turn.
Sound(s) ==
  \A t \in Turns :
    /\ s[t] \in {{}, {t}}
    /\ s[t] # {} => pc[t] \notin {"idle", "put"}
    /\ s[SummaryOf(t)] \in {{}, summary[t]}
    /\ s[SummaryOf(t)] # {} => Summed(t)

StoreSound == Sound(entries)
FileSound == file # Partial /\ Sound(file)

PlansAreOld ==
  \A u, t \in Turns :
    /\ t \in toRemove[u] => WrittenBack(t)
    /\ SummaryOf(t) \in toRemove[u] => Summed(t)

SummariesTell ==
  \A u, t \in Turns : pc[u] = "summary" =>
    /\ t \in toRemove[u] => t \in summary[u]
    /\ SummaryOf(t) \in toRemove[u] => summary[t] \subseteq summary[u]

\* A turn of a session sums up what its session wrote.
SummariesOwn ==
  \A u \in Turns : session[u] = NoSession \/ \A t \in summary[u] : session[t] = session[u]

WritesStand ==
  \A t \in Turns :
    /\ pc[t] \in Writing => then[t] \in {"plan", "delete"}
    /\ pc[t] \in Writing /\ then[t] = "plan" => t \in entries[t]
    /\ pc[t] = "rename" => tmp = entries

Stopped == ~up => \A t \in Turns : pc[t] \in Ended \cup {"idle"}

Covered == up => \A t \in acked : \E i \in Ids : t \in entries[i] /\ ~Doomed(i)
FileCovers == \A t \in acked : Has(file, t)

IInv ==
  /\ TypeOK /\ StoreSound /\ FileSound /\ PlansAreOld /\ SummariesTell
  /\ SummariesOwn /\ WritesStand /\ Stopped /\ Covered /\ FileCovers
-----------------------------------------------------------------------------
(* Ids and stores.                                                         *)

LEMMA IdFacts ==
  /\ Turns \subseteq Ids /\ NoTurn \notin Turns /\ Ids # {}
  /\ \A t \in Turns : SummaryOf(t) \in Ids \ Turns
  /\ \A i \in Ids : i \in Turns \/ \E t \in Turns : i = SummaryOf(t)
  /\ \A t, u \in Turns : SummaryOf(t) = SummaryOf(u) => t = u
<1>1. \A i \in Ids : i \in Turns \/ \E t \in Turns : i = SummaryOf(t)
  <2>1. SUFFICES ASSUME NEW i \in Ids, i \notin Turns
                 PROVE  \E t \in Turns : i = SummaryOf(t)
    OBVIOUS
  <2>2. i - NumTurns \in Turns /\ i = SummaryOf(i - NumTurns)
    BY <2>1, MemoryAssumption DEF Ids, Turns, SummaryOf
  <2>q. QED BY <2>2
<1>q. QED BY <1>1, MemoryAssumption DEF Ids, Turns, SummaryOf, NoTurn

LEMMA Authors == \A t \in Turns : Author(t) = t /\ Author(SummaryOf(t)) = t
BY IdFacts, MemoryAssumption DEF Author, SummaryOf, Turns

LEMMA StoreFacts == Empty \in Store /\ Partial \notin Store
<1>1. \A s \in Store : DOMAIN s = Ids
  BY DEF Store
<1>2. DOMAIN Partial = {}
  BY DEF Partial
<1>q. QED BY <1>1, <1>2, IdFacts DEF Empty, Store

-----------------------------------------------------------------------------
(* Types.                                                                  *)

LEMMA TypeInit == Init => TypeOK
BY IdFacts, StoreFacts, MemoryAssumption DEF Init, TypeOK, Writing, Ended, NoFile

LEMMA TypeStep == TypeOK /\ [Next]_vars => TypeOK'
<1> SUFFICES ASSUME TypeOK, [Next]_vars PROVE TypeOK'
  OBVIOUS
<1> USE IdFacts, StoreFacts DEF TypeOK, Goto, Writing, Ended, turnVars, storeVars, fileVars
<1>1. ASSUME NEW t \in Turns, Finalize(t) PROVE TypeOK'
  BY <1>1 DEF Finalize
<1>2. ASSUME NEW t \in Turns, OpenTmp(t) PROVE TypeOK'
  BY <1>2 DEF OpenTmp
<1>3. ASSUME NEW t \in Turns, WriteTmp(t) PROVE TypeOK'
  BY <1>3 DEF WriteTmp
<1>4. ASSUME NEW t \in Turns, Rename(t) PROVE TypeOK'
  BY <1>4 DEF Rename, NoFile
<1>5. ASSUME NEW t \in Turns, PersistFails(t) PROVE TypeOK'
  BY <1>5 DEF PersistFails, NoFile
<1>6. ASSUME NEW t \in Turns, Interrupted(t) PROVE TypeOK'
  BY <1>6 DEF Interrupted
<1>7. ASSUME NEW t \in Turns, WriteBack(t) PROVE TypeOK'
  BY <1>7 DEF WriteBack, Change, Store
<1>8. ASSUME NEW t \in Turns, WriteNothing(t) PROVE TypeOK'
  BY <1>8 DEF WriteNothing
<1>9. ASSUME NEW t \in Turns, PlanCompact(t) PROVE TypeOK'
  <2>1. PICK summed \in SUBSET Listed(t), removed \in SUBSET Listed(t) :
          /\ toRemove' = [toRemove EXCEPT ![t] = removed]
          /\ summary' = [summary EXCEPT ![t] = Told(summed)]
          /\ pc' = [pc EXCEPT ![t] = IF summed = {} THEN "done" ELSE AfterPlan]
    BY <1>9 DEF PlanCompact
  <2>2. removed \in SUBSET Ids /\ Told(summed) \in SUBSET Turns
    BY DEF Listed, Told, Store
  <2>q. QED BY <1>9, <2>1, <2>2 DEF PlanCompact, AfterPlan
<1>10. ASSUME NEW t \in Turns, PutSummary(t) PROVE TypeOK'
  BY <1>10 DEF PutSummary, Change, Store
<1>11. ASSUME NEW t \in Turns, NEW i \in Ids, Delete(t, i) PROVE TypeOK'
  BY <1>11 DEF Delete, Change, Forget, Store
<1>12. ASSUME NEW t \in Turns, NEW i \in Ids, DeleteMissing(t, i) PROVE TypeOK'
  BY <1>12 DEF DeleteMissing, Forget
<1>13. ASSUME NEW t \in Turns, Applied(t) PROVE TypeOK'
  BY <1>13 DEF Applied
<1>14. CASE Crash
  <2>1. \A t \in Turns : pc'[t] \in Ended \cup {"idle"}
    BY <1>14 DEF Crash
  <2>2. /\ pc' \in [Turns -> {"idle", "put", "plan", "summary", "delete"} \cup Writing \cup Ended]
        /\ crashes' \in 0..MaxCrashes
    BY <1>14, MemoryAssumption DEF Crash
  <2>3. \A t \in Turns : pc'[t] \in Writing <=> holder' = t
    BY <1>14, <2>1 DEF Crash
  <2>q. QED BY <1>14, <2>2, <2>3 DEF Crash
<1>15. CASE Restart
  BY <1>15 DEF Restart
<1>16. CASE UNCHANGED vars
  BY <1>16 DEF vars
<1>q. QED
  BY <1>1, <1>2, <1>3, <1>4, <1>5, <1>6, <1>7, <1>8, <1>9, <1>10, <1>11, <1>12,
     <1>13, <1>14, <1>15, <1>16 DEF Next, FinalizeStep, Terminated

\* Types hold in every state, for any number of turns and crashes (file_store.go:13-184).
THEOREM TypeCorrect == Spec => []TypeOK
<1>1. Init => TypeOK
  BY TypeInit
<1>2. TypeOK /\ [Next]_vars => TypeOK'
  BY TypeStep
<1>q. QED BY <1>1, <1>2, PTL DEF Spec

-----------------------------------------------------------------------------
(* A turn never goes back, and the summary of a turn that is past its      *)
(* plan does not change.                                                   *)

Onward(t) ==
  /\ pc[t] \notin {"idle", "put"} => pc'[t] \notin {"idle", "put"}
  /\ WrittenBack(t) => WrittenBack(t)'
  /\ Summed(t) => Summed(t)' /\ summary'[t] = summary[t]

LEMMA OnlyOnward == TypeOK /\ WritesStand /\ [Next]_vars => \A t \in Turns : Onward(t)
<1> SUFFICES ASSUME TypeOK, WritesStand, [Next]_vars, NEW t \in Turns PROVE Onward(t)
  OBVIOUS
<1> USE DEF TypeOK, WritesStand, Goto, Writing, Ended, Onward, WrittenBack, Summed, Removing
<1>1. ASSUME NEW u \in Turns, Finalize(u) PROVE Onward(t)
  BY <1>1 DEF Finalize
<1>2. ASSUME NEW u \in Turns, OpenTmp(u) PROVE Onward(t)
  BY <1>2 DEF OpenTmp
<1>3. ASSUME NEW u \in Turns, WriteTmp(u) PROVE Onward(t)
  BY <1>3 DEF WriteTmp
<1>4. ASSUME NEW u \in Turns, Rename(u) PROVE Onward(t)
  BY <1>4 DEF Rename
<1>5. ASSUME NEW u \in Turns, PersistFails(u) PROVE Onward(t)
  BY <1>5 DEF PersistFails
<1>6. ASSUME NEW u \in Turns, Interrupted(u) PROVE Onward(t)
  BY <1>6 DEF Interrupted
<1>7. ASSUME NEW u \in Turns, WriteBack(u) PROVE Onward(t)
  BY <1>7 DEF WriteBack, Change
<1>8. ASSUME NEW u \in Turns, WriteNothing(u) PROVE Onward(t)
  BY <1>8 DEF WriteNothing
<1>9. ASSUME NEW u \in Turns, PlanCompact(u) PROVE Onward(t)
  BY <1>9 DEF PlanCompact, AfterPlan
<1>10. ASSUME NEW u \in Turns, PutSummary(u) PROVE Onward(t)
  BY <1>10 DEF PutSummary, Change
<1>11. ASSUME NEW u \in Turns, NEW i \in Ids, Delete(u, i) PROVE Onward(t)
  BY <1>11 DEF Delete, Change
<1>12. ASSUME NEW u \in Turns, NEW i \in Ids, DeleteMissing(u, i) PROVE Onward(t)
  BY <1>12 DEF DeleteMissing
<1>13. ASSUME NEW u \in Turns, Applied(u) PROVE Onward(t)
  BY <1>13 DEF Applied
<1>14. CASE Crash
  BY <1>14 DEF Crash, turnVars
<1>15. CASE Restart
  BY <1>15 DEF Restart, turnVars
<1>16. CASE UNCHANGED vars
  BY <1>16 DEF vars, turnVars
<1>q. QED
  BY <1>1, <1>2, <1>3, <1>4, <1>5, <1>6, <1>7, <1>8, <1>9, <1>10, <1>11, <1>12,
     <1>13, <1>14, <1>15, <1>16 DEF Next, FinalizeStep, Terminated

-----------------------------------------------------------------------------
(* One lemma for each part of the invariant: every step keeps it.          *)

LEMMA WritesStandStep == IInv /\ [Next]_vars => WritesStand'
<1> SUFFICES ASSUME IInv, [Next]_vars PROVE WritesStand'
  OBVIOUS
<1> USE DEF IInv, TypeOK, WritesStand, Goto, Writing, Ended
<1>1. ASSUME NEW t \in Turns, Finalize(t) PROVE WritesStand'
  BY <1>1 DEF Finalize, storeVars, fileVars
<1>2. ASSUME NEW t \in Turns, OpenTmp(t) PROVE WritesStand'
  BY <1>2 DEF OpenTmp, storeVars
<1>3. ASSUME NEW t \in Turns, WriteTmp(t) PROVE WritesStand'
  BY <1>3 DEF WriteTmp, storeVars
<1>4. ASSUME NEW t \in Turns, Rename(t) PROVE WritesStand'
  BY <1>4, IdFacts DEF Rename
<1>5. ASSUME NEW t \in Turns, PersistFails(t) PROVE WritesStand'
  BY <1>5, IdFacts DEF PersistFails
<1>6. ASSUME NEW t \in Turns, Interrupted(t) PROVE WritesStand'
  BY <1>6 DEF Interrupted, storeVars, fileVars
<1>7. ASSUME NEW t \in Turns, WriteBack(t) PROVE WritesStand'
  BY <1>7, IdFacts DEF WriteBack, Change, fileVars, Store
<1>8. ASSUME NEW t \in Turns, WriteNothing(t) PROVE WritesStand'
  BY <1>8 DEF WriteNothing, storeVars, fileVars
<1>9. ASSUME NEW t \in Turns, PlanCompact(t) PROVE WritesStand'
  BY <1>9 DEF PlanCompact, AfterPlan, storeVars, fileVars
<1>10. ASSUME NEW t \in Turns, PutSummary(t) PROVE WritesStand'
  BY <1>10, IdFacts DEF PutSummary, Change, fileVars, Store
<1>11. ASSUME NEW t \in Turns, NEW i \in Ids, Delete(t, i) PROVE WritesStand'
  BY <1>11, IdFacts DEF Delete, Change, fileVars, Store
<1>12. ASSUME NEW t \in Turns, NEW i \in Ids, DeleteMissing(t, i) PROVE WritesStand'
  BY <1>12 DEF DeleteMissing, storeVars, fileVars
<1>13. ASSUME NEW t \in Turns, Applied(t) PROVE WritesStand'
  BY <1>13 DEF Applied, storeVars, fileVars
<1>14. CASE Crash
  <2>1. \A t \in Turns : pc'[t] \in Ended \cup {"idle"}
    BY <1>14 DEF Crash
  <2>q. QED BY <2>1
<1>15. CASE Restart
  BY <1>15 DEF Restart, Stopped, turnVars
<1>16. CASE UNCHANGED vars
  BY <1>16 DEF vars, turnVars, storeVars, fileVars
<1>q. QED
  BY <1>1, <1>2, <1>3, <1>4, <1>5, <1>6, <1>7, <1>8, <1>9, <1>10, <1>11, <1>12,
     <1>13, <1>14, <1>15, <1>16 DEF Next, FinalizeStep, Terminated

LEMMA StoppedStep == IInv /\ [Next]_vars => Stopped'
<1> SUFFICES ASSUME IInv, [Next]_vars, ~up' PROVE Stopped'
  BY DEF Stopped
<1> USE DEF IInv, Stopped
<1>1. CASE Crash
  <2>1. \A t \in Turns : pc'[t] = IF pc[t] \in Ended \cup {"idle"} THEN pc[t] ELSE "lost"
    BY <1>1 DEF Crash
  <2>q. QED BY <2>1 DEF Ended
<1>2. CASE ~Crash /\ ~UNCHANGED vars
  <2>1. /\ \A t \in Turns : pc[t] \in Ended \cup {"idle"}
        /\ up' = up
    BY <1>2 DEF Next, FinalizeStep, Finalize, OpenTmp, WriteTmp, Rename, PersistFails,
         Interrupted, WriteBack, WriteNothing, PlanCompact, PutSummary, Delete,
         DeleteMissing, Applied, Change, Restart, Terminated
  <2>q. QED
    BY <1>2, <2>1 DEF Next, FinalizeStep, Finalize, OpenTmp, WriteTmp, Rename, PersistFails,
         Interrupted, WriteBack, WriteNothing, PlanCompact, PutSummary, Delete,
         DeleteMissing, Applied, Change, Restart, Terminated, Writing, Ended
<1>3. CASE UNCHANGED vars
  BY <1>3 DEF vars, turnVars
<1>q. QED BY <1>1, <1>2, <1>3

\* An id keeps what it tells as long as a store holds it.
LEMMA SoundStep == IInv /\ [Next]_vars => StoreSound' /\ FileSound'
<1> SUFFICES ASSUME IInv, [Next]_vars PROVE StoreSound' /\ FileSound'
  OBVIOUS
<1> DEFINE Kept(s, r) ==
      \A t \in Turns : /\ r[t] \in {s[t], {}} /\ r[SummaryOf(t)] \in {s[SummaryOf(t)], {}}
<1>0. \A t \in Turns : Onward(t)
  BY OnlyOnward DEF IInv
<1>1. ASSUME Kept(entries, entries') PROVE StoreSound'
  BY <1>0, <1>1 DEF IInv, StoreSound, Sound, Onward
<1>2. ASSUME Kept(file, file'), file' # Partial PROVE FileSound'
  BY <1>0, <1>2 DEF IInv, FileSound, Sound, Onward
<1>3. ASSUME Kept(entries, file'), file' # Partial PROVE FileSound'
  BY <1>0, <1>3 DEF IInv, FileSound, StoreSound, Sound, Onward
<1>4. ASSUME Kept(file, entries') PROVE StoreSound'
  BY <1>0, <1>4 DEF IInv, FileSound, StoreSound, Sound, Onward
<1>5. CASE UNCHANGED <<entries, file>>
  BY <1>1, <1>2, <1>5 DEF IInv, FileSound
<1> USE DEF Goto
<1>6. ASSUME NEW t \in Turns, Rename(t) PROVE StoreSound' /\ FileSound'
  <2>1. entries' = entries /\ file' = entries /\ entries # Partial
    BY <1>6, StoreFacts DEF Rename, IInv, WritesStand, TypeOK
  <2>q. QED BY <1>1, <1>3, <2>1
<1>7. ASSUME NEW t \in Turns, WriteBack(t) PROVE StoreSound' /\ FileSound'
  <2>1. /\ file' = file /\ summary' = summary
        /\ entries' = [entries EXCEPT ![t] = {t}]
        /\ pc'[t] = "persist"
    BY <1>7 DEF WriteBack, Change, fileVars, IInv, TypeOK
  <2>2. /\ entries'[t] = {t}
        /\ \A u \in Turns : /\ u # t => entries'[u] = entries[u]
                            /\ entries'[SummaryOf(u)] = entries[SummaryOf(u)]
    BY <2>1, IdFacts DEF IInv, TypeOK, Store
  <2>3. StoreSound'
    BY <1>0, <2>1, <2>2 DEF IInv, StoreSound, Sound, Onward
  <2>q. QED BY <1>2, <2>1, <2>3 DEF IInv, FileSound
<1>8. ASSUME NEW t \in Turns, PutSummary(t) PROVE StoreSound' /\ FileSound'
  <2>1. /\ file' = file /\ summary' = summary
        /\ entries' = [entries EXCEPT ![SummaryOf(t)] = summary[t]]
        /\ pc'[t] = "persist" /\ then'[t] = "delete"
    BY <1>8 DEF PutSummary, Change, fileVars, IInv, TypeOK
  <2>2. /\ entries'[SummaryOf(t)] = summary'[t]
        /\ \A u \in Turns : /\ entries'[u] = entries[u]
                            /\ u # t => entries'[SummaryOf(u)] = entries[SummaryOf(u)]
    BY <2>1, IdFacts DEF IInv, TypeOK, Store
  <2>3. Summed(t)'
    BY <2>1 DEF Summed, Removing, Writing
  <2>4. StoreSound'
    BY <1>0, <2>1, <2>2, <2>3 DEF IInv, StoreSound, Sound, Onward
  <2>q. QED BY <1>2, <2>1, <2>4 DEF IInv, FileSound
<1>9. ASSUME NEW t \in Turns, NEW i \in Ids, Delete(t, i) PROVE StoreSound' /\ FileSound'
  <2>1. file' = file /\ entries' = [entries EXCEPT ![i] = {}]
    BY <1>9 DEF Delete, Change, fileVars
  <2>2. Kept(entries, entries')
    BY <2>1, IdFacts DEF IInv, TypeOK, Store
  <2>q. QED BY <1>1, <1>2, <2>1, <2>2 DEF IInv, FileSound
<1>10. CASE Crash
  <2>1. file' = file /\ \A i \in Ids : entries'[i] = {}
    BY <1>10 DEF Crash, fileVars, Empty
  <2>q. QED BY <1>1, <1>2, <2>1, IdFacts DEF IInv, FileSound
<1>11. CASE Restart
  BY <1>2, <1>4, <1>11 DEF Restart, fileVars, IInv, FileSound
<1>q. QED
  BY <1>5, <1>6, <1>7, <1>8, <1>9, <1>10, <1>11
     DEF Next, FinalizeStep, Finalize, OpenTmp, WriteTmp, PersistFails, Interrupted,
         WriteNothing, PlanCompact, DeleteMissing, Applied, Terminated,
         vars, storeVars, fileVars

LEMMA PlansStep == IInv /\ [Next]_vars => PlansAreOld' /\ SummariesTell'
<1> SUFFICES ASSUME IInv, [Next]_vars PROVE PlansAreOld' /\ SummariesTell'
  OBVIOUS
<1>0. \A t \in Turns : Onward(t)
  BY OnlyOnward DEF IInv
<1>1. CASE \E u \in Turns : PlanCompact(u)
  <2>1. PICK u \in Turns : PlanCompact(u)
    BY <1>1
  <2>2. PICK summed \in SUBSET Listed(u), removed \in SUBSET Listed(u) :
          /\ removed \subseteq summed
          /\ toRemove' = [toRemove EXCEPT ![u] = removed]
          /\ summary' = [summary EXCEPT ![u] = Told(summed)]
          /\ pc' = [pc EXCEPT ![u] = IF summed = {} THEN "done" ELSE AfterPlan]
    BY <2>1 DEF PlanCompact, Goto
  <2>3. /\ toRemove'[u] = removed /\ summary'[u] = Told(summed)
        /\ \A v \in Turns \ {u} : /\ toRemove'[v] = toRemove[v] /\ summary'[v] = summary[v]
                                  /\ pc'[v] = pc[v]
    BY <2>2 DEF IInv, TypeOK
  <2>4. ASSUME NEW t \in Turns, entries[t] # {} PROVE WrittenBack(t) /\ entries[t] = {t}
    BY <2>1, <2>4, IdFacts DEF PlanCompact, IInv, StoreSound, Sound, TypeOK, WrittenBack
  <2>5. ASSUME NEW t \in Turns, entries[SummaryOf(t)] # {}
        PROVE  Summed(t) /\ entries[SummaryOf(t)] = summary[t]
    BY <2>5 DEF IInv, StoreSound, Sound
  <2>6. ~Summed(u)
    BY <2>1 DEF PlanCompact, Summed, Removing, Writing, Ended
  <2>7. ASSUME NEW t \in Turns
        PROVE  /\ t \in removed => t \in Told(summed)
               /\ SummaryOf(t) \in removed => summary'[t] \subseteq Told(summed)
    BY <2>2, <2>3, <2>4, <2>5, <2>6, IdFacts DEF Listed, Told
  <2>8. PlansAreOld'
    BY <1>0, <2>2, <2>3, <2>4, <2>5 DEF IInv, Listed, PlansAreOld, Onward
  <2>9. SummariesTell'
    <3> SUFFICES ASSUME NEW v \in Turns, NEW t \in Turns, pc'[v] = "summary"
                 PROVE  /\ t \in toRemove'[v] => t \in summary'[v]
                        /\ SummaryOf(t) \in toRemove'[v] => summary'[t] \subseteq summary'[v]
      BY DEF SummariesTell
    <3>1. CASE v = u
      BY <3>1, <2>3, <2>7
    <3>2. CASE v # u
      BY <3>2, <1>0, <2>3 DEF IInv, SummariesTell, PlansAreOld, Onward
    <3>q. QED BY <3>1, <3>2
  <2>q. QED BY <2>8, <2>9
<1>2. CASE /\ summary' = summary
           /\ \A v \in Turns : /\ toRemove'[v] \subseteq toRemove[v]
                               /\ pc'[v] = "summary" => pc[v] = "summary"
  <2>1. PlansAreOld'
    BY <1>0, <1>2 DEF IInv, PlansAreOld, Onward
  <2>q. QED BY <1>2, <2>1 DEF IInv, SummariesTell
<1>3. ASSUME NEW t \in Turns, NEW i \in Ids, Delete(t, i) \/ DeleteMissing(t, i)
      PROVE  PlansAreOld' /\ SummariesTell'
  BY <1>2, <1>3 DEF Delete, DeleteMissing, Change, Goto, Forget, IInv, TypeOK
<1>4. ASSUME NEW t \in Turns, Rename(t) PROVE PlansAreOld' /\ SummariesTell'
  BY <1>2, <1>4 DEF Rename, Goto, IInv, TypeOK, WritesStand, Writing
<1>5. ASSUME NEW t \in Turns,
             \/ Finalize(t) \/ OpenTmp(t) \/ WriteTmp(t) \/ PersistFails(t) \/ Interrupted(t)
             \/ WriteBack(t) \/ WriteNothing(t) \/ PutSummary(t) \/ Applied(t)
      PROVE  PlansAreOld' /\ SummariesTell'
  BY <1>2, <1>5 DEF Finalize, OpenTmp, WriteTmp, PersistFails, Interrupted, WriteBack,
       WriteNothing, PutSummary, Applied, Change, Goto, IInv, TypeOK
<1>6. CASE Crash
  BY <1>2, <1>6 DEF Crash, Ended
<1>7. CASE Restart \/ UNCHANGED vars
  BY <1>2, <1>7 DEF Restart, vars, turnVars
<1>q. QED
  BY <1>1, <1>3, <1>4, <1>5, <1>6, <1>7 DEF Next, FinalizeStep, Terminated

\* What an entry tells is of the session of its author, unless that one has none.
LEMMA EntriesOwn ==
  ASSUME IInv, NEW i \in Ids, NEW t \in entries[i]
  PROVE  session[Author(i)] = NoSession \/ session[t] = session[Author(i)]
<1>1. CASE i \in Turns
  <2>1. t = i /\ Author(i) = i
    BY <1>1, Authors DEF IInv, StoreSound, Sound
  <2>q. QED BY <2>1
<1>2. ASSUME NEW u \in Turns, i = SummaryOf(u)
      PROVE  session[Author(i)] = NoSession \/ session[t] = session[Author(i)]
  <2>1. t \in summary[u] /\ Author(i) = u
    BY <1>2, Authors DEF IInv, StoreSound, Sound
  <2>q. QED BY <2>1 DEF IInv, SummariesOwn
<1>q. QED BY <1>1, <1>2, IdFacts

LEMMA SummariesOwnStep == IInv /\ [Next]_vars => SummariesOwn'
<1> SUFFICES ASSUME IInv, [Next]_vars PROVE SummariesOwn'
  OBVIOUS
<1>1. session' = session
  BY DEF Next, FinalizeStep, Finalize, OpenTmp, WriteTmp, Rename, PersistFails, Interrupted,
     WriteBack, WriteNothing, PlanCompact, PutSummary, Delete, DeleteMissing, Applied, Change,
     Crash, Restart, Terminated, vars
<1>2. ASSUME NEW u \in Turns, PlanCompact(u) PROVE SummariesOwn'
  <2>1. PICK summed \in SUBSET Listed(u) : summary' = [summary EXCEPT ![u] = Told(summed)]
    BY <1>2 DEF PlanCompact
  <2>2. summary'[u] = Told(summed) /\ \A v \in Turns \ {u} : summary'[v] = summary[v]
    BY <2>1 DEF IInv, TypeOK
  <2>3. ASSUME session[u] # NoSession, NEW t \in Told(summed) PROVE session[t] = session[u]
    <3>1. PICK i \in summed : t \in entries[i]
      BY DEF Told
    <3>2. i \in Ids /\ session[Author(i)] = session[u]
      BY <2>3, <3>1 DEF Listed, Finds
    <3>q. QED BY <2>3, <3>1, <3>2, EntriesOwn
  <2>q. QED BY <1>1, <2>2, <2>3 DEF IInv, SummariesOwn
<1>3. CASE summary' = summary
  BY <1>1, <1>3 DEF IInv, SummariesOwn
<1>q. QED
  BY <1>2, <1>3
     DEF Next, FinalizeStep, Finalize, OpenTmp, WriteTmp, Rename, PersistFails, Interrupted,
         WriteBack, WriteNothing, PutSummary, Delete, DeleteMissing, Applied, Crash, Restart,
         Terminated, vars, turnVars

\* The witness of a covered turn outlives every step that changes no doomed id.
LEMMA CoveredStep == IInv /\ [Next]_vars => Covered'
<1> SUFFICES ASSUME IInv, [Next]_vars, up' PROVE Covered'
  BY DEF Covered
<1>1. ASSUME acked' = acked, up,
             \A i \in Ids : ~Doomed(i) => entries[i] \subseteq entries'[i] /\ ~Doomed(i)'
      PROVE  Covered'
  BY <1>1 DEF IInv, Covered
\* Nothing becomes doomed where no turn begins to remove.
<1>2. ASSUME \A u \in Turns : /\ toRemove'[u] \subseteq toRemove[u] \/ ~Removing(u)'
                              /\ Removing(u)' => Removing(u)
      PROVE  \A i \in Ids : ~Doomed(i) => ~Doomed(i)'
  BY <1>2 DEF Doomed
<1> USE DEF Goto
<1>3. ASSUME NEW t \in Turns, Rename(t) PROVE Covered'
  <2>1. /\ up /\ entries' = entries /\ toRemove' = toRemove /\ then' = then
        /\ pc'[t] = then[t] /\ then[t] \in {"plan", "delete"}
        /\ \A u \in Turns \ {t} : pc'[u] = pc[u]
        /\ acked' = IF then[t] = "plan" THEN acked \cup {t} ELSE acked
    BY <1>3 DEF Rename, IInv, TypeOK, WritesStand, Stopped, Writing, Ended
  <2>2. \A u \in Turns : Removing(u)' => Removing(u)
    BY <1>3, <2>1 DEF Rename, Removing, Writing
  <2>3. \A i \in Ids : ~Doomed(i) => ~Doomed(i)'
    BY <1>2, <2>1, <2>2
  <2>4. CASE then[t] = "plan"
    <3>1. t \in entries[t] /\ ~WrittenBack(t)
      BY <1>3, <2>4 DEF Rename, IInv, WritesStand, WrittenBack, Writing
    <3>2. ~Doomed(t)
      BY <3>1 DEF Doomed, IInv, PlansAreOld
    <3>3. acked' = acked \cup {t} /\ t \in Ids
      BY <2>1, <2>4, IdFacts
    <3>q. QED BY <2>1, <2>3, <3>1, <3>2, <3>3 DEF IInv, Covered
  <2>5. CASE then[t] # "plan"
    BY <1>1, <2>1, <2>3, <2>5
  <2>q. QED BY <2>4, <2>5
<1>4. ASSUME NEW t \in Turns, WriteBack(t) PROVE Covered'
  <2>1. /\ up /\ toRemove' = toRemove /\ acked' = acked /\ then'[t] = "plan" /\ pc'[t] = "persist"
        /\ entries' = [entries EXCEPT ![t] = {t}] /\ entries[t] \in {{}, {t}}
        /\ \A u \in Turns \ {t} : pc'[u] = pc[u] /\ then'[u] = then[u]
    BY <1>4 DEF WriteBack, Change, IInv, TypeOK, Stopped, Ended, StoreSound, Sound
  <2>2. \A u \in Turns : Removing(u)' => Removing(u)
    BY <2>1 DEF Removing
  <2>3. \A i \in Ids : entries[i] \subseteq entries'[i]
    BY <2>1 DEF IInv, TypeOK, Store
  <2>q. QED BY <1>1, <1>2, <2>1, <2>2, <2>3
<1>5. ASSUME NEW t \in Turns, PutSummary(t) PROVE Covered'
  <2>1. /\ up /\ toRemove' = toRemove /\ summary' = summary /\ acked' = acked
        /\ pc[t] = "summary" /\ pc'[t] = "persist" /\ then'[t] = "delete"
        /\ entries' = [entries EXCEPT ![SummaryOf(t)] = summary[t]]
        /\ \A u \in Turns \ {t} : pc'[u] = pc[u] /\ then'[u] = then[u]
    BY <1>5 DEF PutSummary, Change, IInv, TypeOK, Stopped, Ended
  <2>2. ~Summed(t)
    BY <2>1 DEF Summed, Removing, Writing, Ended
  <2>3. entries[SummaryOf(t)] = {} /\ SummaryOf(t) \in Ids /\ ~Doomed(SummaryOf(t))'
    BY <2>1, <2>2, IdFacts DEF IInv, StoreSound, Sound, PlansAreOld, Doomed
  <2>4. entries'[SummaryOf(t)] = summary[t] /\ \A i \in Ids \ {SummaryOf(t)} : entries'[i] = entries[i]
    BY <2>1, <2>3 DEF IInv, TypeOK, Store
  <2>5. \A u \in Turns \ {t} : Removing(u)' <=> Removing(u)
    BY <2>1 DEF Removing
  <2>6. SUFFICES ASSUME NEW v \in acked PROVE \E i \in Ids : v \in entries'[i] /\ ~Doomed(i)'
    BY <2>1 DEF Covered
  <2>7. PICK i \in Ids : v \in entries[i] /\ ~Doomed(i)
    BY <2>1 DEF IInv, Covered
  <2>8. CASE i \notin toRemove[t]
    BY <2>1, <2>3, <2>4, <2>5, <2>7, <2>8 DEF Doomed
  <2>9. CASE i \in toRemove[t]
    <3>1. v \in summary[t]
      <4>1. CASE i \in Turns
        BY <2>1, <2>7, <2>9, <4>1 DEF IInv, StoreSound, Sound, SummariesTell
      <4>2. ASSUME NEW u \in Turns, i = SummaryOf(u) PROVE v \in summary[t]
        BY <2>1, <2>7, <2>9, <4>2 DEF IInv, StoreSound, Sound, SummariesTell
      <4>q. QED BY <4>1, <4>2, IdFacts
    <3>q. QED BY <2>3, <2>4, <3>1
  <2>q. QED BY <2>8, <2>9
<1>6. ASSUME NEW t \in Turns, NEW i \in Ids, Delete(t, i) \/ DeleteMissing(t, i) PROVE Covered'
  <2>1. /\ up /\ acked' = acked /\ pc[t] = "delete" /\ i \in toRemove[t]
        /\ \A j \in Ids \ {i} : entries'[j] = entries[j]
        /\ \A u \in Turns : toRemove'[u] \subseteq toRemove[u]
        /\ \A u \in Turns \ {t} : pc'[u] = pc[u] /\ then'[u] = then[u]
    <3>1. pc[t] = "delete" /\ i \in toRemove[t] /\ acked' = acked /\ Forget(t, i)
      BY <1>6 DEF Delete, DeleteMissing, Change
    <3>2. up
      BY <3>1 DEF IInv, Stopped, Ended
    <3>3. \A j \in Ids \ {i} : entries'[j] = entries[j]
      <4>1. entries' = entries \/ entries' = [entries EXCEPT ![i] = {}]
        BY <1>6 DEF Delete, DeleteMissing, Change, storeVars
      <4>q. QED BY <4>1 DEF IInv, TypeOK, Store
    <3>4. \A u \in Turns \ {t} : pc'[u] = pc[u] /\ then'[u] = then[u]
      BY <1>6 DEF Delete, DeleteMissing, Change, IInv, TypeOK
    <3>5. \A u \in Turns : toRemove'[u] \subseteq toRemove[u]
      BY <3>1 DEF Forget, IInv, TypeOK
    <3>q. QED BY <3>1, <3>2, <3>3, <3>4, <3>5
  <2>2. Removing(t) /\ Doomed(i)
    BY <2>1 DEF Removing, Doomed
  <2>3. \A u \in Turns : Removing(u)' => Removing(u)
    BY <2>1, <2>2 DEF Removing
  <2>q. QED BY <1>1, <1>2, <2>1, <2>2, <2>3
<1>7. ASSUME NEW t \in Turns, PlanCompact(t) PROVE Covered'
  <2>1. /\ up /\ acked' = acked /\ entries' = entries /\ then' = then
        /\ pc[t] = "plan" /\ pc'[t] \in {"done", "summary"}
        /\ \A u \in Turns \ {t} : pc'[u] = pc[u] /\ toRemove'[u] = toRemove[u]
    BY <1>7 DEF PlanCompact, AfterPlan, IInv, TypeOK, Stopped, Ended, storeVars
  <2>2. ~Removing(t)' /\ \A u \in Turns : Removing(u)' => Removing(u)
    BY <2>1 DEF Removing, Writing
  <2>q. QED BY <1>1, <1>2, <2>1, <2>2
<1>8. ASSUME NEW t \in Turns,
             \/ Finalize(t) \/ OpenTmp(t) \/ WriteTmp(t) \/ PersistFails(t) \/ Interrupted(t)
             \/ WriteNothing(t) \/ Applied(t)
      PROVE  Covered'
  <2>1. /\ up /\ acked' = acked /\ entries' = entries /\ toRemove' = toRemove /\ then' = then
        /\ pc'[t] \in Writing => pc[t] \in Writing
        /\ pc'[t] # "delete"
        /\ \A u \in Turns \ {t} : pc'[u] = pc[u]
    BY <1>8 DEF Finalize, OpenTmp, WriteTmp, PersistFails, Interrupted, WriteNothing, Applied,
         IInv, TypeOK, Stopped, Writing, Ended, storeVars
  <2>2. \A u \in Turns : Removing(u)' => Removing(u)
    BY <2>1 DEF Removing
  <2>q. QED BY <1>1, <1>2, <2>1, <2>2
<1>9. CASE Restart
  <2>1. /\ acked' = acked /\ entries' = file
        /\ \A t \in Turns : pc'[t] \in Ended \cup {"idle"}
    BY <1>9 DEF Restart, turnVars, IInv, Stopped
  <2>2. \A i \in Ids : ~Doomed(i)'
    BY <2>1 DEF Doomed, Removing, Writing, Ended
  <2>q. QED BY <2>1, <2>2 DEF IInv, FileCovers, Covered, Has
<1>10. CASE UNCHANGED vars
  BY <1>10, <1>1, <1>2 DEF vars, turnVars, storeVars, Removing
<1>11. ~Crash
  BY DEF Crash
<1>q. QED
  BY <1>3, <1>4, <1>5, <1>6, <1>7, <1>8, <1>9, <1>10, <1>11 DEF Next, FinalizeStep, Terminated

LEMMA FileCoversStep == IInv /\ [Next]_vars => FileCovers'
<1> SUFFICES ASSUME IInv, [Next]_vars PROVE FileCovers'
  OBVIOUS
<1>1. ASSUME NEW t \in Turns, Rename(t) PROVE FileCovers'
  <2>1. /\ up' = up /\ up /\ file' = entries /\ entries' = entries
    BY <1>1 DEF Rename, IInv, TypeOK, WritesStand, Stopped, Ended
  <2>q. QED BY <2>1, CoveredStep DEF Covered, FileCovers, Has
<1>2. CASE file' = file /\ acked' = acked
  BY <1>2 DEF IInv, FileCovers, Has
<1>q. QED
  BY <1>1, <1>2
     DEF Next, FinalizeStep, Finalize, OpenTmp, WriteTmp, PersistFails, Interrupted, WriteBack,
         WriteNothing, PlanCompact, PutSummary, Delete, DeleteMissing, Applied, Change, Crash,
         Restart, Terminated, vars, turnVars, fileVars

LEMMA InvInit == Init => IInv
<1> SUFFICES ASSUME Init PROVE IInv
  OBVIOUS
<1>1. TypeOK
  BY TypeInit
<1>2. StoreSound /\ FileSound
  BY StoreFacts, IdFacts DEF Init, StoreSound, FileSound, Sound, NoFile, Empty
<1>3. /\ PlansAreOld /\ SummariesTell /\ SummariesOwn /\ WritesStand /\ Stopped
      /\ Covered /\ FileCovers
  BY DEF Init, PlansAreOld, SummariesTell, SummariesOwn, WritesStand, Stopped, Covered, FileCovers, Writing
<1>q. QED BY <1>1, <1>2, <1>3 DEF IInv

LEMMA InvStep == IInv /\ [Next]_vars => IInv'
<1> SUFFICES ASSUME IInv, [Next]_vars PROVE IInv'
  OBVIOUS
<1>1. TypeOK'
  BY TypeStep DEF IInv
<1>2. StoreSound' /\ FileSound' /\ PlansAreOld' /\ SummariesTell' /\ SummariesOwn'
  BY SoundStep, PlansStep, SummariesOwnStep
<1>3. WritesStand' /\ Stopped' /\ Covered' /\ FileCovers'
  BY WritesStandStep, StoppedStep, CoveredStep, FileCoversStep
<1>q. QED BY <1>1, <1>2, <1>3 DEF IInv

LEMMA Inductive == Spec => []IInv
BY InvInit, InvStep, PTL DEF Spec

\* Compactions that overlap, from plans that are out of date, and turns that are
\* interrupted anywhere forget no acknowledged turn, for any number of sessions: a turn of
\* its session finds it, unless one that names no session has summed it up
\* (memory/runtime.go:152-201, runtime_components.go:225-233).
THEOREM MemoryKept == Spec => []NothingForgotten
<1>1. IInv => NothingForgotten
  <2> SUFFICES ASSUME IInv, up, NEW t \in acked
               PROVE  \E i \in Ids : t \in entries[i] /\ (Finds(t, i) \/ session[Author(i)] = NoSession)
    BY DEF NothingForgotten
  <2>1. PICK i \in Ids : t \in entries[i]
    BY DEF IInv, Covered
  <2>2. session[Author(i)] = NoSession \/ session[t] = session[Author(i)]
    BY <2>1, EntriesOwn
  <2>q. QED BY <2>1, <2>2 DEF Finds
<1>q. QED BY <1>1, Inductive, PTL

\* The file can be loaded at every moment and tells of every acknowledged turn, so
\* that no crash between two steps loses one (memory/file_store.go:156-184).
THEOREM CrashSafe == Spec => []SurvivesCrash
<1>1. IInv => SurvivesCrash
  BY DEF IInv, FileSound, FileCovers, SurvivesCrash
<1>q. QED BY <1>1, Inductive, PTL

LEMMA InStepStep == IInv /\ FileInStep /\ [Next]_vars => FileInStep'
<1> SUFFICES ASSUME IInv, FileInStep, [Next]_vars,
                    up', holder' = NoTurn, \A t \in Turns : pc'[t] # "failed"
             PROVE  file' = entries'
  BY DEF FileInStep
<1>1. ASSUME NEW t \in Turns, Rename(t) PROVE file' = entries'
  BY <1>1 DEF Rename, IInv, WritesStand
<1>2. CASE Restart
  BY <1>2 DEF Restart, fileVars
<1>3. ASSUME NEW t \in Turns, pc'[t] = "failed" PROVE FALSE
  BY <1>3
<1>4. ASSUME NEW t \in Turns, PersistFails(t) \/ Interrupted(t) PROVE FALSE
  BY <1>3, <1>4 DEF PersistFails, Interrupted, Goto, IInv, TypeOK
<1>5. ASSUME NEW t \in Turns, \/ WriteBack(t) \/ PutSummary(t) \/ OpenTmp(t) \/ WriteTmp(t)
                              \/ \E i \in Ids : Delete(t, i)
      PROVE  FALSE
  <2>1. holder' = t
    BY <1>5 DEF WriteBack, PutSummary, Delete, Change, OpenTmp, WriteTmp, IInv, TypeOK,
         Writing, storeVars
  <2>q. QED BY <2>1, IdFacts
<1>6. ASSUME NEW t \in Turns,
             \/ Finalize(t) \/ WriteNothing(t) \/ PlanCompact(t) \/ Applied(t)
             \/ \E i \in Ids : DeleteMissing(t, i)
      PROVE  file' = entries'
  <2>1. /\ file' = file /\ entries' = entries /\ holder' = holder /\ up' = up
        /\ pc[t] # "failed" /\ \A u \in Turns \ {t} : pc'[u] = pc[u]
    BY <1>6 DEF Finalize, WriteNothing, PlanCompact, Applied, DeleteMissing, Goto, IInv, TypeOK,
         storeVars, fileVars
  <2>q. QED BY <2>1 DEF FileInStep
<1>7. CASE UNCHANGED vars
  BY <1>7 DEF FileInStep, vars, turnVars, storeVars, fileVars
<1>8. ~Crash
  BY DEF Crash
<1>q. QED
  BY <1>1, <1>2, <1>4, <1>5, <1>6, <1>7, <1>8 DEF Next, FinalizeStep, Terminated

\* While no operation has failed, the file is the map of the store whenever nobody
\* is writing it (memory/file_store.go:83-125).
THEOREM FileFollows == Spec => []FileInStep
<1>1. Init => FileInStep
  BY DEF Init, FileInStep, NoFile
<1>2. IInv /\ FileInStep /\ [Next]_vars => FileInStep'
  BY InStepStep
<1>q. QED BY <1>1, <1>2, Inductive, PTL DEF Spec
=============================================================================
