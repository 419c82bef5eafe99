----------------------------- MODULE TurnMemory -----------------------------
(***************************************************************************)
(* What turns leave in a memory.FileStore: memoryCoordinator.FinalizeTurn  *)
(* of several turns over one store, with the write back and the compaction *)
(* of memory.Runtime, the store's map and its file, writes that fail half  *)
(* way, turns that are cancelled, and a process that crashes and starts    *)
(* again.                                                                  *)
(*                                                                         *)
(* Entries are abstracted to the turns they tell of: the entry of a turn   *)
(* to that turn, a summary to the turns whose entries it replaces.         *)
(***************************************************************************)
EXTENDS Naturals, FiniteSets

CONSTANTS
  NumTurns,
  Sessions,         \* sessions a turn can name
  NoSession,        \* the session of a turn that names none
  MaxCrashes        \* bound: crashes of the process

ASSUME MemoryAssumption == NumTurns \in Nat \ {0} /\ MaxCrashes \in Nat

ASSUME SessionAssumption == NoSession \notin Sessions

Turns == 1..NumTurns
NoTurn == 0

\* newID gives every entry an id of its own: a turn's entry, a turn's summary.
Ids == 1..(2 * NumTurns)
SummaryOf(t) == NumTurns + t

VARIABLES
  pc, then,         \* where each FinalizeTurn stands, and where a write leads it
  toRemove,         \* RemovedID of the compaction each has planned
  summary,          \* what its Summary tells
  acked,            \* turns whose CommitWrites returned without an error
  entries,          \* the map of the store, {} for an id it does not hold
  holder,           \* the turn that has the store's mutex
  tmp, file,        \* the temporary file and the file
  up, crashes,
  session           \* what each turn has for a SessionID

turnVars == <<pc, then, toRemove, summary, acked>>
storeVars == <<entries, holder>>
fileVars == <<tmp, file>>
vars == <<turnVars, storeVars, fileVars, up, crashes, session>>

Store == [Ids -> SUBSET Turns]
Empty == [i \in Ids |-> {}]

\* A file of which only a part was written; NoFile is one that is not there.
Partial == [i \in {} |-> {}]
NoFile == Empty

Has(store, t) == \E i \in Ids : t \in store[i]

Init ==
  /\ pc = [t \in Turns |-> "idle"] /\ then = [t \in Turns |-> "idle"]
  /\ toRemove = [t \in Turns |-> {}] /\ summary = [t \in Turns |-> {}]
  /\ acked = {}
  /\ entries = Empty /\ holder = NoTurn
  /\ tmp = NoFile /\ file = NoFile
  /\ up = TRUE /\ crashes = 0
  /\ session \in [Turns -> Sessions \cup {NoSession}]

Goto(t, place) == pc' = [pc EXCEPT ![t] = place]

-----------------------------------------------------------------------------
(* FileStore.  An operation keeps the mutex from the change of the map to  *)
(* the end of persistLocked, so that only a crash comes in between.        *)

Writing == {"persist", "write", "rename"}

\* Put and Delete change the map first, whatever becomes of the file.
Change(t, i, content, next) ==
  /\ holder = NoTurn
  /\ entries' = [entries EXCEPT ![i] = content]
  /\ holder' = t
  /\ then' = [then EXCEPT ![t] = next]
  /\ Goto(t, "persist")
  /\ UNCHANGED <<acked, fileVars, up, crashes, session>>

\* Seeded fault: the file itself is opened for writing.
OpenInPlace(t) ==
  /\ pc[t] = "persist"
  /\ file' = Partial
  /\ Goto(t, "write")
  /\ UNCHANGED <<then, toRemove, summary, acked, storeVars, tmp, up, crashes, session>>

OpenTmp(t) ==
  /\ pc[t] = "persist"
  /\ tmp' = Partial
  /\ Goto(t, "write")
  /\ UNCHANGED <<then, toRemove, summary, acked, storeVars, file, up, crashes, session>>

WriteTmp(t) ==
  /\ pc[t] = "write"
  /\ tmp' = entries
  /\ Goto(t, "rename")
  /\ UNCHANGED <<then, toRemove, summary, acked, storeVars, file, up, crashes, session>>

\* The operation returns without an error; that of the write back with it.
Rename(t) ==
  /\ pc[t] = "rename"
  /\ file' = tmp /\ tmp' = NoFile
  /\ holder' = NoTurn
  /\ acked' = IF then[t] = "plan" THEN acked \cup {t} ELSE acked
  /\ Goto(t, then[t])
  /\ UNCHANGED <<then, toRemove, summary, entries, up, crashes, session>>

\* Seeded fault: the way out of a failed write misses the unlock.
PersistFailsLocked(t) ==
  /\ pc[t] \in Writing
  /\ tmp' = IF pc[t] = "rename" THEN NoFile ELSE tmp
  /\ Goto(t, "failed")
  /\ UNCHANGED <<then, toRemove, summary, acked, entries, holder, file, up, crashes, session>>

\* The directory, the temporary file or the rename: the error ends FinalizeTurn,
\* and the map keeps the change.
PersistFails(t) ==
  /\ pc[t] \in Writing
  /\ tmp' = IF pc[t] = "rename" THEN NoFile ELSE tmp
  /\ holder' = NoTurn
  /\ Goto(t, "failed")
  /\ UNCHANGED <<then, toRemove, summary, acked, entries, file, up, crashes, session>>

-----------------------------------------------------------------------------
(* FinalizeTurn.                                                           *)

Finalize(t) ==
  /\ up /\ pc[t] = "idle"
  /\ Goto(t, "put")
  /\ UNCHANGED <<then, toRemove, summary, acked, storeVars, fileVars, up, crashes, session>>

\* Every operation looks at the context of the turn before it takes the mutex.
Interrupted(t) ==
  /\ pc[t] \in {"put", "plan", "summary", "delete"}
  /\ Goto(t, "failed")
  /\ UNCHANGED <<then, toRemove, summary, acked, storeVars, fileVars, up, crashes, session>>

WriteBack(t) ==
  /\ pc[t] = "put"
  /\ Change(t, t, {t}, "plan")
  /\ UNCHANGED <<toRemove, summary>>

\* Nothing was said in the turn, or the policy does not allow the write.
WriteNothing(t) ==
  /\ pc[t] = "put"
  /\ Goto(t, "plan")
  /\ UNCHANGED <<then, toRemove, summary, acked, storeVars, fileVars, up, crashes, session>>

\* An entry has the session of the turn that wrote it in its metadata.
Author(i) == IF i \in Turns THEN i ELSE i - NumTurns

\* The query of a turn: the session it names, or no condition at all.
Finds(t, i) == session[t] = NoSession \/ session[Author(i)] = session[t]

\* Seeded fault: the query of a compaction leaves the session out.
ListedForAll(t) == {i \in Ids : entries[i] # {}}

Listed(t) == {i \in Ids : entries[i] # {} /\ Finds(t, i)}

Told(ids) == UNION {entries[i] : i \in ids}

\* Seeded fault: the summary is not written.
AfterPlanDelete == "delete"

AfterPlan == "summary"

(***************************************************************************)
(* PlanCompact: List shows the turn its part of the map at this moment,    *)
(* the policy picks what to sum up of it, and removes some of that, or     *)
(* nothing.  The summary is of the entries as they were listed: the store  *)
(* may change before it is applied.  A plan without either is not applied. *)
(***************************************************************************)
PlanCompact(t) ==
  /\ pc[t] = "plan" /\ holder = NoTurn
  /\ \E summed \in SUBSET Listed(t) : \E removed \in SUBSET summed :
       /\ toRemove' = [toRemove EXCEPT ![t] = removed]
       /\ summary' = [summary EXCEPT ![t] = Told(summed)]
       /\ Goto(t, IF summed = {} THEN "done" ELSE AfterPlan)
  /\ UNCHANGED <<then, acked, storeVars, fileVars, up, crashes, session>>

\* ApplyCompact: the summary first, then the deletions one by one.
PutSummary(t) ==
  /\ pc[t] = "summary"
  /\ Change(t, SummaryOf(t), summary[t], "delete")
  /\ UNCHANGED <<toRemove, summary>>

Forget(t, i) == toRemove' = [toRemove EXCEPT ![t] = @ \ {i}]

Delete(t, i) ==
  /\ pc[t] = "delete" /\ i \in toRemove[t] /\ entries[i] # {}
  /\ Change(t, i, {}, "delete")
  /\ Forget(t, i)
  /\ UNCHANGED summary

\* ErrNotFound: another turn, whose plan was made meanwhile, has removed it.
DeleteMissing(t, i) ==
  /\ pc[t] = "delete" /\ i \in toRemove[t] /\ entries[i] = {}
  /\ holder = NoTurn
  /\ Forget(t, i)
  /\ UNCHANGED <<pc, then, summary, acked, storeVars, fileVars, up, crashes, session>>

Applied(t) ==
  /\ pc[t] = "delete" /\ toRemove[t] = {}
  /\ Goto(t, "done")
  /\ UNCHANGED <<then, toRemove, summary, acked, storeVars, fileVars, up, crashes, session>>

-----------------------------------------------------------------------------
(* The process.                                                            *)

Ended == {"done", "failed", "lost"}

Crash ==
  /\ up /\ crashes < MaxCrashes
  /\ up' = FALSE /\ crashes' = crashes + 1
  /\ pc' = [t \in Turns |-> IF pc[t] \in Ended \cup {"idle"} THEN pc[t] ELSE "lost"]
  /\ entries' = Empty /\ holder' = NoTurn
  /\ UNCHANGED <<then, toRemove, summary, acked, fileVars, session>>

\* NewFileStore loads the file; it refuses one that does not parse.
Restart ==
  /\ ~up /\ file # Partial
  /\ up' = TRUE
  /\ entries' = file
  /\ UNCHANGED <<turnVars, holder, fileVars, crashes, session>>

\* What the goroutine of a turn does of its own accord.
FinalizeStep(t) ==
  \/ OpenTmp(t) \/ WriteTmp(t) \/ Rename(t)
  \/ WriteBack(t) \/ WriteNothing(t)
  \/ PlanCompact(t) \/ PutSummary(t)
  \/ \E i \in Ids : Delete(t, i) \/ DeleteMissing(t, i)
  \/ Applied(t)

Terminated == up /\ (\A t \in Turns : pc[t] \in Ended) /\ UNCHANGED vars

Next ==
  \/ \E t \in Turns : Finalize(t) \/ FinalizeStep(t) \/ Interrupted(t) \/ PersistFails(t)
  \/ Crash \/ Restart
  \/ Terminated

Spec == Init /\ [][Next]_vars

\* The goroutine of a turn runs on, and gets the mutex of the store in the end;
\* nothing need fail or be cancelled.
Fairness == \A t \in Turns : WF_vars(FinalizeStep(t))

FairSpec == Spec /\ Fairness

-----------------------------------------------------------------------------
(* Properties.                                                             *)

\* Types, and the mutex: a turn that is writing the file has it.
TypeOK ==
  /\ pc \in [Turns -> {"idle", "put", "plan", "summary", "delete"} \cup Writing \cup Ended]
  /\ then \in [Turns -> {"idle", "plan", "delete"}]
  /\ toRemove \in [Turns -> SUBSET Ids] /\ summary \in [Turns -> SUBSET Turns]
  /\ acked \in SUBSET Turns
  /\ entries \in Store /\ holder \in Turns \cup {NoTurn}
  /\ tmp \in Store \cup {Partial} /\ file \in Store \cup {Partial}
  /\ up \in BOOLEAN /\ crashes \in 0..MaxCrashes
  /\ session \in [Turns -> Sessions \cup {NoSession}]
  /\ \A t \in Turns : pc[t] \in Writing <=> holder = t

(***************************************************************************)
(* No turn whose write back was acknowledged is forgotten, whatever turns  *)
(* compact at the same time from plans that overlap and are out of date,   *)
(* and wherever they are interrupted: the next turn of its session finds   *)
(* an entry that tells of it.  There is one way out of its session's       *)
(* sight: a turn that names no session lists the entries of all of them,   *)
(* may compact them, and its summary belongs to none.                      *)
(* memory/runtime.go:152-201, runtime_components.go:225-233, 276-288.      *)
(***************************************************************************)
NothingForgotten ==
  up => \A t \in acked :
          \E i \in Ids : t \in entries[i] /\ (Finds(t, i) \/ session[Author(i)] = NoSession)

(***************************************************************************)
(* The file can be loaded at any moment, and tells of every turn that was  *)
(* acknowledged: a crash between any two steps of a write, a failed write  *)
(* or a compaction loses none.  memory/file_store.go:156-184.              *)
(***************************************************************************)
SurvivesCrash == file # Partial /\ \A t \in acked : Has(file, t)

(***************************************************************************)
(* As long as no operation has failed, the file is the map whenever the    *)
(* store is at rest.                                                       *)
(***************************************************************************)
FileInStep ==
  up /\ holder = NoTurn /\ (\A t \in Turns : pc[t] # "failed") => file = entries

(***************************************************************************)
(* Every finalization ends, also next to one that was interrupted or whose *)
(* write failed at any of its steps: the mutex of the store is always      *)
(* given back, and a crash takes the goroutines with it.                   *)
(* memory/file_store.go:81-135, 156-184.                                   *)
(***************************************************************************)
FinalizeEnds == \A t \in Turns : pc[t] # "idle" ~> pc[t] \in Ended
=============================================================================
