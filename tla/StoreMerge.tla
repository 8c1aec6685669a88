----------------------------- MODULE StoreMerge -----------------------------
(***************************************************************************)
(* Several --resume processes that share one --state-dir and one output    *)
(* file.  Each gates its pages on the store, opens a commit session on a   *)
(* second load, and saves its whole working set through                    *)
(* RecordStore::update: lock, re-read, merge by updated_at, rename, unlock.*)
(* What a single process does with one item is the subject of ExportCommit *)
(* and is one step here; what is kept apart is the critical section.       *)
(*                                                                         *)
(* A slot is a record with its updated_at.  Each page serves one content,  *)
(* so the hash index of the output is a set of pages' hashes.  A load is   *)
(* one step: it is a whole critical section of its own, and one that finds *)
(* no file and takes no lock is the same as one just before the writer's.  *)
(***************************************************************************)
EXTENDS RecordTransition, FiniteSets

CONSTANTS
  Procs,      \* webfang processes
  NoProc,     \* the lock is free
  Urls,       \* canonical keys of the pages of one domain
  Work,       \* [Procs -> SUBSET Urls]: the pages each process scrapes
  PageHash,   \* [Urls -> Hashes]: what each page serves
  MaxClock,   \* bound: milliseconds that pass
  MaxRuns,    \* bound: runs of one process
  MaxFaults   \* bound: crashes, failed items and failed saves

ASSUME NoProcAssumption == NoProc \notin Procs
ASSUME WorkAssumption == Work \in [Procs -> SUBSET Urls]
ASSUME PageHashAssumption == PageHash \in [Urls -> Hashes]
ASSUME MergeBoundsAssumption ==
  MaxClock \in Nat /\ MaxRuns \in Nat /\ MaxFaults \in Nat

VARIABLES
  disk,    \* the record store on disk
  flushed, \* pages with a flushed line in the output file
  lock,    \* the holder of the store lock
  clock,   \* now_millis of the one machine they run on
  pc,      \* where each process is
  mine,    \* CommitSession.records of each process
  index,   \* CommitSession.hash_index of each process
  snap,    \* what update() read under the lock
  todo,    \* pages of the run not processed yet
  cur,     \* the page between its EXPORTED save and its commit point
  runs,    \* runs each process may still start
  faults   \* faults that may still happen

vars == <<disk, flushed, lock, clock, pc, mine, index, snap, todo, cur, runs,
          faults>>

Slot == [rec : RawRecord, at : Nat]
NoSlot == [rec |-> Absent, at |-> 0]
NoSlots == [u \in Urls |-> NoSlot]
NoUrl == "none"

Init ==
  /\ disk = NoSlots
  /\ flushed = {}
  /\ lock = NoProc
  /\ clock = 1
  /\ pc = [p \in Procs |-> "idle"]
  /\ mine = [p \in Procs |-> NoSlots]
  /\ index = [p \in Procs |-> {}]
  /\ snap = [p \in Procs |-> NoSlots]
  /\ todo = [p \in Procs |-> {}]
  /\ cur = [p \in Procs |-> NoUrl]
  /\ runs = [p \in Procs |-> MaxRuns]
  /\ faults = MaxFaults

\* load_under_lock: the slots whose records pass the invariant table.
Durable ==
  [u \in Urls |-> IF SatisfiesTable(disk[u].rec) THEN disk[u] ELSE NoSlot]

GoTo(p, place) == pc' = [pc EXCEPT ![p] = place]
-----------------------------------------------------------------------------
(* One process.                                                            *)

\* filter_committed, on a load of its own.  A process start takes longer than
\* a tick of the clock.
Gate(p) ==
  /\ pc[p] = "idle"
  /\ runs[p] > 0
  /\ lock = NoProc
  /\ clock < MaxClock
  /\ clock' = clock + 1
  /\ runs' = [runs EXCEPT ![p] = @ - 1]
  /\ todo' = [todo EXCEPT ![p] =
                {u \in Work[p] : ~CommittedProven(Durable[u].rec)}]
  /\ GoTo(p, "scrape")
  /\ UNCHANGED <<disk, flushed, lock, mine, index, snap, cur, faults>>

\* CommitSession::open, after the pages are scraped.
OpenSession(p) ==
  /\ pc[p] = "scrape"
  /\ lock = NoProc
  /\ mine' = [mine EXCEPT ![p] = Durable]
  /\ index' = [index EXCEPT ![p] = {PageHash[u] : u \in flushed}]
  /\ GoTo(p, "items")
  /\ UNCHANGED <<disk, flushed, lock, clock, snap, todo, cur, runs, faults>>

\* CommitSession::decide
Decision(p, u) ==
  LET r == mine[p][u].rec
      proof == IF r.status = "ABSENT" THEN PageHash[u] ELSE r.hash IN
  IF CommittedProven(r) THEN "skip"
  ELSE IF proof \in index[p] THEN "promote" ELSE "drive"

TakeItem(p, u) ==
  /\ pc[p] = "items"
  /\ u \in todo[p]
  /\ todo' = [todo EXCEPT ![p] = @ \ {u}]

SkipCommitted(p, u) ==
  /\ TakeItem(p, u)
  /\ Decision(p, u) = "skip"
  /\ UNCHANGED <<disk, flushed, lock, clock, pc, mine, index, snap, cur, runs,
                 faults>>

\* commit_item: the line is flushed, the EXPORTED record is stamped.
DriveItem(p, u) ==
  /\ TakeItem(p, u)
  /\ Decision(p, u) = "drive"
  /\ flushed' = flushed \cup {u}
  /\ mine' = [mine EXCEPT ![p][u] =
                [rec |-> ExportedRecord(@.rec, PageHash[u]), at |-> clock]]
  /\ cur' = [cur EXCEPT ![p] = u]
  /\ GoTo(p, "save")
  /\ UNCHANGED <<disk, lock, clock, index, snap, runs, faults>>

\* promote_from_flush_proof: a record that is EXPORTED already keeps its stamp.
PromoteItem(p, u) ==
  /\ TakeItem(p, u)
  /\ Decision(p, u) = "promote"
  /\ mine' = [mine EXCEPT ![p][u] =
       [rec |-> ExportFlushed(FlushProofRecord(@.rec), PageHash[u]),
        at  |-> IF Reconciles(@.rec, "EXPORTED") THEN @.at ELSE clock]]
  /\ cur' = [cur EXCEPT ![p] = u]
  /\ GoTo(p, "save")
  /\ UNCHANGED <<disk, flushed, lock, clock, index, snap, runs, faults>>

\* fail_item on a page that does not validate or cannot be written.
FailItem(p, u) ==
  /\ TakeItem(p, u)
  /\ Decision(p, u) = "drive"
  /\ faults > 0
  /\ faults' = faults - 1
  /\ mine' = [mine EXCEPT ![p][u] = [rec |-> FailedRecord(@.rec), at |-> clock]]
  /\ GoTo(p, "save")
  /\ UNCHANGED <<disk, flushed, lock, clock, index, snap, cur, runs>>

\* swap_to_committed: only the status moves, the stamp does not.
CommitPoint(p) ==
  LET u == cur[p] IN
  /\ pc[p] = "saved"
  /\ u # NoUrl
  /\ IF CanCommit(mine[p][u].rec)
     THEN /\ mine' = [mine EXCEPT ![p][u].rec = Committed(@)]
          /\ GoTo(p, "save")
     ELSE UNCHANGED mine /\ GoTo(p, "items")
  /\ cur' = [cur EXCEPT ![p] = NoUrl]
  /\ UNCHANGED <<disk, flushed, lock, clock, index, snap, todo, runs, faults>>

NextItem(p) ==
  /\ pc[p] = "saved"
  /\ cur[p] = NoUrl
  /\ GoTo(p, "items")
  /\ UNCHANGED <<disk, flushed, lock, clock, mine, index, snap, todo, cur,
                 runs, faults>>

\* final_persist goes through the same transaction.
FinalPersist(p) ==
  /\ pc[p] = "items"
  /\ todo[p] = {}
  /\ GoTo(p, "final")
  /\ UNCHANGED <<disk, flushed, lock, clock, mine, index, snap, todo, cur,
                 runs, faults>>
-----------------------------------------------------------------------------
(* RecordStore::update.                                                    *)

\* Fault to seed in Acquire: the lock is not waited for.
AcquireAtOnce(p) ==
  /\ pc[p] \in {"save", "final"}
  /\ lock' = p

\* StoreLock::acquire
Acquire(p) ==
  /\ pc[p] \in {"save", "final"}
  /\ lock = NoProc
  /\ lock' = p

\* Fault to seed in Unlock: the lock outlives its holder (a lock file whose
\* presence is the lock).
UnlockByHand(p) == UNCHANGED lock

\* The descriptor is closed, by StoreLock::drop or by the death of the process.
Unlock(p) == lock' = IF lock = p THEN NoProc ELSE lock

LoadUnderLock(p) ==
  /\ Acquire(p)
  /\ snap' = [snap EXCEPT ![p] = Durable]
  /\ GoTo(p, IF pc[p] = "final" THEN "final_write" ELSE "write")
  /\ UNCHANGED <<disk, flushed, clock, mine, index, todo, cur, runs, faults>>

\* Fault to seed in MergePersist: every record of the session is written back.
MergePersistOurs(current, ours) ==
  [u \in Urls |-> IF ours[u].rec.status = "ABSENT" THEN current[u] ELSE ours[u]]

\* merge_persist: a record of ours is written unless the one there is newer.
MergePersist(current, ours) ==
  [u \in Urls |-> IF \/ ours[u].rec.status = "ABSENT"
                     \/ current[u].at > ours[u].at
                  THEN current[u] ELSE ours[u]]

\* The save of an item goes on to its commit point; the last one ends the run
\* and drops its session.
AfterSave(p) ==
  IF pc[p] = "write"
  THEN GoTo(p, "saved") /\ UNCHANGED <<mine, index>>
  ELSE /\ GoTo(p, "idle")
       /\ mine' = [mine EXCEPT ![p] = NoSlots]
       /\ index' = [index EXCEPT ![p] = {}]

\* save_locked renames the merged file into place; the lock is dropped.
SaveLocked(p) ==
  /\ pc[p] \in {"write", "final_write"}
  /\ disk' = MergePersist(snap[p], mine[p])
  /\ lock' = NoProc
  /\ snap' = [snap EXCEPT ![p] = NoSlots]
  /\ AfterSave(p)
  /\ UNCHANGED <<flushed, clock, todo, cur, runs, faults>>

\* The write or the rename fails: logged, and the session goes on.
SaveFails(p) ==
  /\ pc[p] \in {"write", "final_write"}
  /\ faults > 0
  /\ faults' = faults - 1
  /\ Unlock(p)
  /\ snap' = [snap EXCEPT ![p] = NoSlots]
  /\ AfterSave(p)
  /\ UNCHANGED <<disk, flushed, clock, todo, cur, runs>>
-----------------------------------------------------------------------------
\* SIGKILL: the volatile state is gone and the kernel closes the lock.
Crash(p) ==
  /\ pc[p] # "idle"
  /\ faults > 0
  /\ faults' = faults - 1
  /\ Unlock(p)
  /\ mine' = [mine EXCEPT ![p] = NoSlots]
  /\ index' = [index EXCEPT ![p] = {}]
  /\ snap' = [snap EXCEPT ![p] = NoSlots]
  /\ todo' = [todo EXCEPT ![p] = {}]
  /\ cur' = [cur EXCEPT ![p] = NoUrl]
  /\ GoTo(p, "idle")
  /\ UNCHANGED <<disk, flushed, clock, runs>>

Tick ==
  /\ clock < MaxClock
  /\ clock' = clock + 1
  /\ UNCHANGED <<disk, flushed, lock, pc, mine, index, snap, todo, cur, runs,
                 faults>>

\* What a started run does on its own.
Step(p) == \/ OpenSession(p)
           \/ \E u \in Urls : \/ SkipCommitted(p, u)
                              \/ DriveItem(p, u)
                              \/ PromoteItem(p, u)
           \/ CommitPoint(p)
           \/ NextItem(p)
           \/ FinalPersist(p)
           \/ LoadUnderLock(p)
           \/ SaveLocked(p)

Next == \/ \E p \in Procs : \/ Step(p)
                            \/ Gate(p)
                            \/ \E u \in Urls : FailItem(p, u)
                            \/ SaveFails(p)
                            \/ Crash(p)
        \/ Tick

Spec == Init /\ [][Next]_vars

\* Every process is scheduled until its run ends.
FairSpec == Spec /\ \A p \in Procs : WF_vars(Step(p))
-----------------------------------------------------------------------------
(* Properties.                                                             *)

TypeOK ==
  /\ disk \in [Urls -> Slot]
  /\ flushed \in SUBSET Urls
  /\ lock \in Procs \cup {NoProc}
  /\ clock \in Nat
  /\ pc \in [Procs -> {"idle", "scrape", "items", "save", "saved", "final",
                       "write", "final_write"}]
  /\ mine \in [Procs -> [Urls -> Slot]]
  /\ index \in [Procs -> SUBSET Hashes]
  /\ snap \in [Procs -> [Urls -> Slot]]
  /\ todo \in [Procs -> SUBSET Urls]
  /\ cur \in [Procs -> Urls \cup {NoUrl}]
  /\ runs \in [Procs -> Nat]
  /\ faults \in Nat

\* Last-writer-wins never goes back in time: whatever stale working set a
\* process saves, the stamp of a page in the store only grows, so no record is
\* lost or replaced by an older one (update() re-reads under the lock, and
\* merge_persist keeps the newer record).
StampsAdvance == [][\A u \in Urls : disk'[u].at >= disk[u].at]_vars

\* A page that only one process works on, driven to EXPORTED, does not fall back
\* to a pre-export state, or out of the store, because another process saves a
\* working set it loaded earlier.
ClaimSurvives ==
  [][\A u \in Urls :
       (/\ \A p, q \in Procs : u \in Work[p] \cap Work[q] => p = q
        /\ disk[u].rec.status \in {"EXPORTED", "COMMITTED"})
         => disk'[u].rec.status \in {"EXPORTED", "COMMITTED"}]_vars

\* "A record another writer advanced after our open() ... survives": a page one
\* process took to COMMITTED stays so when another saves.
CommittedSurvives ==
  [][\A u \in Urls : CommittedProven(disk[u].rec)
                       => CommittedProven(disk'[u].rec)]_vars

\* A run that started ends, although everyone waits for one lock and a holder
\* may die: the lock goes with its process.
RunsEnd == \A p \in Procs : pc[p] # "idle" ~> pc[p] = "idle"
=============================================================================
