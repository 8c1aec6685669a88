-------------------------- MODULE StoreMergeProofs --------------------------
(***************************************************************************)
(* StampsAdvance for any number of processes, pages, runs and faults: the  *)
(* merge of concurrent --resume processes never replaces a record by an    *)
(* older one.  And ClaimSurvives: a page that one process works on keeps   *)
(* its EXPORTED or COMMITTED record whatever the others save.              *)
(***************************************************************************)
EXTENDS StoreMerge, RecordTransitionProofs, TLAPS

\* Every record on disk or in a session passes the invariant table, so a load
\* quarantines nothing.
Valid == /\ \A u \in Urls : SatisfiesTable(disk[u].rec)
         /\ \A p \in Procs, u \in Urls : SatisfiesTable(mine[p][u].rec)

Writing(p) == pc[p] \in {"write", "final_write"}

\* A process between its read and its rename holds the lock, and what it read
\* is still what is on disk.
Exclusive == \A p \in Procs : Writing(p) => lock = p /\ snap[p] = disk

MergeInv == TypeOK /\ Valid /\ Exclusive

-----------------------------------------------------------------------------
\* A load of a valid store reads all of it.
LEMMA DurableIsDisk == TypeOK /\ Valid => Durable = disk
<1> SUFFICES ASSUME TypeOK, Valid PROVE Durable = disk
  OBVIOUS
<1>1. disk \in [Urls -> Slot]
  BY DEF TypeOK
<1>2. \A u \in Urls : SatisfiesTable(disk[u].rec)
  BY DEF Valid
<1> QED
  BY <1>1, <1>2 DEF Durable

\* An empty working set passes the table.
LEMMA AbsentSlot == /\ NoSlots \in [Urls -> Slot]
                    /\ \A u \in Urls : SatisfiesTable(NoSlots[u].rec)
<1>1. Absent \in RawRecord /\ SatisfiesTable(Absent)
  BY FreshIsRecord DEF Absent, Blank, SatisfiesTable
<1> QED BY <1>1 DEF NoSlots, NoSlot, Slot
-----------------------------------------------------------------------------
\* No record is stored and nobody holds the lock.
LEMMA MergeInit == Init => MergeInv
<1> SUFFICES ASSUME Init PROVE MergeInv
  OBVIOUS
<1>1. TypeOK
  BY AbsentSlot, MergeBoundsAssumption DEF Init, TypeOK
<1>2. Valid
  BY AbsentSlot DEF Init, Valid, NoSlots, NoSlot
<1>3. Exclusive
  BY DEF Init, Exclusive, Writing
<1> QED
  BY <1>1, <1>2, <1>3 DEF MergeInv

\* A process that changes its own working set: the store and the lock stay.
LEMMA WorkStep ==
  ASSUME MergeInv, NEW p \in Procs, NEW s \in [Urls -> Slot],
         \A u \in Urls : SatisfiesTable(s[u].rec),
         mine' = [mine EXCEPT ![p] = s],
         UNCHANGED disk
  PROVE  Valid' /\ mine' \in [Procs -> [Urls -> Slot]]
BY DEF MergeInv, TypeOK, Valid

\* An item of p replaces one record of its working set.
LEMMA ItemStep ==
  ASSUME MergeInv, NEW p \in Procs, NEW u \in Urls, NEW s \in Slot,
         SatisfiesTable(s.rec),
         mine' = [mine EXCEPT ![p][u] = s],
         UNCHANGED disk
  PROVE  Valid' /\ mine' \in [Procs -> [Urls -> Slot]]
BY DEF MergeInv, TypeOK, Valid

\* Moving p to a place outside its critical section keeps the others in theirs.
LEMMA OutsideStep ==
  ASSUME MergeInv, NEW p \in Procs, NEW place,
         place \notin {"write", "final_write"},
         GoTo(p, place),
         UNCHANGED <<disk, lock, snap>>
  PROVE  Exclusive'
BY DEF MergeInv, TypeOK, Exclusive, Writing, GoTo

\* Leaving the critical section without a write keeps the others in theirs.
LEMMA LeaveStep ==
  ASSUME MergeInv, NEW p \in Procs, NEW place,
         place \notin {"write", "final_write"},
         GoTo(p, place), Unlock(p),
         snap' = [snap EXCEPT ![p] = NoSlots],
         UNCHANGED disk
  PROVE  Exclusive'
BY DEF MergeInv, TypeOK, Exclusive, Writing, GoTo, Unlock

\* The end of a save keeps the working sets valid, or empties one.
LEMMA AfterSaveStep ==
  ASSUME MergeInv, NEW p \in Procs, AfterSave(p)
  PROVE  /\ mine' \in [Procs -> [Urls -> Slot]]
         /\ \A q \in Procs, u \in Urls : SatisfiesTable(mine'[q][u].rec)
         /\ index' \in [Procs -> SUBSET Hashes]
         /\ GoTo(p, "saved") \/ GoTo(p, "idle")
<1>1. /\ mine \in [Procs -> [Urls -> Slot]]
      /\ \A q \in Procs, u \in Urls : SatisfiesTable(mine[q][u].rec)
      /\ index \in [Procs -> SUBSET Hashes]
  BY DEF MergeInv, TypeOK, Valid
<1>2. CASE pc[p] = "write"
  BY <1>1, <1>2 DEF AfterSave
<1>3. CASE pc[p] # "write"
  BY <1>1, <1>3, AbsentSlot DEF AfterSave
<1> QED BY <1>2, <1>3

\* The merge keeps types, the table and the newer of two records.
LEMMA MergeFacts ==
  ASSUME NEW c \in [Urls -> Slot], NEW o \in [Urls -> Slot],
         \A u \in Urls : SatisfiesTable(c[u].rec) /\ SatisfiesTable(o[u].rec)
  PROVE  /\ MergePersist(c, o) \in [Urls -> Slot]
         /\ \A u \in Urls : SatisfiesTable(MergePersist(c, o)[u].rec)
         /\ \A u \in Urls : MergePersist(c, o)[u].at >= c[u].at
BY DEF MergePersist, Slot

\* A rename by p: it read what is on disk, and nobody else is writing.
LEMMA RenameStep ==
  ASSUME MergeInv, NEW p \in Procs, SaveLocked(p)
  PROVE  MergeInv' /\ \A u \in Urls : disk'[u].at >= disk[u].at
<1>1. lock = p /\ snap[p] = disk
  BY DEF MergeInv, Exclusive, Writing, SaveLocked
<1>2. disk' = MergePersist(disk, mine[p])
  BY <1>1 DEF SaveLocked
<1>3. /\ disk' \in [Urls -> Slot]
      /\ \A u \in Urls : SatisfiesTable(disk'[u].rec)
      /\ \A u \in Urls : disk'[u].at >= disk[u].at
  BY <1>2, MergeFacts DEF MergeInv, TypeOK, Valid
<1>4. /\ mine' \in [Procs -> [Urls -> Slot]]
      /\ \A q \in Procs, u \in Urls : SatisfiesTable(mine'[q][u].rec)
      /\ index' \in [Procs -> SUBSET Hashes]
      /\ GoTo(p, "saved") \/ GoTo(p, "idle")
  BY AfterSaveStep DEF SaveLocked
<1>5. TypeOK'
  BY <1>3, <1>4, AbsentSlot DEF MergeInv, TypeOK, SaveLocked, GoTo
<1>6. Exclusive'
  BY <1>1, <1>4 DEF MergeInv, TypeOK, Exclusive, Writing, SaveLocked, GoTo
<1> QED BY <1>3, <1>4, <1>5, <1>6 DEF MergeInv, Valid

-----------------------------------------------------------------------------
\* The invariant is inductive, and no step takes a stamp back.
LEMMA MergeStep ==
  ASSUME MergeInv, [Next]_vars
  PROVE  MergeInv' /\ \A u \in Urls : disk'[u].at >= disk[u].at
<1>0. disk \in [Urls -> Slot] /\ \A u \in Urls : disk[u].at \in Nat
  BY DEF MergeInv, TypeOK, Slot
<1>1. ASSUME UNCHANGED disk PROVE \A u \in Urls : disk'[u].at >= disk[u].at
  BY <1>0, <1>1
<1>2. ASSUME NEW p \in Procs, Gate(p)
      PROVE  MergeInv' /\ UNCHANGED disk
  <2>1. Exclusive'
    BY <1>2, OutsideStep DEF Gate
  <2>2. todo' \in [Procs -> SUBSET Urls] /\ runs' \in [Procs -> Nat]
    <3> DEFINE S == {u \in Work[p] : ~CommittedProven(Durable[u].rec)}
    <3>1. S \in SUBSET Urls
      BY WorkAssumption
    <3>2. runs[p] - 1 \in Nat
      BY <1>2 DEF MergeInv, TypeOK, Gate
    <3>3. todo' = [todo EXCEPT ![p] = S] /\ runs' = [runs EXCEPT ![p] = @ - 1]
      BY <1>2 DEF Gate
    <3> HIDE DEF S
    <3> QED BY <3>1, <3>2, <3>3 DEF MergeInv, TypeOK
  <2>3. TypeOK' /\ Valid'
    BY <1>2, <2>2 DEF MergeInv, TypeOK, Valid, Gate, GoTo
  <2> QED BY <1>2, <2>1, <2>3 DEF MergeInv, Gate
<1>3. ASSUME NEW p \in Procs, OpenSession(p)
      PROVE  MergeInv' /\ UNCHANGED disk
  <2>1. Durable = disk
    BY DurableIsDisk DEF MergeInv
  <2>2. Valid' /\ mine' \in [Procs -> [Urls -> Slot]]
    BY <1>3, <2>1, WorkStep DEF MergeInv, TypeOK, Valid, OpenSession
  <2>3. Exclusive'
    BY <1>3, OutsideStep DEF OpenSession
  <2>4. TypeOK'
    BY <1>3, <2>2, PageHashAssumption DEF MergeInv, TypeOK, OpenSession, GoTo
  <2> QED BY <1>3, <2>2, <2>3, <2>4 DEF MergeInv, OpenSession
<1>4. ASSUME NEW p \in Procs, NEW u \in Urls, SkipCommitted(p, u)
      PROVE  MergeInv' /\ UNCHANGED disk
  BY <1>4 DEF MergeInv, TypeOK, Valid, Exclusive, Writing, SkipCommitted,
     TakeItem
<1>5. ASSUME NEW p \in Procs, NEW u \in Urls,
             DriveItem(p, u) \/ PromoteItem(p, u) \/ FailItem(p, u)
      PROVE  MergeInv' /\ UNCHANGED disk
  <2> DEFINE r == mine[p][u].rec
  <2>1. /\ r \in RawRecord /\ mine[p][u].at \in Nat /\ clock \in Nat
        /\ SatisfiesTable(r) /\ PageHash[u] \in Hashes
    BY PageHashAssumption DEF MergeInv, TypeOK, Valid, Slot
  <2>2. CASE DriveItem(p, u)
    <3> DEFINE s == [rec |-> ExportedRecord(r, PageHash[u]), at |-> clock]
    <3>1. s \in Slot /\ SatisfiesTable(s.rec)
      BY <2>1, ExportedRecordFacts, RecordTables DEF Slot
    <3>2. mine' = [mine EXCEPT ![p][u] = s]
      BY <2>2 DEF DriveItem, MergeInv, TypeOK
    <3>3. Valid' /\ mine' \in [Procs -> [Urls -> Slot]]
      BY <2>2, <3>1, <3>2, ItemStep DEF DriveItem
    <3>4. Exclusive'
      BY <2>2, OutsideStep DEF DriveItem
    <3>5. TypeOK'
      BY <2>2, <3>3 DEF MergeInv, TypeOK, DriveItem, TakeItem, GoTo
    <3> QED BY <2>2, <3>3, <3>4, <3>5 DEF MergeInv, DriveItem
  <2>3. CASE PromoteItem(p, u)
    <3> DEFINE s == [rec |-> ExportFlushed(FlushProofRecord(r), PageHash[u]),
                     at  |-> IF Reconciles(r, "EXPORTED") THEN mine[p][u].at
                                                         ELSE clock]
    <3>1. s \in Slot /\ SatisfiesTable(s.rec)
      BY <2>1, ExportFlushedFacts, RecordTables DEF Slot
    <3>2. mine' = [mine EXCEPT ![p][u] = s]
      BY <2>3 DEF PromoteItem, MergeInv, TypeOK
    <3>3. Valid' /\ mine' \in [Procs -> [Urls -> Slot]]
      BY <2>3, <3>1, <3>2, ItemStep DEF PromoteItem
    <3>4. Exclusive'
      BY <2>3, OutsideStep DEF PromoteItem
    <3>5. TypeOK'
      BY <2>3, <3>3 DEF MergeInv, TypeOK, PromoteItem, TakeItem, GoTo
    <3> QED BY <2>3, <3>3, <3>4, <3>5 DEF MergeInv, PromoteItem
  <2>4. CASE FailItem(p, u)
    <3> DEFINE s == [rec |-> FailedRecord(r), at |-> clock]
    <3>0. ~CommittedProven(r)
      BY <2>4 DEF FailItem, Decision
    <3>1. s \in Slot /\ SatisfiesTable(s.rec)
      BY <2>1, <3>0, FailedRecordFacts, RecordTables DEF Slot
    <3>2. mine' = [mine EXCEPT ![p][u] = s]
      BY <2>4 DEF FailItem, MergeInv, TypeOK
    <3>3. Valid' /\ mine' \in [Procs -> [Urls -> Slot]]
      BY <2>4, <3>1, <3>2, ItemStep DEF FailItem
    <3>4. Exclusive'
      BY <2>4, OutsideStep DEF FailItem
    <3>5. TypeOK'
      BY <2>4, <3>3 DEF MergeInv, TypeOK, FailItem, TakeItem, GoTo
    <3> QED BY <2>4, <3>3, <3>4, <3>5 DEF MergeInv, FailItem
  <2> QED BY <1>5, <2>2, <2>3, <2>4
<1>6. ASSUME NEW p \in Procs, CommitPoint(p)
      PROVE  MergeInv' /\ UNCHANGED disk
  <2> DEFINE u == cur[p]
             s == [mine[p][u] EXCEPT !.rec = Committed(@)]
  <2>1. u \in Urls /\ mine[p][u] \in Slot /\ mine[p][u].rec \in RawRecord
    BY <1>6 DEF MergeInv, TypeOK, CommitPoint, Slot
  <2>2. CASE CanCommit(mine[p][u].rec)
    <3>1. s \in Slot /\ SatisfiesTable(s.rec)
      BY <2>1, <2>2, CommittedFacts DEF Slot, CanCommit
    <3>2. mine' = [mine EXCEPT ![p][u] = s] /\ GoTo(p, "save")
      BY <1>6, <2>1, <2>2 DEF CommitPoint, MergeInv, TypeOK
    <3> HIDE DEF s
    <3>3. Valid' /\ mine' \in [Procs -> [Urls -> Slot]]
      BY <1>6, <2>1, <3>1, <3>2, ItemStep DEF CommitPoint
    <3>4. Exclusive'
      BY <1>6, <3>2, OutsideStep DEF CommitPoint
    <3>5. TypeOK'
      BY <1>6, <3>2, <3>3 DEF MergeInv, TypeOK, CommitPoint, GoTo
    <3> QED BY <1>6, <3>3, <3>4, <3>5 DEF MergeInv, CommitPoint
  <2>3. CASE ~CanCommit(mine[p][u].rec)
    <3>1. UNCHANGED mine /\ GoTo(p, "items")
      BY <1>6, <2>3 DEF CommitPoint
    <3>2. Exclusive'
      BY <1>6, <3>1, OutsideStep DEF CommitPoint
    <3>3. TypeOK' /\ Valid'
      BY <1>6, <3>1 DEF MergeInv, TypeOK, Valid, CommitPoint, GoTo
    <3> QED BY <1>6, <3>2, <3>3 DEF MergeInv, CommitPoint
  <2> QED BY <2>2, <2>3
<1>7. ASSUME NEW p \in Procs, NextItem(p) \/ FinalPersist(p)
      PROVE  MergeInv' /\ UNCHANGED disk
  BY <1>7 DEF MergeInv, TypeOK, Valid, Exclusive, Writing, NextItem,
     FinalPersist, GoTo
<1>8. ASSUME NEW p \in Procs, LoadUnderLock(p)
      PROVE  MergeInv' /\ UNCHANGED disk
  <2>1. Durable = disk
    BY DurableIsDisk DEF MergeInv
  <2>2. TypeOK' /\ Valid'
    BY <1>8, <2>1 DEF MergeInv, TypeOK, Valid, LoadUnderLock, Acquire, GoTo
  <2>3. Exclusive'
    BY <1>8, <2>1, NoProcAssumption
       DEF MergeInv, TypeOK, Exclusive, Writing, LoadUnderLock, Acquire, GoTo
  <2> QED BY <1>8, <2>2, <2>3 DEF MergeInv, LoadUnderLock
<1>9. ASSUME NEW p \in Procs, SaveFails(p)
      PROVE  MergeInv' /\ UNCHANGED disk
  <2>1. /\ mine' \in [Procs -> [Urls -> Slot]]
        /\ \A q \in Procs, u \in Urls : SatisfiesTable(mine'[q][u].rec)
        /\ index' \in [Procs -> SUBSET Hashes]
        /\ GoTo(p, "saved") \/ GoTo(p, "idle")
    BY <1>9, AfterSaveStep DEF SaveFails
  <2>2. Valid'
    BY <1>9, <2>1 DEF MergeInv, Valid, SaveFails
  <2>3. faults' \in Nat /\ lock' \in Procs \cup {NoProc}
    BY <1>9 DEF MergeInv, TypeOK, SaveFails, Unlock
  <2>4. TypeOK'
    BY <1>9, <2>1, <2>3, AbsentSlot DEF MergeInv, TypeOK, SaveFails, GoTo
  <2>5. Exclusive'
    BY <1>9, <2>1, LeaveStep DEF SaveFails
  <2> QED BY <1>9, <2>2, <2>4, <2>5 DEF MergeInv, SaveFails
<1>10. ASSUME NEW p \in Procs, Crash(p)
       PROVE  MergeInv' /\ UNCHANGED disk
  <2>1. Valid' /\ mine' \in [Procs -> [Urls -> Slot]]
    BY <1>10, AbsentSlot, WorkStep DEF Crash, NoSlots, NoSlot
  <2>2. Exclusive'
    BY <1>10, LeaveStep DEF Crash
  <2>3. TypeOK'
    BY <1>10, <2>1, AbsentSlot DEF MergeInv, TypeOK, Crash, GoTo, Unlock
  <2> QED BY <1>10, <2>1, <2>2, <2>3 DEF MergeInv, Crash
<1>11. ASSUME Tick \/ UNCHANGED vars
       PROVE  MergeInv' /\ UNCHANGED disk
  BY <1>11 DEF MergeInv, TypeOK, Valid, Exclusive, Writing, Tick, vars
<1> QED
  BY <1>1, <1>2, <1>3, <1>4, <1>5, <1>6, <1>7, <1>8, <1>9, <1>10, <1>11,
     RenameStep DEF Next, Step

\* Last-writer-wins never goes back in time, for every number of processes,
\* pages and faults: no save of a working set loaded earlier replaces a record
\* by an older one (merge_persist inside RecordStore::update).
THEOREM StampsNeverRegress == Spec => StampsAdvance
<1>1. Init => MergeInv
  BY MergeInit
<1>2. MergeInv /\ [Next]_vars => MergeInv'
  BY MergeStep
<1>3. MergeInv /\ [Next]_vars => [\A u \in Urls : disk'[u].at >= disk[u].at]_vars
  BY MergeStep
<1> QED BY <1>1, <1>2, <1>3, PTL DEF Spec, StampsAdvance

\* Every process keeps well-formed records, index and lock ownership, for every
\* number of processes, pages, ticks and faults (RecordStore::update).
THEOREM TypeCorrect == Spec => []TypeOK
<1>1. MergeInv => TypeOK
  BY DEF MergeInv
<1> QED BY <1>1, MergeInit, MergeStep, PTL DEF Spec
-----------------------------------------------------------------------------
(* A claim survives.  The working set of a process that does not work on a  *)
(* page holds an old copy of its record; the argument is that every copy    *)
(* that is not a claim is strictly older than the claim it could replace.   *)
(* Merging by >= makes the strictness necessary, and the clock that ticks   *)
(* at each start of a process provides it.                                  *)

Claimed(s) == s.rec.status \in {"EXPORTED", "COMMITTED"}
Missing(s) == s.rec.status = "ABSENT"
Weak(s) == ~Claimed(s) /\ ~Missing(s)

\* At most one process works on the page.
Sole(u) == \A p, q \in Procs : u \in Work[p] \cap Work[q] => p = q

InSession(p) == pc[p] \notin {"idle", "scrape"}

\* Nothing is stamped in the future.
StampsPast(u) == /\ disk[u].at <= clock
                 /\ \A p \in Procs : mine[p][u].at <= clock

\* A copy that is no claim is older than the claim on disk.
WeakOlder(u) == \A p \in Procs :
  (Weak(mine[p][u]) /\ Claimed(disk[u])) => mine[p][u].at < disk[u].at

\* A process that does not work on the page has a claim only from the disk.
CopyOfClaim(u) == \A p \in Procs :
  (u \notin Work[p] /\ Claimed(mine[p][u])) => Claimed(disk[u])

\* The one that does knows of the claim.
OwnerKnows(u) == \A p \in Procs :
  (u \in Work[p] /\ InSession(p) /\ Claimed(disk[u])) => Claimed(mine[p][u])

\* Its own claim is newer than every copy that is none.
OwnerNewer(u) == \A p \in Procs :
  (u \in Work[p] /\ Claimed(mine[p][u])) =>
    /\ \A q \in Procs : Weak(mine[q][u]) => mine[q][u].at < mine[p][u].at
    /\ Weak(disk[u]) => disk[u].at < mine[p][u].at

\* A page still to process was stamped before its process started.
TodoOld(u) == \A p \in Procs :
  u \in todo[p] =>
    /\ \A q \in Procs : ~Missing(mine[q][u]) => mine[q][u].at < clock
    /\ ~Missing(disk[u]) => disk[u].at < clock

PageInv(u) == /\ StampsPast(u) /\ WeakOlder(u) /\ CopyOfClaim(u)
              /\ OwnerKnows(u) /\ OwnerNewer(u) /\ TodoOld(u)

TodoIsWork == \A p \in Procs : todo[p] \subseteq Work[p]

ClaimInv == TodoIsWork /\ \A u \in Urls : Sole(u) => PageInv(u)

\* The types a page's slots have.
LEMMA SlotTypes ==
  ASSUME TypeOK, NEW u \in Urls
  PROVE  /\ clock \in Nat /\ disk[u].at \in Nat
         /\ \A p \in Procs : mine[p][u].at \in Nat
BY DEF TypeOK, Slot

\* Nothing happens to a page: its slots keep their stamps and stay claims or
\* not, and a process that ends forgets its copy.
LEMMA PageKept ==
  ASSUME TypeOK, TypeOK', NEW u \in Urls, PageInv(u), disk'[u] = disk[u],
         clock' >= clock,
         \A p \in Procs :
           \/ /\ mine'[p][u].at = mine[p][u].at
              /\ Claimed(mine'[p][u]) <=> Claimed(mine[p][u])
              /\ Missing(mine'[p][u]) <=> Missing(mine[p][u])
           \/ mine'[p][u] = NoSlot /\ pc'[p] = "idle",
         \A p \in Procs : u \in todo'[p] => u \in todo[p],
         \A p \in Procs : pc'[p] \notin {"idle", "scrape"} => InSession(p)
  PROVE  PageInv(u)'
<1>1. /\ clock \in Nat /\ disk[u].at \in Nat
      /\ \A p \in Procs : mine[p][u].at \in Nat
  BY SlotTypes
<1>2. clock' \in Nat
  BY DEF TypeOK
<1>3. NoSlot.at = 0 /\ Missing(NoSlot) /\ ~Claimed(NoSlot)
  BY DEF NoSlot, Missing, Claimed, Absent, Blank
<1>4. \A p \in Procs :
        \/ /\ mine'[p][u].at = mine[p][u].at
           /\ Claimed(mine'[p][u]) <=> Claimed(mine[p][u])
           /\ Missing(mine'[p][u]) <=> Missing(mine[p][u])
        \/ /\ mine'[p][u].at = 0 /\ Missing(mine'[p][u])
           /\ ~Claimed(mine'[p][u]) /\ pc'[p] = "idle"
  BY <1>3
<1>5. StampsPast(u)'
  BY <1>1, <1>2, <1>4 DEF PageInv, StampsPast
<1>6. WeakOlder(u)' /\ CopyOfClaim(u)'
  BY <1>4 DEF PageInv, WeakOlder, CopyOfClaim, Weak, Claimed, Missing
<1>7. OwnerKnows(u)'
  BY <1>4 DEF PageInv, OwnerKnows, InSession, Claimed
<1>8. OwnerNewer(u)'
  BY <1>4 DEF PageInv, OwnerNewer, Weak, Claimed, Missing
<1>9. TodoOld(u)'
  BY <1>1, <1>2, <1>4 DEF PageInv, TodoOld, Missing
<1> QED BY <1>5, <1>6, <1>7, <1>8, <1>9 DEF PageInv

\* The one process that works on the page stamps a record of its own.
LEMMA PageWorked ==
  ASSUME TypeOK, TypeOK', NEW u \in Urls, Sole(u), PageInv(u), TodoIsWork,
         NEW p \in Procs, u \in todo[p], pc[p] = "items",
         disk' = disk, clock' = clock,
         \A q \in Procs \ {p} : /\ mine'[q][u] = mine[q][u]
                                /\ todo'[q] = todo[q] /\ pc'[q] = pc[q],
         u \notin todo'[p],
         \/ mine'[p][u].at = clock
         \/ mine'[p][u].at = mine[p][u].at /\ Claimed(mine[p][u]),
         ~Missing(mine'[p][u]),
         Claimed(mine[p][u]) => Claimed(mine'[p][u])
  PROVE  PageInv(u)'
<1>1. /\ clock \in Nat /\ disk[u].at \in Nat
      /\ \A q \in Procs : mine[q][u].at \in Nat
  BY SlotTypes
<1>2. u \in Work[p] /\ \A q \in Procs \ {p} : u \notin Work[q] /\ u \notin todo[q]
  BY DEF TodoIsWork, Sole
<1>3. InSession(p)
  BY DEF InSession
<1>4. Claimed(disk[u]) => Claimed(mine[p][u])
  BY <1>2, <1>3 DEF PageInv, OwnerKnows
<1>5. /\ \A q \in Procs : ~Missing(mine[q][u]) => mine[q][u].at < clock
      /\ ~Missing(disk[u]) => disk[u].at < clock
  BY DEF PageInv, TodoOld
<1>6. StampsPast(u)'
  BY <1>1 DEF PageInv, StampsPast
<1>7. WeakOlder(u)' /\ CopyOfClaim(u)'
  BY <1>2, <1>4 DEF PageInv, WeakOlder, CopyOfClaim, Weak, Claimed, Missing
<1>8. OwnerKnows(u)'
  BY <1>2, <1>4 DEF PageInv, OwnerKnows, Claimed
<1>9. OwnerNewer(u)'
  BY <1>2, <1>5 DEF PageInv, OwnerNewer, Weak, Claimed, Missing
<1>10. TodoOld(u)'
  BY <1>2 DEF TodoOld
<1> QED BY <1>6, <1>7, <1>8, <1>9, <1>10 DEF PageInv

\* A process opens its session on the record that is on disk.
LEMMA PageOpened ==
  ASSUME TypeOK, TypeOK', NEW u \in Urls, Sole(u), PageInv(u), NEW p \in Procs,
         disk' = disk, clock' = clock, todo' = todo, mine'[p][u] = disk[u],
         \A q \in Procs \ {p} : mine'[q][u] = mine[q][u] /\ pc'[q] = pc[q]
  PROVE  PageInv(u)'
<1>1. /\ clock \in Nat /\ disk[u].at \in Nat
      /\ \A q \in Procs : mine[q][u].at \in Nat
  BY SlotTypes
<1>2. StampsPast(u)'
  BY <1>1 DEF PageInv, StampsPast
<1>3. WeakOlder(u)' /\ CopyOfClaim(u)'
  BY DEF PageInv, WeakOlder, CopyOfClaim, Weak, Claimed, Missing
<1>4. OwnerKnows(u)'
  BY DEF PageInv, OwnerKnows, InSession, Claimed
<1>5. OwnerNewer(u)'
  <2> SUFFICES ASSUME NEW o \in Procs, u \in Work[o], Claimed(mine'[o][u])
               PROVE  /\ \A q \in Procs : Weak(mine'[q][u])
                                            => mine'[q][u].at < mine'[o][u].at
                      /\ Weak(disk[u]) => disk[u].at < mine'[o][u].at
    BY DEF OwnerNewer, Weak, Claimed, Missing
  <2>1. CASE o = p
    BY <2>1 DEF PageInv, WeakOlder, Weak
  <2>2. CASE o # p
    BY <2>2 DEF PageInv, OwnerNewer
  <2> QED BY <2>1, <2>2
<1>6. TodoOld(u)'
  BY DEF PageInv, TodoOld, Missing
<1> QED BY <1>2, <1>3, <1>4, <1>5, <1>6 DEF PageInv

\* A process lays its working set over the store and goes on, or ends: the page
\* stays claimed, and a claim of its own becomes the newest.
LEMMA PageSaved ==
  ASSUME TypeOK, NEW u \in Urls, Sole(u), PageInv(u), NEW p \in Procs,
         InSession(p), disk' = MergePersist(disk, mine[p]),
         UNCHANGED <<clock, todo>>,
         \A q \in Procs : \/ mine'[q][u] = mine[q][u]
                          \/ mine'[q][u] = NoSlot /\ pc'[q] = "idle",
         \A q \in Procs : pc'[q] \notin {"idle", "scrape"} => InSession(q)
  PROVE  (Claimed(disk[u]) => Claimed(disk'[u])) /\ PageInv(u)'
<1>1. /\ clock \in Nat /\ disk[u].at \in Nat
      /\ \A q \in Procs : mine[q][u].at \in Nat
  BY SlotTypes
<1>2. \/ disk'[u] = disk[u]
      \/ /\ disk'[u] = mine[p][u] /\ ~Missing(mine[p][u])
         /\ mine[p][u].at >= disk[u].at
  BY <1>1 DEF MergePersist, Missing
<1>3. Claimed(disk[u]) => Claimed(disk'[u])
  <2> SUFFICES ASSUME Claimed(disk[u]), ~Claimed(disk'[u]) PROVE FALSE
    OBVIOUS
  <2>1. Weak(mine[p][u]) /\ mine[p][u].at >= disk[u].at
    BY <1>2 DEF Weak
  <2> QED BY <1>1, <2>1 DEF PageInv, WeakOlder
<1>4. NoSlot.at = 0 /\ Missing(NoSlot) /\ ~Claimed(NoSlot)
  BY DEF NoSlot, Missing, Claimed, Absent, Blank
<1>5. \A q \in Procs : \/ mine'[q][u] = mine[q][u]
                       \/ /\ mine'[q][u].at = 0 /\ Missing(mine'[q][u])
                          /\ ~Claimed(mine'[q][u]) /\ pc'[q] = "idle"
  BY <1>4
<1>6. StampsPast(u)'
  BY <1>1, <1>2, <1>5 DEF PageInv, StampsPast
<1>7. WeakOlder(u)'
  <2> SUFFICES ASSUME NEW q \in Procs, Weak(mine[q][u]), Claimed(disk'[u])
               PROVE  mine[q][u].at < disk'[u].at
    BY <1>5 DEF WeakOlder, Weak, Claimed, Missing
  <2>1. CASE disk'[u] = disk[u]
    BY <2>1 DEF PageInv, WeakOlder
  <2>2. CASE disk'[u] # disk[u] /\ u \in Work[p]
    BY <1>2, <2>2 DEF PageInv, OwnerNewer
  <2>3. CASE disk'[u] # disk[u] /\ u \notin Work[p]
    <3>1. mine[q][u].at < disk[u].at
      BY <1>2, <2>3 DEF PageInv, CopyOfClaim, WeakOlder
    <3> QED BY <1>1, <1>2, <2>3, <3>1
  <2> QED BY <2>1, <2>2, <2>3
<1>8. CopyOfClaim(u)'
  BY <1>3, <1>5 DEF PageInv, CopyOfClaim, Claimed
<1>9. OwnerKnows(u)'
  <2> SUFFICES ASSUME NEW o \in Procs, u \in Work[o], InSession(o),
                      Claimed(disk'[u])
               PROVE  Claimed(mine[o][u])
    BY <1>5 DEF OwnerKnows, InSession, Claimed
  <2>1. CASE disk'[u] = disk[u] \/ u \notin Work[p]
    BY <1>2, <2>1 DEF PageInv, CopyOfClaim, OwnerKnows
  <2>2. CASE disk'[u] # disk[u] /\ u \in Work[p]
    BY <1>2, <2>2 DEF Sole
  <2> QED BY <2>1, <2>2
<1>10. OwnerNewer(u)'
  BY <1>2, <1>5 DEF PageInv, OwnerNewer, Weak, Claimed, Missing
<1>11. TodoOld(u)'
  BY <1>2, <1>5 DEF PageInv, TodoOld, Missing
<1> QED BY <1>3, <1>6, <1>7, <1>8, <1>9, <1>10, <1>11 DEF PageInv

\* A process starts: its pages were stamped before.
LEMMA PageGated ==
  ASSUME TypeOK, NEW u \in Urls, PageInv(u), disk' = disk, mine' = mine,
         clock' = clock + 1,
         \A q \in Procs : pc'[q] \notin {"idle", "scrape"} => InSession(q)
  PROVE  PageInv(u)'
<1>1. /\ clock \in Nat /\ disk[u].at \in Nat
      /\ \A q \in Procs : mine[q][u].at \in Nat
  BY SlotTypes
<1>2. StampsPast(u)' /\ TodoOld(u)'
  BY <1>1 DEF PageInv, StampsPast, TodoOld
<1>3. WeakOlder(u)' /\ CopyOfClaim(u)' /\ OwnerNewer(u)'
  BY DEF PageInv, WeakOlder, CopyOfClaim, OwnerNewer, Weak, Claimed, Missing
<1>4. OwnerKnows(u)'
  BY DEF PageInv, OwnerKnows, Claimed, InSession
<1> QED BY <1>2, <1>3, <1>4 DEF PageInv

\* One step of ClaimSurvives.
ClaimStays ==
  \A u \in Urls :
    (/\ \A p, q \in Procs : u \in Work[p] \cap Work[q] => p = q
     /\ disk[u].rec.status \in {"EXPORTED", "COMMITTED"})
      => disk'[u].rec.status \in {"EXPORTED", "COMMITTED"}

\* The pages to process are pages the process works on.
LEMMA TodoStep ==
  ASSUME MergeInv, TodoIsWork, [Next]_vars
  PROVE  TodoIsWork'
<1>1. ASSUME NEW p \in Procs, Gate(p) PROVE TodoIsWork'
  BY <1>1 DEF Gate, TodoIsWork, MergeInv, TypeOK
<1>2. ASSUME NEW p \in Procs, NEW u \in Urls,
             \/ SkipCommitted(p, u) \/ DriveItem(p, u)
             \/ PromoteItem(p, u) \/ FailItem(p, u)
      PROVE  TodoIsWork'
  <2>1. todo' = [todo EXCEPT ![p] = @ \ {u}]
    BY <1>2 DEF SkipCommitted, DriveItem, PromoteItem, FailItem, TakeItem
  <2> QED BY <2>1 DEF TodoIsWork, MergeInv, TypeOK
<1>3. ASSUME NEW p \in Procs, Crash(p) PROVE TodoIsWork'
  BY <1>3 DEF Crash, TodoIsWork, MergeInv, TypeOK
<1>4. ASSUME NEW p \in Procs,
             \/ OpenSession(p) \/ CommitPoint(p) \/ NextItem(p)
             \/ FinalPersist(p) \/ LoadUnderLock(p) \/ SaveLocked(p)
             \/ SaveFails(p)
      PROVE  TodoIsWork'
  BY <1>4 DEF OpenSession, CommitPoint, NextItem, FinalPersist, LoadUnderLock,
     SaveLocked, SaveFails, TodoIsWork
<1>5. CASE Tick \/ UNCHANGED vars
  BY <1>5 DEF Tick, vars, TodoIsWork
<1> QED BY <1>1, <1>2, <1>3, <1>4, <1>5 DEF Next, Step

\* An item that p takes: the page it is about and every other page.
LEMMA ItemClaim ==
  ASSUME MergeInv, MergeInv', ClaimInv, NEW p \in Procs, NEW v \in Urls,
         DriveItem(p, v) \/ PromoteItem(p, v) \/ FailItem(p, v),
         NEW u \in Urls, Sole(u)
  PROVE  PageInv(u)' /\ disk' = disk
<1>0. TypeOK /\ TypeOK' /\ PageInv(u) /\ TodoIsWork
  BY DEF MergeInv, ClaimInv
<1>1. /\ pc[p] = "items" /\ v \in todo[p] /\ todo' = [todo EXCEPT ![p] = @ \ {v}]
      /\ UNCHANGED <<disk, clock>> /\ GoTo(p, "save")
  BY DEF DriveItem, PromoteItem, FailItem, TakeItem
<1>2. PICK s : /\ mine' = [mine EXCEPT ![p][v] = s]
               /\ ~Missing(s)
               /\ Claimed(mine[p][v]) => Claimed(s)
               /\ \/ s.at = clock
                  \/ s.at = mine[p][v].at /\ Claimed(mine[p][v])
  <2> DEFINE r == mine[p][v].rec
  <2>0. r \in RawRecord
    BY <1>0 DEF TypeOK, Slot
  <2>1. CASE DriveItem(p, v)
    <3> DEFINE s == [rec |-> ExportedRecord(r, PageHash[v]), at |-> clock]
    <3>1. mine' = [mine EXCEPT ![p][v] = s]
      BY <1>0, <2>1 DEF DriveItem, TypeOK
    <3>2. s.rec.status = "EXPORTED"
      BY DEF ExportedRecord
    <3>3. ~Missing(s) /\ Claimed(s) /\ s.at = clock
      BY <3>2 DEF Missing, Claimed
    <3> HIDE DEF s
    <3> QED BY <3>1, <3>3
  <2>2. CASE PromoteItem(p, v)
    <3> DEFINE q == ExportFlushed(FlushProofRecord(r), PageHash[v])
               s == [rec |-> q,
                     at  |-> IF Reconciles(r, "EXPORTED") THEN mine[p][v].at
                                                         ELSE clock]
    <3>1. mine' = [mine EXCEPT ![p][v] = s]
      BY <1>0, <2>2 DEF PromoteItem, TypeOK
    <3>2. q.status = "EXPORTED"
      BY DEF ExportFlushed, FlushProofRecord
    <3> HIDE DEF q
    <3>3. ~Missing(s) /\ Claimed(s)
      BY <3>2 DEF Missing, Claimed
    <3>4. \/ s.at = clock
          \/ s.at = mine[p][v].at /\ Claimed(mine[p][v])
      BY DEF Reconciles, Claimed
    <3> HIDE DEF s
    <3> QED BY <3>1, <3>3, <3>4
  <2>3. CASE FailItem(p, v)
    <3> DEFINE s == [rec |-> FailedRecord(r), at |-> clock]
    <3>1. mine' = [mine EXCEPT ![p][v] = s]
      BY <1>0, <2>3 DEF FailItem, TypeOK
    <3>2. /\ r.status # "ABSENT" => FailedRecord(r).status = r.status
          /\ r.status = "ABSENT" => FailedRecord(r).status = "DISCOVERED"
      BY <2>0, FailedRecordFacts
    <3>3. ~Missing(s) /\ (Claimed(mine[p][v]) => Claimed(s)) /\ s.at = clock
      BY <3>2 DEF Missing, Claimed
    <3> HIDE DEF s
    <3> QED BY <3>1, <3>3
  <2> QED BY <2>1, <2>2, <2>3
<1>3. CASE u = v
  <2>1. mine'[p][u] = s /\ \A q \in Procs \ {p} : mine'[q][u] = mine[q][u]
    BY <1>0, <1>2, <1>3 DEF TypeOK
  <2>2. /\ u \notin todo'[p]
        /\ \A q \in Procs \ {p} : todo'[q] = todo[q] /\ pc'[q] = pc[q]
    BY <1>0, <1>1, <1>3 DEF TypeOK, GoTo
  <2>3. PageInv(u)'
    BY <1>0, <1>1, <1>2, <1>3, <2>1, <2>2, PageWorked
  <2> QED BY <1>1, <2>3
<1>4. CASE u # v
  <2>1. \A q \in Procs : mine'[q][u] = mine[q][u]
    BY <1>0, <1>2, <1>4 DEF TypeOK
  <2>2. \A q \in Procs : /\ u \in todo'[q] => u \in todo[q]
                         /\ pc'[q] \notin {"idle", "scrape"} => InSession(q)
    BY <1>0, <1>1 DEF TypeOK, GoTo, InSession
  <2>3. clock' >= clock /\ disk'[u] = disk[u]
    BY <1>0, <1>1 DEF TypeOK
  <2>4. PageInv(u)'
    BY <1>0, <2>1, <2>2, <2>3, PageKept
  <2> QED BY <1>1, <2>4
<1> QED BY <1>3, <1>4

\* The other steps of a process leave the page alone, copy it or drop it.
LEMMA ProcClaim ==
  ASSUME MergeInv, MergeInv', ClaimInv, NEW p \in Procs,
         \/ OpenSession(p) \/ Gate(p) \/ CommitPoint(p) \/ NextItem(p)
         \/ FinalPersist(p) \/ LoadUnderLock(p) \/ SaveFails(p) \/ Crash(p)
         \/ \E v \in Urls : SkipCommitted(p, v),
         NEW u \in Urls, Sole(u)
  PROVE  PageInv(u)' /\ disk' = disk
<1>0. TypeOK /\ TypeOK' /\ PageInv(u) /\ TodoIsWork
  BY DEF MergeInv, ClaimInv
<1>1. disk' = disk
  BY DEF OpenSession, Gate, CommitPoint, NextItem, FinalPersist, LoadUnderLock,
     SaveFails, Crash, SkipCommitted
<1>2. clock \in Nat
  BY <1>0 DEF TypeOK
<1>3. CASE OpenSession(p)
  <2>1. Durable = disk
    BY DurableIsDisk DEF MergeInv
  <2>2. /\ UNCHANGED <<clock, todo>> /\ mine'[p][u] = disk[u]
        /\ \A q \in Procs \ {p} : mine'[q][u] = mine[q][u] /\ pc'[q] = pc[q]
    BY <1>0, <1>3, <2>1 DEF OpenSession, GoTo, TypeOK
  <2>3. PageInv(u)'
    BY <1>0, <1>1, <2>2, PageOpened
  <2> QED BY <1>1, <2>3
<1>4. CASE Gate(p)
  <2>1. /\ mine' = mine /\ clock' = clock + 1
        /\ \A q \in Procs : pc'[q] \notin {"idle", "scrape"} => InSession(q)
    BY <1>0, <1>4 DEF Gate, GoTo, TypeOK, InSession
  <2>2. PageInv(u)'
    BY <1>0, <1>1, <2>1, PageGated
  <2> QED BY <1>1, <2>2
<1>5. CASE \/ NextItem(p) \/ FinalPersist(p) \/ LoadUnderLock(p)
           \/ SaveFails(p) \/ Crash(p)
           \/ \E v \in Urls : SkipCommitted(p, v)
  <2>1. clock' = clock /\ disk'[u] = disk[u]
    BY <1>1, <1>5 DEF NextItem, FinalPersist, LoadUnderLock, SaveFails, Crash,
       SkipCommitted
  <2>2. \A q \in Procs : \/ mine'[q][u] = mine[q][u]
                         \/ mine'[q][u] = NoSlot /\ pc'[q] = "idle"
    <3>1. CASE Crash(p) \/ SaveFails(p)
      <4>1. NoSlots[u] = NoSlot
        BY DEF NoSlots
      <4>2. \/ mine' = mine
            \/ /\ mine' = [mine EXCEPT ![p] = NoSlots]
               /\ pc' = [pc EXCEPT ![p] = "idle"]
        BY <3>1 DEF SaveFails, Crash, AfterSave, GoTo
      <4> QED BY <1>0, <4>1, <4>2 DEF TypeOK
    <3>2. CASE ~(Crash(p) \/ SaveFails(p))
      BY <1>5, <3>2 DEF NextItem, FinalPersist, LoadUnderLock, SkipCommitted
    <3> QED BY <3>1, <3>2
  <2>3. \A q \in Procs : u \in todo'[q] => u \in todo[q]
    <3>1. CASE Crash(p)
      BY <1>0, <3>1 DEF Crash, TypeOK
    <3>2. ASSUME NEW v \in Urls, SkipCommitted(p, v)
          PROVE  \A q \in Procs : u \in todo'[q] => u \in todo[q]
      BY <1>0, <3>2 DEF SkipCommitted, TakeItem, TypeOK
    <3>3. CASE ~(Crash(p) \/ \E v \in Urls : SkipCommitted(p, v))
      BY <1>5, <3>3 DEF NextItem, FinalPersist, LoadUnderLock, SaveFails
    <3> QED BY <3>1, <3>2, <3>3
  <2>4. \A q \in Procs : pc'[q] \notin {"idle", "scrape"} => InSession(q)
    BY <1>0, <1>5 DEF NextItem, FinalPersist, LoadUnderLock, SaveFails, Crash,
       SkipCommitted, TakeItem, AfterSave, GoTo, TypeOK, InSession, Acquire
  <2>5. clock' >= clock
    BY <1>2, <2>1
  <2>6. PageInv(u)'
    BY <1>0, <2>1, <2>2, <2>3, <2>4, <2>5, PageKept
  <2> QED BY <1>1, <2>6
<1>6. CASE CommitPoint(p)
  <2>1. /\ clock' = clock /\ clock' >= clock /\ todo' = todo
        /\ disk'[u] = disk[u]
        /\ \A q \in Procs : pc'[q] \notin {"idle", "scrape"} => InSession(q)
    BY <1>0, <1>1, <1>2, <1>6 DEF CommitPoint, GoTo, TypeOK, InSession
  <2>2. \A q \in Procs :
          /\ mine'[q][u].at = mine[q][u].at
          /\ Claimed(mine'[q][u]) <=> Claimed(mine[q][u])
          /\ Missing(mine'[q][u]) <=> Missing(mine[q][u])
    <3>1. CASE CanCommit(mine[p][cur[p]].rec)
      <4> DEFINE v == cur[p]
                 m == mine[p][v]
                 s == [m EXCEPT !.rec = Committed(@)]
      <4>1. v \in Urls /\ m \in Slot /\ m.rec \in RawRecord
        BY <1>0, <1>6 DEF CommitPoint, TypeOK, Slot
      <4>2. mine' = [mine EXCEPT ![p][v] = s]
        BY <1>0, <1>6, <3>1, <4>1 DEF CommitPoint, TypeOK
      <4>3. m.rec.status = "EXPORTED"
        BY <3>1 DEF CanCommit, Reconciles
      <4>4. s.at = m.at /\ s.rec.status = "COMMITTED"
        BY <4>1, CommittedFacts DEF Slot
      <4> HIDE DEF s
      <4>5. \A q \in Procs : mine'[q][u] = IF q = p /\ u = v THEN s ELSE mine[q][u]
        BY <1>0, <4>1, <4>2 DEF TypeOK
      <4> QED BY <4>3, <4>4, <4>5 DEF Claimed, Missing
    <3>2. CASE ~CanCommit(mine[p][cur[p]].rec)
      BY <1>6, <3>2 DEF CommitPoint
    <3> QED BY <3>1, <3>2
  <2>3. PageInv(u)'
    BY <1>0, <2>1, <2>2, PageKept
  <2> QED BY <1>1, <2>3
<1> QED BY <1>3, <1>4, <1>5, <1>6

\* The invariant of the pages is inductive, and no step loses a claim.
LEMMA ClaimStep ==
  ASSUME MergeInv, ClaimInv, [Next]_vars
  PROVE  ClaimInv' /\ ClaimStays
<1>0. MergeInv' /\ TodoIsWork' /\ TypeOK /\ TypeOK'
  BY MergeStep, TodoStep DEF ClaimInv, MergeInv
<1>1. ASSUME NEW u \in Urls, Sole(u)
      PROVE  PageInv(u)' /\ (Claimed(disk[u]) => Claimed(disk'[u]))
  <2>0. PageInv(u)
    BY <1>1 DEF ClaimInv
  <2>1. ASSUME NEW p \in Procs,
               \/ OpenSession(p) \/ Gate(p) \/ CommitPoint(p) \/ NextItem(p)
               \/ FinalPersist(p) \/ LoadUnderLock(p) \/ SaveFails(p) \/ Crash(p)
               \/ \E v \in Urls : SkipCommitted(p, v)
        PROVE  PageInv(u)' /\ (Claimed(disk[u]) => Claimed(disk'[u]))
    <3>1. PageInv(u)' /\ disk' = disk
      BY <1>0, <1>1, <2>1, ProcClaim
    <3> QED BY <3>1
  <2>2. ASSUME NEW p \in Procs, NEW v \in Urls,
               DriveItem(p, v) \/ PromoteItem(p, v) \/ FailItem(p, v)
        PROVE  PageInv(u)' /\ (Claimed(disk[u]) => Claimed(disk'[u]))
    <3>1. PageInv(u)' /\ disk' = disk
      BY <1>0, <1>1, <2>2, ItemClaim
    <3> QED BY <3>1
  <2>3. ASSUME NEW p \in Procs, SaveLocked(p)
        PROVE  PageInv(u)' /\ (Claimed(disk[u]) => Claimed(disk'[u]))
    <3>1. /\ disk' = MergePersist(disk, mine[p]) /\ UNCHANGED <<clock, todo>>
          /\ InSession(p)
      BY <2>3 DEF SaveLocked, MergeInv, Exclusive, Writing, InSession
    <3>2. \A q \in Procs : \/ mine'[q][u] = mine[q][u]
                           \/ mine'[q][u] = NoSlot /\ pc'[q] = "idle"
      BY <1>0, <2>3 DEF SaveLocked, AfterSave, GoTo, TypeOK, NoSlots
    <3>3. \A q \in Procs : pc'[q] \notin {"idle", "scrape"} => InSession(q)
      BY <1>0, <2>3 DEF SaveLocked, AfterSave, GoTo, TypeOK, InSession
    <3> QED BY <1>0, <1>1, <2>0, <3>1, <3>2, <3>3, PageSaved
  <2>4. CASE Tick \/ UNCHANGED vars
    <3>1. /\ UNCHANGED <<disk, mine, todo, pc>>
          /\ clock' = clock \/ clock' = clock + 1
      BY <2>4 DEF Tick, vars
    <3>2. clock' >= clock
      BY <1>0, <3>1 DEF TypeOK
    <3>3. PageInv(u)'
      BY <1>0, <2>0, <3>1, <3>2, PageKept DEF InSession
    <3> QED BY <3>1, <3>3
  <2> QED BY <2>1, <2>2, <2>3, <2>4 DEF Next, Step
<1>2. ClaimStays
  BY <1>1 DEF ClaimStays, Claimed, Sole
<1>3. ClaimInv'
  BY <1>0, <1>1 DEF ClaimInv, Sole
<1> QED BY <1>2, <1>3

\* A page that only one process works on, once EXPORTED or COMMITTED on disk,
\* stays so, whatever working sets, loaded however long ago, the other
\* processes save over the store, and through crashes, failed items and failed
\* saves of any of them (merge_persist inside RecordStore::update).
THEOREM ClaimsSurvive == Spec => ClaimSurvives
<1>1. Init => MergeInv /\ ClaimInv
  <2> SUFFICES ASSUME Init PROVE MergeInv /\ ClaimInv
    OBVIOUS
  <2>1. NoSlot.at = 0 /\ Missing(NoSlot) /\ ~Claimed(NoSlot)
    BY DEF NoSlot, Missing, Claimed, Absent, Blank
  <2>2. /\ clock = 1 /\ \A u \in Urls : disk[u] = NoSlot
        /\ \A p \in Procs, u \in Urls : mine[p][u] = NoSlot
        /\ \A p \in Procs : todo[p] = {}
    BY DEF Init, NoSlots
  <2>3. ASSUME NEW u \in Urls PROVE PageInv(u)
    BY <2>1, <2>2 DEF PageInv, StampsPast, WeakOlder, CopyOfClaim, OwnerKnows,
       OwnerNewer, TodoOld, Weak
  <2>4. TodoIsWork
    BY <2>2 DEF TodoIsWork
  <2> QED BY <2>3, <2>4, MergeInit DEF ClaimInv
<1>2. MergeInv /\ ClaimInv /\ [Next]_vars => (MergeInv /\ ClaimInv)'
  BY MergeStep, ClaimStep
<1>3. MergeInv /\ ClaimInv /\ [Next]_vars => [ClaimStays]_vars
  BY ClaimStep
<1> QED BY <1>1, <1>2, <1>3, PTL DEF Spec, ClaimSurvives, ClaimStays
=============================================================================
