-------------------------- MODULE ExportCommitProofs --------------------------
(***************************************************************************)
(* Proofs about the export protocol, for every set of pages, contents and  *)
(* bounds.                                                                 *)
(***************************************************************************)
EXTENDS ExportCommit, RecordTransitionProofs, TLAPS

\* A load, a save and a swap keep a table of records one.
LEMMA TablesAreTables ==
  ASSUME NEW recs \in [Urls -> RawRecord]
  PROVE  /\ PartitionValid(recs) \in [Urls -> RawRecord]
         /\ NoRecords \in [Urls -> RawRecord]
         /\ \A u \in Urls : SwapToCommitted(recs, u) \in [Urls -> RawRecord]
         /\ store \in [Urls -> RawRecord] => Merged(recs) \in [Urls -> RawRecord]
<1>1. \A s \in [Urls -> RawRecord] : PartitionValid(s) \in [Urls -> RawRecord]
  BY FreshIsRecord DEF PartitionValid
<1>2. NoRecords \in [Urls -> RawRecord]
  BY FreshIsRecord DEF NoRecords
<1>3. \A u \in Urls : SwapToCommitted(recs, u) \in [Urls -> RawRecord]
  BY CommittedFacts DEF SwapToCommitted
<1>4. store \in [Urls -> RawRecord] => Merged(recs) \in [Urls -> RawRecord]
  BY <1>1 DEF Merged
<1> QED BY <1>1, <1>2, <1>3, <1>4

\* A step that spends faults keeps the bounds natural numbers.
LEMMA SpendType ==
  ASSUME NEW faults, Spend(faults),
         budget \in [{"crash", "item", "save", "read", "rerun"} -> Nat]
  PROVE  budget' \in [{"crash", "item", "save", "read", "rerun"} -> Nat]
BY DEF Spend

\* A save of a table of records keeps the store one.
LEMMA SaveType ==
  ASSUME TypeOK, NEW recs \in [Urls -> RawRecord], NEW faults,
         Save(recs, faults)
  PROVE  /\ store' \in [Urls -> RawRecord]
         /\ budget' \in [{"crash", "item", "save", "read", "rerun"} -> Nat]
<1> USE DEF TypeOK
<1>1. Merged(recs) \in [Urls -> RawRecord]
  BY TablesAreTables
<1>2. store' \in [Urls -> RawRecord]
  BY <1>1 DEF Save
<1>3. \E f : Spend(f)
  BY DEF Save
<1> QED BY <1>2, <1>3, SpendType

\* What a session may open on: the store or nothing, the index of the output or
\* nothing, and a fault for each of the latter.
LEMMA OpenOutcomes ==
  ASSUME OpenSession
  PROVE  \E f : /\ Spend(f)
                /\ records' = NoRecords \/ records' = PartitionValid(store)
                /\ mode = "detached" \/ records' = PartitionValid(store) \/ "save" \in f
                /\ index' \subseteq ChecksumIndex
                /\ index' = ChecksumIndex \/ "read" \in f
<1>1. PICK faults \in {{}, {"read"}} :
        /\ IF mode = "detached" THEN records' = NoRecords /\ Spend(faults)
                                ELSE Load(records', faults)
        /\ index' = BuildContentHashIndex(faults)
  BY DEF OpenSession
<1>2. \/ records' = NoRecords /\ mode = "detached" /\ Spend(faults)
      \/ records' = PartitionValid(store) /\ Spend(faults)
      \/ records' = NoRecords /\ Spend(faults \cup {"save"})
  BY <1>1 DEF Load
<1>3. index' \subseteq ChecksumIndex /\ (index' = ChecksumIndex \/ "read" \in faults)
  BY <1>1 DEF BuildContentHashIndex
<1> QED BY <1>2, <1>3
-----------------------------------------------------------------------------
(* Type correctness: one lemma for the steps of an item, one for Next.     *)

Budgets == [{"crash", "item", "save", "read", "rerun"} -> Nat]

\* The steps that take the next result of the run.
LEMMA ProcessItemType ==
  ASSUME TypeOK, NEW u \in Urls, NEW h \in Hashes,
         ProcessItem(u, h) \/ InvalidItem(u, h)
  PROVE  TypeOK'
<1> USE DEF TypeOK
<1>0. todo[u] > 0 => [todo EXCEPT ![u] = @ - 1] \in [Urls -> 0..Copies]
  BY CopiesAssumption
<1>1. Claim(u, h) => /\ driven' \in SUBSET (Urls \X Hashes)
                     /\ todo' \in [Urls -> 0..Copies]
  BY <1>0 DEF Claim
<1>2. [url |-> u, hash |-> h] \in Items
  BY DEF Items
<1>3. CASE SkipDuplicate(u, h)
  BY <1>0, <1>3 DEF SkipDuplicate, disk, session
<1>4. CASE SkipCommitted(u, h)
  BY <1>1, <1>4 DEF SkipCommitted, disk
<1>5. CASE PromoteFromFlushProof(u, h)
  <2>1. records' \in [Urls -> RawRecord]
    BY <1>5, ExportFlushedFacts DEF PromoteFromFlushProof
  <2>2. Save(records', {})
    BY <1>5 DEF PromoteFromFlushProof
  <2>3. store' \in [Urls -> RawRecord] /\ budget' \in Budgets
    BY <2>1, <2>2, SaveType DEF Budgets
  <2> QED BY <1>1, <1>2, <1>5, <2>1, <2>3 DEF PromoteFromFlushProof, Budgets
<1>6. CASE StartDrive(u, h)
  BY <1>1, <1>2, <1>6 DEF StartDrive, OpenWriter
<1>7. CASE InvalidItem(u, h)
  <2>1. FailItem(u, {"item"})
    BY <1>7 DEF InvalidItem
  <2>2. records' \in [Urls -> RawRecord]
    BY <2>1, FailedRecordFacts DEF FailItem
  <2>3. store' \in [Urls -> RawRecord] /\ budget' \in Budgets
    BY <2>1, <2>2, SaveType DEF Budgets, FailItem
  <2> QED BY <1>1, <1>7, <2>2, <2>3 DEF InvalidItem, Budgets
<1> QED BY <1>3, <1>4, <1>5, <1>6, <1>7 DEF ProcessItem

\* While an item is between its append and its commit point it is the current
\* one, with a content that its page serves.  TypeOK alone is not inductive:
\* the checkpoint of an item writes cur.hash into a record.
CurOK == pc \in {"append", "flushed", "exported"} =>
           /\ cur \in Items
           /\ cur.hash \in PageContents[cur.url]

TypeInv == TypeOK /\ CurOK

\* A failed append records the failure of the current item.
LEMMA ExportErrorType ==
  ASSUME TypeInv, pc = "append", NEW faults, ExportError(faults),
         tail' \in {NoTail} \cup [kind : TornTails, url : Urls, hash : Hashes]
  PROVE  TypeOK'
<1> USE DEF TypeInv, TypeOK
<1>1. cur.url \in Urls
  BY DEF CurOK, Items
<1>2. records' \in [Urls -> RawRecord]
  BY <1>1, FailedRecordFacts DEF ExportError, FailItem
<1>3. store' \in [Urls -> RawRecord] /\ budget' \in Budgets
  BY <1>2, SaveType DEF Budgets, ExportError, FailItem
<1> QED BY <1>2, <1>3 DEF ExportError, AfterItem, Budgets

\* Every step keeps the types.
LEMMA NextType ==
  ASSUME TypeInv, [Next]_vars
  PROVE  TypeOK'
<1> USE DEF TypeInv, TypeOK
<1>0. NoRecords \in [Urls -> RawRecord] /\ NoTodo \in [Urls -> 0..Copies]
  BY FreshIsRecord, CopiesAssumption DEF NoRecords, NoTodo
<1>1. CASE OpenSession
  <2>1. records' \in [Urls -> RawRecord]
    BY <1>0, <1>1, TablesAreTables, OpenOutcomes
  <2>2. budget' \in Budgets
    BY <1>1, SpendType, OpenOutcomes DEF Budgets
  <2>3. index' \in SUBSET Hashes
    BY <1>1, OpenOutcomes DEF ChecksumIndex
  <2> QED BY <1>1, <2>1, <2>2, <2>3 DEF OpenSession, disk, Budgets
<1>2. ASSUME NEW u \in Urls, NEW h \in Hashes,
             ProcessItem(u, h) \/ InvalidItem(u, h)
      PROVE  TypeOK'
  BY <1>2, ProcessItemType
<1>3. CASE AppendLine
  <2>1. lines' \in [Urls -> [Hashes -> Nat]]
    BY <1>3 DEF AppendLine, CurOK, Items
  <2> QED BY <1>3, <2>1 DEF AppendLine, session
<1>4. CASE WriterGone
  BY <1>4, ExportErrorType DEF WriterGone
<1>5. CASE AppendFails
  <2>1. tail' \in {NoTail} \cup [kind : TornTails, url : Urls, hash : Hashes]
    BY <1>5 DEF AppendFails, TornBy, CurOK, Items
  <2> QED BY <1>5, <2>1, ExportErrorType DEF AppendFails
<1>6. CASE CheckpointExported
  <2>1. records' \in [Urls -> RawRecord]
    BY <1>6, ExportedRecordFacts DEF CheckpointExported, CurOK, Items
  <2>2. store' \in [Urls -> RawRecord] /\ budget' \in Budgets
    BY <1>6, <2>1, SaveType DEF CheckpointExported, Budgets
  <2> QED BY <1>6, <2>1, <2>2 DEF CheckpointExported, Budgets
<1>7. CASE CommitPoint
  <2>1. records' \in [Urls -> RawRecord]
    BY <1>7, TablesAreTables DEF CommitPoint, CurOK, Items
  <2>2. store' \in [Urls -> RawRecord] /\ budget' \in Budgets
    BY <1>7, <2>1, SaveType DEF CommitPoint, Budgets
  <2> QED BY <1>7, <2>1, <2>2 DEF CommitPoint, AfterItem, Budgets
<1>8. CASE FinalPersist
  <2>1. store' \in [Urls -> RawRecord] /\ budget' \in Budgets
    BY <1>8, SaveType DEF FinalPersist, Budgets
  <2> QED BY <1>0, <1>8, <2>1 DEF FinalPersist, Budgets
<1>9. ASSUME NEW m \in Modes, FilterCommitted(m) PROVE TypeOK'
  <2>1. budget' \in Budgets
    BY <1>9, SpendType DEF FilterCommitted, Load, Budgets
  <2> QED BY <1>9, <2>1 DEF FilterCommitted, disk, Budgets
<1>10. ASSUME NEW u \in Urls, ScrapeFails(u) PROVE TypeOK'
  BY <1>10, SpendType, CopiesAssumption DEF ScrapeFails, disk, session
<1>11. CASE CancelRun
  BY <1>11, SpendType DEF CancelRun, disk, session
<1>12. CASE Crash
  <2>1. tail' \in {NoTail} \cup [kind : TornTails, url : Urls, hash : Hashes]
    BY <1>12 DEF Crash, TornBy, CurOK, Items
  <2>2. budget' \in Budgets
    BY <1>12, SpendType DEF Crash, Budgets
  <2> QED BY <1>0, <1>12, <2>1, <2>2 DEF Crash, Budgets
<1>13. CASE UNCHANGED vars
  BY <1>13 DEF vars
<1> QED
  BY <1>1, <1>2, <1>3, <1>4, <1>5, <1>6, <1>7, <1>8, <1>9, <1>10, <1>11, <1>12,
     <1>13 DEF Next, Run

\* Every step keeps the current item an item of its page.
LEMMA NextCur ==
  ASSUME TypeInv, [Next]_vars
  PROVE  CurOK'
<1> USE DEF TypeInv, CurOK, Items
<1>1. ASSUME NEW u \in Urls, NEW h \in Hashes,
             ProcessItem(u, h) \/ InvalidItem(u, h)
      PROVE  CurOK'
  BY <1>1 DEF ProcessItem, SkipDuplicate, SkipCommitted, PromoteFromFlushProof,
     StartDrive, InvalidItem, Claim
<1>2. CASE \/ OpenSession \/ FinalPersist \/ CommitPoint \/ Crash \/ CancelRun
           \/ WriterGone \/ AppendFails
           \/ \E m \in Modes : FilterCommitted(m)
           \/ \E u \in Urls : ScrapeFails(u)
  BY <1>2 DEF OpenSession, FinalPersist, CommitPoint, Crash, CancelRun,
     WriterGone, AppendFails, ExportError, AfterItem, FilterCommitted,
     ScrapeFails
<1>3. CASE AppendLine \/ CheckpointExported
  BY <1>3 DEF AppendLine, CheckpointExported
<1>4. CASE UNCHANGED vars
  BY <1>4 DEF vars
<1> QED BY <1>1, <1>2, <1>3, <1>4 DEF Next, Run

\* The initial states have the types.
LEMMA InitTypeInv == Init => TypeInv
<1> SUFFICES ASSUME Init PROVE TypeInv
  OBVIOUS
<1>1. store \in [Urls -> RawRecord] /\ records \in [Urls -> RawRecord]
  BY FreshIsRecord DEF Init, NoRecords
<1>2. budget \in Budgets
  BY BoundsAssumption DEF Init, Budgets
<1>3. todo \in [Urls -> 0..Copies]
  BY CopiesAssumption DEF Init, NoTodo
<1> QED BY <1>1, <1>2, <1>3 DEF Init, TypeInv, TypeOK, CurOK, Budgets

\* The variables of the process and of the disk keep their types in every run,
\* through every fault: no failure path invents a status, a hash or a count.
THEOREM TypeCorrect == Spec => []TypeOK
<1>1. Init => TypeInv
  BY InitTypeInv
<1>2. TypeInv /\ [Next]_vars => TypeInv'
  BY NextType, NextCur DEF TypeInv
<1>3. TypeInv => TypeOK
  BY DEF TypeInv
<1> QED BY <1>1, <1>2, <1>3, PTL DEF Spec
-----------------------------------------------------------------------------
(* A COMMITTED record names a flushed line.  The invariant that carries it: *)
(* every record, on disk and in the session, is honest about the lines L;  *)
(* every proof in the index is a line; a resume run sees only COMMITTED     *)
(* records that it skips, so that a promotion never starts from one.       *)

HonestIn(L, u, r) ==
  /\ (r.status \in {"EXPORTED", "COMMITTED"} /\ ~r.migrated)
       => (r.out /\ r.hash \in Hashes /\ L[u][r.hash] > 0)
  /\ (r.status \notin {"EXPORTED", "COMMITTED"})
       => (~r.migrated /\ r.hash = NoHash)
  /\ r.migrated => (r.status = "COMMITTED" /\ r.hash = NoHash)

StoreHonest == \A u \in Urls : HonestIn(lines, u, store[u])
RecordsHonest == \A u \in Urls : HonestIn(lines, u, records[u])
LinesServed == \A u \in Urls, h \in Hashes :
                 lines[u][h] > 0 => h \in PageContents[u]
IndexProven == \A h \in index : \E u \in Urls : lines[u][h] > 0
FlushedOK == pc = "flushed" => lines[cur.url][cur.hash] > 0
IdleBlank == pc = "idle" => records = NoRecords
ResumeView == mode = "resume" =>
                \A u \in Urls : records[u].status = "COMMITTED"
                                  => CommittedProven(records[u])
AppendOK == (pc = "append" /\ mode = "resume")
              => records[cur.url].status # "COMMITTED"

FlushInv == /\ StoreHonest /\ RecordsHonest /\ LinesServed /\ IndexProven
            /\ FlushedOK /\ IdleBlank /\ ResumeView /\ AppendOK

\* Lines are only added: an honest record stays honest.
LEMMA HonestGrows ==
  ASSUME NEW L \in [Urls -> [Hashes -> Nat]], NEW M \in [Urls -> [Hashes -> Nat]],
         \A u \in Urls, h \in Hashes : L[u][h] > 0 => M[u][h] > 0,
         NEW u \in Urls, NEW r, HonestIn(L, u, r)
  PROVE  HonestIn(M, u, r)
BY DEF HonestIn

\* A page without a record, and a failed item, claim nothing they did not.
LEMMA HonestFailure ==
  ASSUME NEW L, NEW u \in Urls, NEW r \in RawRecord, HonestIn(L, u, r)
  PROVE  /\ HonestIn(L, u, Absent)
         /\ HonestIn(L, u, FailedRecord(r))
<1>1. HonestIn(L, u, Absent)
  BY DEF HonestIn, Absent, Blank
<1>2. HonestIn(L, u, FailedRecord(r))
  <2>1. CASE r.status = "ABSENT"
    <3>1. /\ FailedRecord(r).status = "DISCOVERED"
          /\ FailedRecord(r).hash = NoHash
          /\ ~FailedRecord(r).migrated
      BY <2>1, FailedRecordFacts
    <3> QED BY <3>1 DEF HonestIn
  <2>2. CASE r.status # "ABSENT"
    <3>1. /\ FailedRecord(r).status = r.status
          /\ FailedRecord(r).hash = r.hash
          /\ FailedRecord(r).out = r.out
          /\ FailedRecord(r).migrated = r.migrated
      BY <2>2, FailedRecordFacts
    <3> QED BY <3>1 DEF HonestIn
  <2> QED BY <2>1, <2>2
<1> QED BY <1>1, <1>2

\* The commit point turns an honest EXPORTED claim into a COMMITTED one that
\* the resume gate accepts.
LEMMA HonestCommit ==
  ASSUME NEW L, NEW u \in Urls, NEW r \in RawRecord, HonestIn(L, u, r),
         CanCommit(r)
  PROVE  /\ HonestIn(L, u, Committed(r))
         /\ CommittedProven(Committed(r))
<1> DEFINE c == Committed(r)
<1>1. /\ c.status = "COMMITTED" /\ c.hash = r.hash
      /\ c.out = r.out /\ c.migrated = r.migrated
  BY CommittedFacts
<1>2. r.status = "EXPORTED" /\ SatisfiesTable(c)
  BY DEF CanCommit, Reconciles
<1> HIDE DEF c
<1>3. HonestIn(L, u, c)
  BY <1>1, <1>2 DEF HonestIn
<1>4. CommittedProven(c)
  BY <1>1, <1>2 DEF CommittedProven, Reconciles, SatisfiesTable
<1> QED BY <1>3, <1>4 DEF c

\* A load, a save and a session of honest records are honest.
LEMMA HonestTables ==
  ASSUME NEW L, NEW s \in [Urls -> RawRecord],
         \A u \in Urls : HonestIn(L, u, s[u])
  PROVE  /\ \A u \in Urls : HonestIn(L, u, NoRecords[u])
         /\ \A u \in Urls : HonestIn(L, u, PartitionValid(s)[u])
BY HonestFailure DEF NoRecords, PartitionValid

\* A save of honest records leaves an honest store.
LEMMA HonestSave ==
  ASSUME TypeOK, StoreHonest, NEW L,
         \A u \in Urls : HonestIn(L, u, store[u]),
         NEW recs \in [Urls -> RawRecord],
         \A u \in Urls : HonestIn(L, u, recs[u]),
         NEW faults, Save(recs, faults)
  PROVE  \A u \in Urls : HonestIn(L, u, store'[u])
<1>1. \A u \in Urls : HonestIn(L, u, PartitionValid(store)[u])
  BY HonestTables DEF TypeOK
<1>2. \A u \in Urls : HonestIn(L, u, Merged(recs)[u])
  BY <1>1 DEF Merged
<1> QED BY <1>2 DEF Save

\* What the proof needs of the environment: two pages never serve the same
\* content, and a cut write never stops exactly before the newline.  Without
\* either one a promotion can claim a line its page does not have.
DistinctContents ==
  \A u \in Urls, v \in Urls : u # v => PageContents[u] \cap PageContents[v] = {}
WholeLinesOnly == "unterminated" \notin TornTails

\* A promotion claims only a line of its own page.
LEMMA HonestPromotion ==
  ASSUME TypeInv, FlushInv, DistinctContents, NEW u \in Urls, NEW h \in Hashes,
         h \in PageContents[u], Decision(u, h) = "promote"
  PROVE  /\ HonestIn(lines, u, ExportFlushed(FlushProofRecord(records[u]), h))
         /\ ExportFlushed(FlushProofRecord(records[u]), h).status = "EXPORTED"
<1> DEFINE r == records[u]
<1>1. r \in RawRecord /\ index \subseteq Hashes /\ HonestIn(lines, u, r)
  BY DEF TypeInv, TypeOK, FlushInv, RecordsHonest
<1>2. mode = "resume"
  BY DEF Decision
<1>3. CASE r.status = "ABSENT"
  <2>1. h \in index
    BY <1>2, <1>3 DEF Decision
  <2>2. PICK v \in Urls : lines[v][h] > 0
    BY <2>1 DEF FlushInv, IndexProven
  <2>3. lines[u][h] > 0
    BY <2>2 DEF FlushInv, LinesServed, DistinctContents
  <2>4. LET q == ExportFlushed(FlushProofRecord(r), h) IN
        q.status = "EXPORTED" /\ q.hash = h /\ q.out /\ ~q.migrated
    BY <1>1, <1>3, ExportFlushedFacts
  <2> QED BY <2>3, <2>4 DEF HonestIn
<1>4. CASE r.status # "ABSENT"
  <2>1. ~CommittedProven(r) /\ r.hash \in index
    BY <1>2, <1>4 DEF Decision
  <2>2. r.hash # NoHash
    BY <1>1, <2>1, NoHashAssumption
  <2>3. r.status \in {"EXPORTED", "COMMITTED"} /\ ~r.migrated
    BY <1>1, <2>2 DEF HonestIn
  <2>4. r.status # "COMMITTED"
    BY <1>2, <2>1 DEF FlushInv, ResumeView
  <2>5. Reconciles(r, "EXPORTED")
    BY <1>1, <2>2, <2>3, <2>4 DEF Reconciles, HonestIn
  <2>6. ExportFlushed(FlushProofRecord(r), h) = r
    BY <1>1, <2>5, ExportFlushedFacts
  <2> QED BY <1>1, <2>3, <2>4, <2>6
<1> QED BY <1>3, <1>4

\* The records of the session are written over the store: both stay honest when
\* the session's record of one page is replaced by an honest one.
LEMMA HonestReplace ==
  ASSUME TypeInv, FlushInv, TypeOK', NEW u \in Urls, NEW q, NEW faults,
         HonestIn(lines, u, q), lines' = lines,
         records' = [records EXCEPT ![u] = q], Save(records', faults)
  PROVE  StoreHonest' /\ RecordsHonest'
<1>1. \A v \in Urls : HonestIn(lines, v, records'[v])
  BY DEF TypeInv, TypeOK, FlushInv, RecordsHonest
<1>2. records' \in [Urls -> RawRecord]
  BY DEF TypeOK
<1>3. \A v \in Urls : HonestIn(lines, v, store'[v])
  BY <1>1, <1>2, HonestSave DEF TypeInv, FlushInv, StoreHonest
<1> QED BY <1>1, <1>3 DEF StoreHonest, RecordsHonest

\* A step that leaves the lines, the store and the records alone keeps them
\* honest.
LEMMA HonestStutter ==
  ASSUME FlushInv, UNCHANGED <<lines, store, records>>
  PROVE  StoreHonest' /\ RecordsHonest' /\ LinesServed'
BY DEF FlushInv, StoreHonest, RecordsHonest, LinesServed

\* The steps that take the next result of the run.
LEMMA ProcessItemFlush ==
  ASSUME TypeInv, FlushInv, DistinctContents, TypeOK',
         NEW u \in Urls, NEW h \in Hashes,
         ProcessItem(u, h) \/ InvalidItem(u, h)
  PROVE  FlushInv'
<1>0. lines' = lines /\ index' = index /\ mode' = mode
  BY DEF ProcessItem, SkipDuplicate, SkipCommitted, PromoteFromFlushProof,
     StartDrive, InvalidItem, disk, session
<1>1. LinesServed' /\ IndexProven'
  BY <1>0 DEF FlushInv, LinesServed, IndexProven
<1>2. pc' \in {"items", "append", "exported"}
  BY DEF ProcessItem, SkipDuplicate, SkipCommitted, PromoteFromFlushProof,
     StartDrive, InvalidItem, Claim
<1>3. FlushedOK' /\ IdleBlank'
  BY <1>2 DEF FlushedOK, IdleBlank
<1>4. records[u] \in RawRecord /\ HonestIn(lines, u, records[u])
  BY DEF TypeInv, TypeOK, FlushInv, RecordsHonest
<1>5. CASE SkipDuplicate(u, h) \/ SkipCommitted(u, h)
  <2>1. UNCHANGED <<store, lines, records>> /\ pc' = "items"
    BY <1>5 DEF SkipDuplicate, SkipCommitted, Claim, disk, session
  <2>2. ResumeView' /\ AppendOK'
    BY <1>0, <2>1 DEF FlushInv, ResumeView, AppendOK, CommittedProven, Reconciles
  <2> QED BY <1>1, <1>3, <2>1, <2>2, HonestStutter DEF FlushInv
<1>6. CASE StartDrive(u, h)
  <2>1. UNCHANGED <<store, lines, records>> /\ pc' = "append" /\ cur'.url = u
    BY <1>6 DEF StartDrive
  <2>2. ResumeView'
    BY <1>0, <2>1 DEF FlushInv, ResumeView, CommittedProven, Reconciles
  <2>3. mode = "resume" => ~CommittedProven(records[u])
    BY <1>6 DEF StartDrive, Decision
  <2>4. AppendOK'
    BY <1>0, <2>1, <2>3 DEF FlushInv, ResumeView, AppendOK
  <2> QED BY <1>1, <1>3, <2>1, <2>2, <2>4, HonestStutter DEF FlushInv
<1>7. CASE PromoteFromFlushProof(u, h)
  <2> DEFINE q == ExportFlushed(FlushProofRecord(records[u]), h)
  <2>1. /\ records' = [records EXCEPT ![u] = q]
        /\ Save(records', {}) /\ pc' = "exported"
        /\ h \in PageContents[u] /\ Decision(u, h) = "promote"
    BY <1>7 DEF PromoteFromFlushProof, Claim
  <2>2. HonestIn(lines, u, q) /\ q.status = "EXPORTED"
    BY <2>1, HonestPromotion
  <2> HIDE DEF q
  <2>3. StoreHonest' /\ RecordsHonest'
    BY <1>0, <2>1, <2>2, HonestReplace
  <2>4. ResumeView' /\ AppendOK'
    BY <1>0, <2>1, <2>2 DEF FlushInv, ResumeView, AppendOK, TypeInv, TypeOK
  <2> QED BY <1>1, <1>3, <2>3, <2>4 DEF FlushInv
<1>8. CASE InvalidItem(u, h)
  <2>1. /\ FailItem(u, {"item"}) /\ pc' = "items"
        /\ Decision(u, h) = "drive"
    BY <1>8 DEF InvalidItem, Claim
  <2>2. CASE mode = "detached"
    <3>1. UNCHANGED <<store, lines, records>>
      BY <1>0, <2>1, <2>2 DEF FailItem, Save
    <3>2. ResumeView' /\ AppendOK'
      BY <1>0, <2>1, <2>2 DEF ResumeView, AppendOK
    <3> QED BY <1>1, <1>3, <3>1, <3>2, HonestStutter DEF FlushInv
  <2>3. CASE mode # "detached"
    <3>1. /\ records' = [records EXCEPT ![u] = FailedRecord(records[u])]
          /\ Save(records', {"item"})
      BY <2>1, <2>3 DEF FailItem
    <3>2. HonestIn(lines, u, FailedRecord(records[u]))
      BY <1>4, HonestFailure
    <3>3. StoreHonest' /\ RecordsHonest'
      BY <1>0, <3>1, <3>2, HonestReplace
    <3>4. mode = "resume" => FailedRecord(records[u]).status # "COMMITTED"
      <4>1. mode = "resume" => records[u].status # "COMMITTED"
        BY <2>1 DEF Decision, FlushInv, ResumeView
      <4> QED BY <1>4, <4>1, FailedRecordFacts
    <3>5. ResumeView' /\ AppendOK'
      BY <1>0, <2>1, <3>1, <3>4
         DEF FlushInv, ResumeView, AppendOK, TypeInv, TypeOK
    <3> QED BY <1>1, <1>3, <3>3, <3>5 DEF FlushInv
  <2> QED BY <2>2, <2>3
<1> QED BY <1>5, <1>6, <1>7, <1>8 DEF ProcessItem

\* A failed append: no run ever fails an item whose record it would skip.
LEMMA ExportErrorFlush ==
  ASSUME TypeInv, FlushInv, TypeOK', pc = "append", NEW faults,
         ExportError(faults)
  PROVE  FlushInv'
<1>0. /\ lines' = lines /\ index' = index /\ mode' = mode
      /\ pc' \in {"items", "final"} /\ FailItem(cur.url, faults)
  BY DEF ExportError, AfterItem
<1>1. LinesServed' /\ IndexProven' /\ FlushedOK' /\ IdleBlank' /\ AppendOK'
  BY <1>0 DEF FlushInv, LinesServed, IndexProven, FlushedOK, IdleBlank, AppendOK
<1>2. cur.url \in Urls
  BY DEF TypeInv, CurOK, Items
<1>3. records[cur.url] \in RawRecord /\ HonestIn(lines, cur.url, records[cur.url])
  BY <1>2 DEF TypeInv, TypeOK, FlushInv, RecordsHonest
<1>4. CASE mode = "detached"
  <2>1. UNCHANGED <<store, lines, records>>
    BY <1>0, <1>4 DEF FailItem, Save
  <2>2. ResumeView'
    BY <1>0, <1>4 DEF ResumeView
  <2> QED BY <1>1, <2>1, <2>2, HonestStutter DEF FlushInv
<1>5. CASE mode # "detached"
  <2>1. /\ records' = [records EXCEPT ![cur.url] = FailedRecord(records[cur.url])]
        /\ Save(records', faults)
    BY <1>0, <1>5 DEF FailItem
  <2>2. HonestIn(lines, cur.url, FailedRecord(records[cur.url]))
    BY <1>2, <1>3, HonestFailure
  <2>3. StoreHonest' /\ RecordsHonest'
    BY <1>0, <1>2, <2>1, <2>2, HonestReplace
  <2>4. mode = "resume" => FailedRecord(records[cur.url]).status # "COMMITTED"
    <3>1. mode = "resume" => records[cur.url].status # "COMMITTED"
      BY DEF FlushInv, AppendOK
    <3> QED BY <1>3, <3>1, FailedRecordFacts
  <2>5. ResumeView'
    BY <1>0, <1>2, <2>1, <2>4 DEF FlushInv, ResumeView, TypeInv, TypeOK
  <2> QED BY <1>1, <2>3, <2>5 DEF FlushInv
<1> QED BY <1>4, <1>5

\* The append: the line of the current item is in the file from here on.
LEMMA AppendLineFlush ==
  ASSUME TypeInv, FlushInv, TypeOK', AppendLine
  PROVE  FlushInv'
<1>1. /\ cur.url \in Urls /\ cur.hash \in Hashes
      /\ cur.hash \in PageContents[cur.url]
  BY DEF TypeInv, CurOK, Items, AppendLine
<1>2. lines \in [Urls -> [Hashes -> Nat]] /\ lines' \in [Urls -> [Hashes -> Nat]]
  BY DEF TypeInv, TypeOK
<1>3. lines' = [lines EXCEPT ![cur.url][cur.hash] = @ + 1]
  BY DEF AppendLine
<1>4. \A u \in Urls, h \in Hashes :
        /\ lines[u][h] > 0 => lines'[u][h] > 0
        /\ lines'[u][h] > 0 => (lines[u][h] > 0 \/ (u = cur.url /\ h = cur.hash))
  BY <1>1, <1>2, <1>3
<1>5. lines'[cur.url][cur.hash] > 0
  BY <1>1, <1>2, <1>3
<1>6. UNCHANGED <<store, records, index, mode, cur>> /\ pc' = "flushed"
  BY DEF AppendLine, session
<1>7. StoreHonest' /\ RecordsHonest'
  BY <1>2, <1>4, <1>6, HonestGrows DEF FlushInv, StoreHonest, RecordsHonest
<1>8. LinesServed'
  BY <1>1, <1>4 DEF FlushInv, LinesServed
<1>9. IndexProven'
  BY <1>4, <1>6 DEF FlushInv, IndexProven, TypeInv, TypeOK
<1>10. FlushedOK' /\ IdleBlank' /\ AppendOK'
  BY <1>5, <1>6 DEF FlushedOK, IdleBlank, AppendOK
<1>11. ResumeView'
  BY <1>6 DEF FlushInv, ResumeView, CommittedProven, Reconciles
<1> QED BY <1>7, <1>8, <1>9, <1>10, <1>11 DEF FlushInv

\* The EXPORTED checkpoint and the commit point.
LEMMA CheckpointFlush ==
  ASSUME TypeInv, FlushInv, TypeOK', CheckpointExported \/ CommitPoint
  PROVE  FlushInv'
<1>0. /\ lines' = lines /\ index' = index /\ mode' = mode
      /\ pc' \in {"exported", "items", "final"}
  BY DEF CheckpointExported, CommitPoint, AfterItem
<1>1. LinesServed' /\ IndexProven' /\ FlushedOK' /\ IdleBlank' /\ AppendOK'
  BY <1>0 DEF FlushInv, LinesServed, IndexProven, FlushedOK, IdleBlank, AppendOK
<1>2. cur.url \in Urls /\ cur.hash \in Hashes
  BY DEF TypeInv, CurOK, Items, CheckpointExported, CommitPoint
<1>3. records[cur.url] \in RawRecord /\ HonestIn(lines, cur.url, records[cur.url])
  BY <1>2 DEF TypeInv, TypeOK, FlushInv, RecordsHonest
<1>4. CASE CheckpointExported
  <2>1. /\ records' = [records EXCEPT ![cur.url] =
                         ExportedRecord(records[cur.url], cur.hash)]
        /\ Save(records', {}) /\ pc = "flushed"
    BY <1>4 DEF CheckpointExported
  <2>2. lines[cur.url][cur.hash] > 0
    BY <2>1 DEF FlushInv, FlushedOK
  <2>3. /\ ExportedRecord(records[cur.url], cur.hash).status = "EXPORTED"
        /\ HonestIn(lines, cur.url, ExportedRecord(records[cur.url], cur.hash))
    BY <1>2, <1>3, <2>2, ExportedRecordFacts DEF HonestIn
  <2>4. StoreHonest' /\ RecordsHonest'
    BY <1>0, <1>2, <2>1, <2>3, HonestReplace
  <2>5. ResumeView'
    BY <1>0, <1>2, <2>1, <2>3 DEF FlushInv, ResumeView, TypeInv, TypeOK
  <2> QED BY <1>1, <2>4, <2>5 DEF FlushInv
<1>5. CASE CommitPoint /\ CanCommit(records[cur.url])
  <2>1. /\ records' = [records EXCEPT ![cur.url] = Committed(records[cur.url])]
        /\ Save(records', {})
    BY <1>5 DEF CommitPoint, SwapToCommitted
  <2>2. /\ HonestIn(lines, cur.url, Committed(records[cur.url]))
        /\ CommittedProven(Committed(records[cur.url]))
    BY <1>2, <1>3, <1>5, HonestCommit
  <2>3. StoreHonest' /\ RecordsHonest'
    BY <1>0, <1>2, <2>1, <2>2, HonestReplace
  <2>4. ResumeView'
    BY <1>0, <1>2, <2>1, <2>2 DEF FlushInv, ResumeView, TypeInv, TypeOK
  <2> QED BY <1>1, <2>3, <2>4 DEF FlushInv
<1>6. CASE CommitPoint /\ ~CanCommit(records[cur.url])
  <2>1. UNCHANGED <<store, lines, records>>
    BY <1>0, <1>6 DEF CommitPoint, SwapToCommitted
  <2>2. ResumeView'
    BY <1>0, <2>1 DEF FlushInv, ResumeView, CommittedProven, Reconciles
  <2> QED BY <1>1, <2>1, <2>2, HonestStutter DEF FlushInv
<1> QED BY <1>4, <1>5, <1>6

\* The session opens on what is on disk: valid records, and the checksums of
\* whole lines only.
LEMMA OpenSessionFlush ==
  ASSUME TypeInv, FlushInv, WholeLinesOnly, OpenSession
  PROVE  FlushInv'
<1>0. UNCHANGED <<store, lines, mode>> /\ pc' = "items"
  BY DEF OpenSession, disk
<1>1. records' = NoRecords \/ records' = PartitionValid(store)
  BY OpenOutcomes
<1>2. StoreHonest' /\ LinesServed'
  BY <1>0 DEF FlushInv, StoreHonest, LinesServed
<1>3. RecordsHonest'
  BY <1>0, <1>1, HonestTables DEF FlushInv, StoreHonest, RecordsHonest, TypeInv,
     TypeOK
<1>4. tail.kind # "unterminated"
  BY DEF TypeInv, TypeOK, NoTail, WholeLinesOnly
<1>5. IndexProven'
  BY <1>0, <1>4, OpenOutcomes DEF ChecksumIndex, IndexProven
<1>6. ResumeView'
  <2> SUFFICES ASSUME NEW u \in Urls, records'[u].status = "COMMITTED"
               PROVE  CommittedProven(records'[u])
    BY DEF ResumeView, CommittedProven, Reconciles
  <2>1. records'[u] \in {Absent, store[u]} /\ SatisfiesTable(records'[u])
    BY <1>1 DEF NoRecords, PartitionValid, SatisfiesTable, Absent, Blank, TypeInv,
       TypeOK
  <2> QED BY <2>1 DEF SatisfiesTable, CommittedProven, Reconciles
<1>7. FlushedOK' /\ IdleBlank' /\ AppendOK'
  BY <1>0 DEF FlushedOK, IdleBlank, AppendOK
<1> QED BY <1>2, <1>3, <1>5, <1>6, <1>7 DEF FlushInv

\* The end of a run and its death: the volatile state is gone.
LEMMA EndFlush ==
  ASSUME TypeInv, FlushInv, FinalPersist \/ Crash
  PROVE  FlushInv'
<1>0. /\ lines' = lines /\ records' = NoRecords /\ index' = {}
      /\ pc' = "idle" /\ mode' = "none"
  BY DEF FinalPersist, Crash
<1>1. StoreHonest'
  <2>1. CASE FinalPersist
    <3>1. Save(records, {}) /\ TypeOK /\ records \in [Urls -> RawRecord]
      BY <2>1 DEF FinalPersist, TypeInv, TypeOK
    <3>2. StoreHonest /\ \A u \in Urls : HonestIn(lines, u, store[u]) /\ HonestIn(lines, u, records[u])
      BY DEF FlushInv, StoreHonest, RecordsHonest
    <3>3. \A u \in Urls : HonestIn(lines, u, store'[u])
      BY <3>1, <3>2, HonestSave
    <3> QED BY <1>0, <3>3 DEF StoreHonest
  <2>2. CASE Crash
    BY <1>0, <2>2 DEF Crash, FlushInv, StoreHonest
  <2> QED BY <2>1, <2>2
<1>2. RecordsHonest'
  BY <1>0, HonestTables DEF FlushInv, StoreHonest, RecordsHonest, TypeInv, TypeOK
<1>3. LinesServed'
  BY <1>0 DEF FlushInv, LinesServed
<1>4. IndexProven' /\ FlushedOK' /\ ResumeView' /\ AppendOK'
  BY <1>0 DEF IndexProven, FlushedOK, ResumeView, AppendOK
<1>5. IdleBlank'
  BY <1>0 DEF IdleBlank, NoRecords
<1> QED BY <1>1, <1>2, <1>3, <1>4, <1>5 DEF FlushInv

\* The start of a run, a page without a result, a cancellation.
LEMMA OutsideFlush ==
  ASSUME TypeInv, FlushInv,
         \/ \E m \in Modes : FilterCommitted(m)
         \/ \E u \in Urls : ScrapeFails(u)
         \/ CancelRun
         \/ UNCHANGED vars
  PROVE  FlushInv'
<1>1. UNCHANGED <<store, lines, records, index, cur>>
  BY DEF FilterCommitted, ScrapeFails, CancelRun, disk, session, vars
<1>2. \/ pc' = pc /\ mode' = mode
      \/ pc = "idle" /\ pc' = "scrape"
  BY DEF FilterCommitted, ScrapeFails, CancelRun, disk, session, vars
<1>3. pc = "idle" => \A u \in Urls : records[u].status # "COMMITTED"
  BY DEF FlushInv, IdleBlank, NoRecords, Absent, Blank
<1>4. ResumeView'
  BY <1>1, <1>2, <1>3 DEF FlushInv, ResumeView, CommittedProven, Reconciles
<1>5. IndexProven' /\ FlushedOK' /\ IdleBlank' /\ AppendOK'
  BY <1>1, <1>2 DEF FlushInv, IndexProven, FlushedOK, IdleBlank, AppendOK,
     NoRecords
<1> QED BY <1>1, <1>4, <1>5, HonestStutter DEF FlushInv

\* The honesty invariant holds at the start.
LEMMA FlushInit == Init => TypeInv /\ FlushInv
<1> SUFFICES ASSUME Init PROVE TypeInv /\ FlushInv
  OBVIOUS
<1>1. TypeInv
  BY InitTypeInv
<1>2. \A u \in Urls : HonestIn(lines, u, Absent)
                     /\ HonestIn(lines, u, MigratedV1)
  BY DEF HonestIn, Absent, Blank, MigratedV1
<1>3. StoreHonest /\ RecordsHonest
  BY <1>2 DEF Init, StoreHonest, RecordsHonest, NoRecords
<1>4. LinesServed
  BY DEF Init, LinesServed
<1> QED BY <1>1, <1>3, <1>4 DEF Init, FlushInv, IndexProven, FlushedOK,
        IdleBlank, ResumeView, AppendOK

\* Every step of a run and of its environment keeps it.
LEMMA FlushStep ==
  ASSUME DistinctContents, WholeLinesOnly, TypeInv, FlushInv, [Next]_vars
  PROVE  TypeInv' /\ FlushInv'
<1>1. TypeInv'
  BY NextType, NextCur DEF TypeInv
<1>2. TypeOK'
  BY <1>1 DEF TypeInv
<1>3. ASSUME NEW u \in Urls, NEW h \in Hashes,
             ProcessItem(u, h) \/ InvalidItem(u, h)
      PROVE  FlushInv'
  BY <1>2, <1>3, ProcessItemFlush
<1>4. CASE WriterGone \/ AppendFails
  BY <1>1, <1>2, <1>4, ExportErrorFlush DEF WriterGone, AppendFails
<1>5. CASE AppendLine
  BY <1>1, <1>2, <1>5, AppendLineFlush
<1>6. CASE CheckpointExported \/ CommitPoint
  BY <1>1, <1>2, <1>6, CheckpointFlush
<1>7. CASE OpenSession
  BY <1>1, <1>7, OpenSessionFlush
<1>8. CASE FinalPersist \/ Crash
  BY <1>1, <1>8, EndFlush
<1>9. CASE \/ \E m \in Modes : FilterCommitted(m)
           \/ \E u \in Urls : ScrapeFails(u)
           \/ CancelRun
           \/ UNCHANGED vars
  BY <1>1, <1>9, OutsideFlush
<1>10. FlushInv'
  BY <1>3, <1>4, <1>5, <1>6, <1>7, <1>8, <1>9
     DEF Next, Run
<1> QED BY <1>1, <1>10

\* No record ever claims more than what was flushed: through crashes, failing
\* saves, failing items, cancellations and runs of every kind, a record that the
\* resume gate accepts as COMMITTED names a line in the file.
THEOREM CommittedFlushed ==
  ASSUME DistinctContents, WholeLinesOnly
  PROVE  Spec => []CommittedIsFlushed
<1>1. TypeInv /\ FlushInv /\ [Next]_vars => (TypeInv /\ FlushInv)'
  BY FlushStep
<1>2. TypeInv /\ FlushInv => CommittedIsFlushed
  BY DEF FlushInv, StoreHonest, HonestIn, CommittedIsFlushed, CommittedProven,
     Reconciles, InOutput
<1> QED BY <1>1, <1>2, FlushInit, PTL DEF Spec
-----------------------------------------------------------------------------
(* The invariant table on disk.  A failed item adds an error to its record, *)
(* which the table forbids on a COMMITTED one; a resume run skips those.    *)

\* Every run resumes or keeps no store.  A run with a store but without resume
\* drives pages whose record is COMMITTED, and its failures break the table.
NoFreshRuns == Modes \subseteq {"resume", "detached"}

StoreTable == StoreSatisfiesTable
RecordsTable == \A u \in Urls : SatisfiesTable(records[u])
RunMode == /\ pc = "idle" <=> mode = "none"
           /\ mode \in {"resume", "detached", "none"}
AppendOpen == (pc = "append" /\ mode = "resume")
                => ~CommittedProven(records[cur.url])

TableInv == StoreTable /\ RecordsTable /\ RunMode /\ AppendOpen

\* A save of records that pass the table leaves a store that passes it.
LEMMA TableSave ==
  ASSUME TypeOK, StoreTable, NEW recs \in [Urls -> RawRecord],
         \A u \in Urls : SatisfiesTable(recs[u]), NEW faults, Save(recs, faults)
  PROVE  \A u \in Urls : SatisfiesTable(store'[u])
<1>1. PartitionValid(store) = store
  BY DEF PartitionValid, StoreTable, StoreSatisfiesTable, TypeOK
<1>2. \A u \in Urls : SatisfiesTable(Merged(recs)[u])
  BY <1>1 DEF Merged, StoreTable, StoreSatisfiesTable
<1> QED BY <1>2 DEF Save, StoreTable, StoreSatisfiesTable

\* The session's record of one page is replaced by one that passes the table.
LEMMA TableReplace ==
  ASSUME TypeInv, TableInv, TypeOK', NEW u \in Urls, NEW q, NEW faults,
         SatisfiesTable(q), records' = [records EXCEPT ![u] = q],
         Save(records', faults)
  PROVE  StoreTable' /\ RecordsTable'
<1>1. \A v \in Urls : SatisfiesTable(records'[v])
  BY DEF TypeInv, TypeOK, TableInv, RecordsTable
<1>2. records' \in [Urls -> RawRecord]
  BY DEF TypeOK
<1>3. \A v \in Urls : SatisfiesTable(store'[v])
  BY <1>1, <1>2, TableSave DEF TypeInv, TableInv
<1> QED BY <1>1, <1>3 DEF StoreTable, StoreSatisfiesTable, RecordsTable

\* A step that leaves the store and the records alone keeps both tables.
LEMMA TableStutter ==
  ASSUME TableInv, UNCHANGED <<store, records>>
  PROVE  StoreTable' /\ RecordsTable'
BY DEF TableInv, StoreTable, StoreSatisfiesTable, RecordsTable

\* The kind of a run is chosen when it starts and forgotten when it ends.
LEMMA ModeStep ==
  ASSUME NoFreshRuns, TypeInv, RunMode, [Next]_vars
  PROVE  RunMode'
<1> USE DEF RunMode
<1>1. ASSUME NEW u \in Urls, NEW h \in Hashes,
             ProcessItem(u, h) \/ InvalidItem(u, h)
      PROVE  RunMode'
  BY <1>1 DEF ProcessItem, SkipDuplicate, SkipCommitted, PromoteFromFlushProof,
     StartDrive, InvalidItem, Claim, session
<1>2. CASE WriterGone \/ AppendFails \/ AppendLine \/ CheckpointExported
           \/ CommitPoint \/ OpenSession
  BY <1>2 DEF WriterGone, AppendFails, ExportError, AfterItem, AppendLine,
     CheckpointExported, CommitPoint, OpenSession, session
<1>3. CASE FinalPersist \/ Crash
  BY <1>3 DEF FinalPersist, Crash
<1>4. ASSUME NEW m \in Modes, FilterCommitted(m) PROVE RunMode'
  BY <1>4 DEF FilterCommitted, NoFreshRuns
<1>5. CASE \/ \E u \in Urls : ScrapeFails(u)
           \/ CancelRun
           \/ UNCHANGED vars
  BY <1>5 DEF ScrapeFails, CancelRun, vars, session
<1> QED BY <1>1, <1>2, <1>3, <1>4, <1>5 DEF Next, Run

\* The steps of an item: a failure lands only on a record that the run would
\* not have skipped, so the error it adds is within the table.
LEMMA ItemTable ==
  ASSUME TypeInv, TableInv, TypeOK', NEW u \in Urls, NEW h \in Hashes,
         ProcessItem(u, h) \/ InvalidItem(u, h)
  PROVE  StoreTable' /\ RecordsTable' /\ AppendOpen'
<1>0. records[u] \in RawRecord /\ SatisfiesTable(records[u])
      /\ mode' = mode /\ mode \in {"resume", "detached"}
  BY DEF TypeInv, TypeOK, TableInv, RecordsTable, RunMode, ProcessItem,
     SkipDuplicate, SkipCommitted, PromoteFromFlushProof, StartDrive,
     InvalidItem, Claim, session
<1>1. CASE SkipDuplicate(u, h) \/ SkipCommitted(u, h)
  <2>1. UNCHANGED <<store, records>> /\ pc' = "items"
    BY <1>1 DEF SkipDuplicate, SkipCommitted, Claim, disk, session
  <2> QED BY <2>1, TableStutter DEF AppendOpen
<1>2. CASE StartDrive(u, h)
  <2>1. UNCHANGED <<store, records>> /\ cur'.url = u
    BY <1>2 DEF StartDrive
  <2>2. mode = "resume" => ~CommittedProven(records[u])
    BY <1>2 DEF StartDrive, Decision
  <2>3. AppendOpen'
    BY <1>0, <2>1, <2>2 DEF AppendOpen, CommittedProven, Reconciles
  <2> QED BY <2>1, <2>3, TableStutter
<1>3. CASE PromoteFromFlushProof(u, h)
  <2> DEFINE q == ExportFlushed(FlushProofRecord(records[u]), h)
  <2>1. /\ records' = [records EXCEPT ![u] = q]
        /\ Save(records', {}) /\ pc' = "exported"
    BY <1>3 DEF PromoteFromFlushProof
  <2>2. SatisfiesTable(q)
    BY <1>0, RecordTables
  <2> HIDE DEF q
  <2>3. StoreTable' /\ RecordsTable'
    BY <2>1, <2>2, TableReplace
  <2> QED BY <2>1, <2>3 DEF AppendOpen
<1>4. CASE InvalidItem(u, h)
  <2>1. FailItem(u, {"item"}) /\ pc' = "items" /\ Decision(u, h) = "drive"
    BY <1>4 DEF InvalidItem, Claim
  <2>2. AppendOpen'
    BY <2>1 DEF AppendOpen
  <2>3. CASE mode = "detached"
    BY <2>1, <2>2, <2>3, TableStutter DEF FailItem, Save
  <2>4. CASE mode = "resume"
    <3>1. SatisfiesTable(FailedRecord(records[u]))
      BY <1>0, <2>1, <2>4, RecordTables DEF Decision
    <3>2. /\ records' = [records EXCEPT ![u] = FailedRecord(records[u])]
          /\ Save(records', {"item"})
      BY <2>1, <2>4 DEF FailItem
    <3> QED BY <2>2, <3>1, <3>2, TableReplace
  <2> QED BY <1>0, <2>3, <2>4
<1> QED BY <1>1, <1>2, <1>3, <1>4 DEF ProcessItem

\* A failed append.
LEMMA ExportErrorTable ==
  ASSUME TypeInv, TableInv, TypeOK', pc = "append", NEW faults,
         ExportError(faults)
  PROVE  StoreTable' /\ RecordsTable' /\ AppendOpen'
<1>1. cur \in Items
  BY DEF TypeInv, CurOK
<1>2. /\ cur.url \in Urls /\ cur.hash \in Hashes
      /\ records[cur.url] \in RawRecord /\ SatisfiesTable(records[cur.url])
  BY <1>1 DEF Items, TypeInv, TypeOK, TableInv, RecordsTable
<1>3. /\ FailItem(cur.url, faults) /\ pc' # "append"
      /\ mode \in {"resume", "detached"}
  BY DEF ExportError, AfterItem, TableInv, RunMode
<1>4. AppendOpen'
  BY <1>3 DEF AppendOpen
<1>5. CASE mode = "detached"
  BY <1>3, <1>4, <1>5, TableStutter DEF FailItem, Save
<1>6. CASE mode = "resume"
  <2>1. SatisfiesTable(FailedRecord(records[cur.url]))
    BY <1>2, <1>6, RecordTables DEF TableInv, AppendOpen
  <2>2. /\ records' = [records EXCEPT ![cur.url] = FailedRecord(records[cur.url])]
        /\ Save(records', faults)
    BY <1>3, <1>6 DEF FailItem
  <2> QED BY <1>2, <1>4, <2>1, <2>2, TableReplace
<1> QED BY <1>3, <1>5, <1>6

\* The EXPORTED checkpoint and the commit point.
LEMMA CheckpointTable ==
  ASSUME TypeInv, TableInv, TypeOK', CheckpointExported \/ CommitPoint
  PROVE  StoreTable' /\ RecordsTable' /\ AppendOpen'
<1>1. cur \in Items
  BY DEF TypeInv, CurOK, CheckpointExported, CommitPoint
<1>2. /\ cur.url \in Urls /\ cur.hash \in Hashes
      /\ records[cur.url] \in RawRecord /\ SatisfiesTable(records[cur.url])
  BY <1>1 DEF Items, TypeInv, TypeOK, TableInv, RecordsTable
<1>3. AppendOpen'
  BY DEF CheckpointExported, CommitPoint, AfterItem, AppendOpen
<1>4. CASE CheckpointExported
  <2>1. /\ records' = [records EXCEPT ![cur.url] =
                         ExportedRecord(records[cur.url], cur.hash)]
        /\ Save(records', {})
    BY <1>4 DEF CheckpointExported
  <2>2. SatisfiesTable(ExportedRecord(records[cur.url], cur.hash))
    BY <1>2, RecordTables
  <2> QED BY <1>2, <1>3, <2>1, <2>2, TableReplace
<1>5. CASE CommitPoint /\ CanCommit(records[cur.url])
  <2>1. /\ records' = [records EXCEPT ![cur.url] = Committed(records[cur.url])]
        /\ Save(records', {})
    BY <1>5 DEF CommitPoint, SwapToCommitted
  <2>2. SatisfiesTable(Committed(records[cur.url]))
    BY <1>5 DEF CanCommit
  <2> QED BY <1>2, <1>3, <2>1, <2>2, TableReplace
<1>6. CASE CommitPoint /\ ~CanCommit(records[cur.url])
  <2>1. UNCHANGED <<store, records>>
    BY <1>6 DEF CommitPoint, SwapToCommitted
  <2> QED BY <1>3, <2>1, TableStutter
<1> QED BY <1>4, <1>5, <1>6

\* Every step keeps the tables of the disk and of the session.
LEMMA TableStep ==
  ASSUME NoFreshRuns, TypeInv, TableInv, [Next]_vars
  PROVE  TableInv'
<1>1. TypeOK' /\ RunMode'
  BY NextType, ModeStep DEF TableInv
<1>2. ASSUME NEW u \in Urls, NEW h \in Hashes,
             ProcessItem(u, h) \/ InvalidItem(u, h)
      PROVE  TableInv'
  BY <1>1, <1>2, ItemTable DEF TableInv
<1>3. CASE WriterGone \/ AppendFails
  BY <1>1, <1>3, ExportErrorTable DEF TableInv, WriterGone, AppendFails
<1>4. CASE CheckpointExported \/ CommitPoint
  BY <1>1, <1>4, CheckpointTable DEF TableInv
<1>5. \A u \in Urls : SatisfiesTable(NoRecords[u])
  BY DEF NoRecords, Absent, Blank, SatisfiesTable
<1>6. CASE OpenSession
  <2>1. UNCHANGED store /\ pc' = "items"
    BY <1>6 DEF OpenSession, disk
  <2>2. records' = NoRecords \/ records' = PartitionValid(store)
    BY <1>6, OpenOutcomes
  <2>3. \A u \in Urls : SatisfiesTable(PartitionValid(store)[u])
    BY DEF TypeInv, TypeOK, PartitionValid, SatisfiesTable, Absent, Blank
  <2>4. RecordsTable'
    BY <1>5, <2>2, <2>3 DEF RecordsTable
  <2> QED BY <1>1, <2>1, <2>4 DEF TableInv, StoreTable, StoreSatisfiesTable,
          AppendOpen
<1>7. CASE FinalPersist \/ Crash
  <2>1. records' = NoRecords /\ pc' = "idle"
    BY <1>7 DEF FinalPersist, Crash
  <2>2. RecordsTable' /\ AppendOpen'
    BY <1>5, <2>1 DEF RecordsTable, AppendOpen
  <2>3. \A u \in Urls : SatisfiesTable(store'[u])
    BY <1>7, TableSave DEF FinalPersist, Crash, TypeInv, TypeOK, TableInv,
       StoreTable, StoreSatisfiesTable, RecordsTable
  <2> QED BY <1>1, <2>2, <2>3 DEF TableInv, StoreTable, StoreSatisfiesTable
<1>8. CASE \/ \E m \in Modes : FilterCommitted(m)
           \/ \E u \in Urls : ScrapeFails(u)
           \/ AppendLine \/ CancelRun
           \/ UNCHANGED vars
  <2>1. UNCHANGED <<store, records, cur>>
    BY <1>8 DEF FilterCommitted, ScrapeFails, AppendLine, CancelRun, vars,
       disk, session
  <2>2. pc' # "append" \/ (pc' = pc /\ mode' = mode)
    BY <1>8 DEF FilterCommitted, ScrapeFails, AppendLine, CancelRun, vars,
       disk, session
  <2>3. AppendOpen'
    BY <2>1, <2>2 DEF TableInv, AppendOpen, CommittedProven, Reconciles
  <2> QED BY <1>1, <2>1, <2>3, TableStutter DEF TableInv
<1> QED BY <1>2, <1>3, <1>4, <1>6, <1>7, <1>8 DEF Next, Run

\* The tables hold at the start, migrated records included.
LEMMA TableInit == Init => TableInv
<1> SUFFICES ASSUME Init PROVE TableInv
  OBVIOUS
<1>1. SatisfiesTable(Absent) /\ SatisfiesTable(MigratedV1)
  BY DEF SatisfiesTable, Absent, Blank, MigratedV1
<1>2. StoreTable /\ RecordsTable
  BY <1>1 DEF Init, StoreTable, StoreSatisfiesTable, RecordsTable, NoRecords
<1> QED BY <1>2 DEF Init, TableInv, RunMode, AppendOpen

\* No failure, crash or failed save ever leaves a record on disk that the next
\* load would quarantine: fail_item, commit_item, the promotion and the commit
\* swap stay within the invariant table.
THEOREM StoreAlwaysSatisfiesTable ==
  ASSUME NoFreshRuns
  PROVE  Spec => []StoreSatisfiesTable
<1>1. TypeInv /\ TableInv /\ [Next]_vars => (TypeInv /\ TableInv)'
  BY NextType, NextCur, TableStep DEF TypeInv
<1>2. TableInv => StoreSatisfiesTable
  BY DEF TableInv, StoreTable
<1> QED BY <1>1, <1>2, InitTypeInv, TableInit, PTL DEF Spec
-----------------------------------------------------------------------------
(* The order of the saves.  While no load and no save has failed, the       *)
(* session's record of a page is the one on disk, so that the commit swap   *)
(* starts from a checkpoint that is durable.                                *)

InSession == pc \in {"items", "append", "flushed", "exported", "final"}

Synced == (InSession /\ mode # "detached" /\ budget.save = MaxSaveFaults)
            => \A u \in Urls : \/ records[u].status = "ABSENT"
                               \/ records[u] = store[u]

SaveInv == budget.save <= MaxSaveFaults /\ Synced

\* One step of ExportedBeforeCommitted.
Ordered ==
  \A u \in Urls :
    (/\ budget'.save = MaxSaveFaults
     /\ store'[u].status = "COMMITTED" /\ store[u].status # "COMMITTED")
      => (store[u].status = "EXPORTED" /\ store[u].hash = store'[u].hash)

\* A step never gives back a fault that was spent, and one that spends a failed
\* save is seen in the bound.
LEMMA SpendBound ==
  ASSUME NEW faults, Spend(faults), budget \in Budgets
  PROVE  /\ \A f \in DOMAIN budget : budget'[f] <= budget[f]
         /\ \A f \in DOMAIN budget \cap faults : budget'[f] < budget[f]
BY DEF Spend, Budgets

\* A save that lays the session's records over the store commits on disk only
\* what was EXPORTED there.
LEMMA OrderedSave ==
  ASSUME TypeOK, SaveInv, InSession, NEW recs \in [Urls -> RawRecord],
         NEW faults, Save(recs, faults),
         \A u \in Urls : recs[u].status = "COMMITTED" =>
           \/ records[u].status = "COMMITTED"
           \/ records[u].status = "EXPORTED" /\ records[u].hash = recs[u].hash
  PROVE  /\ Ordered
         /\ budget'.save <= MaxSaveFaults
         /\ (mode # "detached" /\ budget'.save = MaxSaveFaults)
              => store' = Merged(recs)
<1>0. budget \in Budgets /\ "save" \in DOMAIN budget /\ budget.save \in Nat
      /\ MaxSaveFaults \in Nat
  BY BoundsAssumption DEF TypeOK, Budgets
<1>1. PICK f : Spend(f) /\ (\/ mode # "detached" /\ store' = Merged(recs)
                            \/ mode # "detached" /\ store' = store /\ "save" \in f
                            \/ mode = "detached" /\ store' = store)
  BY DEF Save
<1>2. /\ budget'.save <= budget.save
      /\ "save" \in f => budget'.save < budget.save
  BY <1>0, <1>1, SpendBound
<1>3. budget'.save \in Nat
  BY <1>0, <1>1, SpendType DEF Budgets
<1>4. budget'.save <= MaxSaveFaults
  BY <1>0, <1>2, <1>3 DEF SaveInv
<1>5. (mode # "detached" /\ budget'.save = MaxSaveFaults)
        => (store' = Merged(recs) /\ budget.save = MaxSaveFaults)
  BY <1>0, <1>1, <1>2, <1>3 DEF SaveInv
<1>6. Ordered
  <2> SUFFICES ASSUME NEW u \in Urls, budget'.save = MaxSaveFaults,
                      store'[u].status = "COMMITTED",
                      store[u].status # "COMMITTED"
               PROVE  store[u].status = "EXPORTED" /\ store[u].hash = store'[u].hash
    BY DEF Ordered
  <2>1. store' = Merged(recs) /\ budget.save = MaxSaveFaults /\ mode # "detached"
    BY <1>1, <1>5
  <2>2. store'[u] \in {recs[u], store[u], Absent}
    BY <2>1 DEF Merged, PartitionValid, TypeOK
  <2>3. store'[u] = recs[u] /\ recs[u].status = "COMMITTED"
    BY <2>2 DEF Absent, Blank
  <2>4. records[u].status = "ABSENT" \/ records[u] = store[u]
    BY <2>1 DEF SaveInv, Synced
  <2> QED BY <2>3, <2>4
<1> QED BY <1>4, <1>5, <1>6

\* The session saves its own records: they are in step with the disk again.
LEMMA SyncedSave ==
  ASSUME TypeOK, SaveInv, InSession, TypeOK', NEW faults,
         Save(records', faults), mode' = mode,
         \A u \in Urls : records'[u].status = "COMMITTED" =>
           \/ records[u].status = "COMMITTED"
           \/ records[u].status = "EXPORTED" /\ records[u].hash = records'[u].hash
  PROVE  SaveInv' /\ Ordered
<1>1. records' \in [Urls -> RawRecord]
  BY DEF TypeOK
<1>2. /\ Ordered
      /\ budget'.save <= MaxSaveFaults
      /\ (mode # "detached" /\ budget'.save = MaxSaveFaults)
           => store' = Merged(records')
  BY <1>1, OrderedSave
<1>3. Synced'
  BY <1>2 DEF Synced, Merged
<1> QED BY <1>2, <1>3 DEF SaveInv

\* A step that leaves the store and the session's records alone.
LEMMA SyncedStutter ==
  ASSUME TypeOK, SaveInv, TypeOK', store' = store,
         budget' = budget \/ \E f : Spend(f),
         \/ pc' \notin {"items", "append", "flushed", "exported", "final"}
         \/ records' = records /\ mode' = mode /\ InSession
  PROVE  SaveInv' /\ Ordered
<1>0. /\ budget \in Budgets /\ "save" \in DOMAIN budget /\ budget.save \in Nat
      /\ MaxSaveFaults \in Nat /\ budget'.save \in Nat
  BY BoundsAssumption DEF TypeOK, Budgets
<1>1. budget'.save <= budget.save
  BY <1>0, SpendBound
<1>2. budget'.save <= MaxSaveFaults
      /\ (budget'.save = MaxSaveFaults => budget.save = MaxSaveFaults)
  BY <1>0, <1>1 DEF SaveInv
<1> QED BY <1>2 DEF SaveInv, Synced, InSession, Ordered

\* The steps of an item, from its claim to its commit point.
LEMMA ItemSynced ==
  ASSUME TypeInv, SaveInv, TypeOK', NEW u \in Urls, NEW h \in Hashes,
         ProcessItem(u, h) \/ InvalidItem(u, h)
  PROVE  SaveInv' /\ Ordered
<1>0. InSession /\ mode' = mode /\ TypeOK /\ records[u] \in RawRecord
  BY DEF TypeInv, TypeOK, InSession, ProcessItem, SkipDuplicate, SkipCommitted,
     PromoteFromFlushProof, StartDrive, InvalidItem, Claim, session
<1>1. CASE SkipDuplicate(u, h) \/ SkipCommitted(u, h) \/ StartDrive(u, h)
  <2>1. UNCHANGED <<store, records, budget>>
    BY <1>1 DEF SkipDuplicate, SkipCommitted, StartDrive, disk, session
  <2> QED BY <1>0, <2>1, SyncedStutter
<1>2. CASE PromoteFromFlushProof(u, h)
  <2> DEFINE q == ExportFlushed(FlushProofRecord(records[u]), h)
  <2>1. records' = [records EXCEPT ![u] = q] /\ Save(records', {})
    BY <1>2 DEF PromoteFromFlushProof
  <2>2. q.status = "EXPORTED"
    BY DEF ExportFlushed, FlushProofRecord
  <2> HIDE DEF q
  <2>3. \A v \in Urls : records'[v].status = "COMMITTED" =>
          records[v].status = "COMMITTED"
    BY <1>0, <2>1, <2>2 DEF TypeOK
  <2> QED BY <1>0, <2>1, <2>3, SyncedSave
<1>3. CASE InvalidItem(u, h)
  <2>1. FailItem(u, {"item"})
    BY <1>3 DEF InvalidItem
  <2>2. FailedRecord(records[u]).status = "COMMITTED"
          => records[u].status = "COMMITTED"
    BY <1>0, FailedRecordFacts
  <2>3. \A v \in Urls : records'[v].status = "COMMITTED" =>
          records[v].status = "COMMITTED"
    BY <1>0, <2>1, <2>2 DEF FailItem, TypeOK
  <2> QED BY <1>0, <2>1, <2>3, SyncedSave DEF FailItem
<1> QED BY <1>1, <1>2, <1>3 DEF ProcessItem

\* Every step keeps the session in step with the disk, and saves in order.
LEMMA SaveStep ==
  ASSUME TypeInv, SaveInv, [Next]_vars
  PROVE  SaveInv' /\ Ordered
<1>0. TypeOK /\ TypeOK'
  BY NextType DEF TypeInv
<1>1. ASSUME NEW u \in Urls, NEW h \in Hashes,
             ProcessItem(u, h) \/ InvalidItem(u, h)
      PROVE  SaveInv' /\ Ordered
  BY <1>0, <1>1, ItemSynced
<1>2. pc \in {"append", "flushed", "exported"} =>
        cur.url \in Urls /\ cur.hash \in Hashes /\ records[cur.url] \in RawRecord
  BY DEF TypeInv, TypeOK, CurOK, Items
<1>3. CASE WriterGone \/ AppendFails
  <2>1. PICK f : FailItem(cur.url, f)
    BY <1>3 DEF WriterGone, AppendFails, ExportError
  <2>2. pc = "append" /\ mode' = mode /\ InSession
    BY <1>3 DEF WriterGone, AppendFails, ExportError, InSession
  <2>3. FailedRecord(records[cur.url]).status = "COMMITTED"
          => records[cur.url].status = "COMMITTED"
    BY <1>2, <2>2, FailedRecordFacts
  <2>4. \A v \in Urls : records'[v].status = "COMMITTED" =>
          records[v].status = "COMMITTED"
    BY <1>0, <1>2, <2>1, <2>2, <2>3 DEF FailItem, TypeOK
  <2> QED BY <1>0, <2>1, <2>2, <2>4, SyncedSave DEF FailItem
<1>4. CASE CheckpointExported
  <2>1. /\ records' = [records EXCEPT ![cur.url] =
                         ExportedRecord(records[cur.url], cur.hash)]
        /\ Save(records', {}) /\ pc = "flushed" /\ mode' = mode /\ InSession
    BY <1>4 DEF CheckpointExported, InSession
  <2>2. \A v \in Urls : records'[v].status = "COMMITTED" =>
          records[v].status = "COMMITTED"
    BY <1>0, <1>2, <2>1, ExportedRecordFacts DEF TypeOK
  <2> QED BY <1>0, <2>1, <2>2, SyncedSave
<1>5. CASE CommitPoint /\ CanCommit(records[cur.url])
  <2>1. /\ records' = [records EXCEPT ![cur.url] = Committed(records[cur.url])]
        /\ Save(records', {}) /\ pc = "exported" /\ mode' = mode /\ InSession
    BY <1>5 DEF CommitPoint, SwapToCommitted, InSession
  <2>2. /\ records[cur.url].status = "EXPORTED"
        /\ Committed(records[cur.url]).hash = records[cur.url].hash
    BY <1>2, <1>5, <2>1, CommittedFacts DEF CanCommit, Reconciles
  <2>3. \A v \in Urls : records'[v].status = "COMMITTED" =>
          \/ records[v].status = "COMMITTED"
          \/ records[v].status = "EXPORTED" /\ records[v].hash = records'[v].hash
    BY <1>0, <1>2, <2>1, <2>2 DEF TypeOK
  <2> QED BY <1>0, <2>1, <2>3, SyncedSave
<1>6. CASE CommitPoint /\ ~CanCommit(records[cur.url])
  <2>1. UNCHANGED <<store, records, mode, budget>> /\ InSession
    BY <1>6 DEF CommitPoint, SwapToCommitted, InSession
  <2> QED BY <1>0, <2>1, SyncedStutter
<1>7. CASE FinalPersist
  <2>1. Save(records, {}) /\ InSession /\ pc' = "idle"
    BY <1>7 DEF FinalPersist, InSession
  <2>2. Ordered /\ budget'.save <= MaxSaveFaults
    BY <1>0, <2>1, OrderedSave DEF TypeOK
  <2> QED BY <2>1, <2>2 DEF SaveInv, Synced, InSession
<1>8. CASE OpenSession
  <2>1. PICK f : Spend(f) /\ \/ mode = "detached"
                             \/ records' = PartitionValid(store)
                             \/ "save" \in f
    BY <1>8, OpenOutcomes
  <2>2. /\ budget \in Budgets /\ "save" \in DOMAIN budget /\ budget.save \in Nat
        /\ MaxSaveFaults \in Nat /\ budget'.save \in Nat
    BY <1>0, BoundsAssumption DEF TypeOK, Budgets
  <2>3. /\ budget'.save <= budget.save
        /\ "save" \in f => budget'.save < budget.save
    BY <2>1, <2>2, SpendBound
  <2>4. store' = store /\ mode' = mode
    BY <1>8 DEF OpenSession, disk
  <2>5. budget'.save <= MaxSaveFaults
    BY <2>2, <2>3 DEF SaveInv
  <2>6. (budget'.save = MaxSaveFaults /\ mode # "detached")
          => records' = PartitionValid(store)
    BY <2>1, <2>2, <2>3 DEF SaveInv
  <2>7. Synced'
    BY <1>0, <2>4, <2>6 DEF Synced, PartitionValid, TypeOK, Absent, Blank
  <2> QED BY <2>4, <2>5, <2>7 DEF SaveInv, Ordered
<1>9. CASE \/ \E m \in Modes : FilterCommitted(m)
           \/ \E u \in Urls : ScrapeFails(u)
           \/ Crash
  <2>1. store' = store /\ pc' \in {"idle", "scrape"} /\ \E f : Spend(f)
    BY <1>9 DEF FilterCommitted, ScrapeFails, Crash, Load, disk
  <2> QED BY <1>0, <2>1, SyncedStutter
<1>10. CASE AppendLine
  <2>1. UNCHANGED <<store, records, mode, budget>> /\ InSession
    BY <1>10 DEF AppendLine, session, InSession
  <2> QED BY <1>0, <2>1, SyncedStutter
<1>11. CASE CancelRun \/ UNCHANGED vars
  <2>1. UNCHANGED <<store, records, mode, pc>>
        /\ (budget' = budget \/ \E f : Spend(f))
    BY <1>11 DEF CancelRun, vars, disk, session
  <2> QED BY <1>0, <2>1, SyncedStutter DEF InSession
<1> QED BY <1>1, <1>3, <1>4, <1>5, <1>6, <1>7, <1>8, <1>9, <1>10, <1>11
        DEF Next, Run

\* The durable checkpoint comes before the commit point in every run of every
\* kind: as long as no load and no save has failed, commit_item and the
\* promotion write COMMITTED only over an EXPORTED record with the same hash.
THEOREM CheckpointBeforeCommit == Spec => ExportedBeforeCommitted
<1>1. Init => TypeInv /\ SaveInv
  BY InitTypeInv, BoundsAssumption DEF Init, SaveInv, Synced, InSession
<1>2. TypeInv /\ SaveInv /\ [Next]_vars => (TypeInv /\ SaveInv)'
  BY NextType, NextCur, SaveStep DEF TypeInv
<1>3. TypeInv /\ SaveInv /\ [Next]_vars => [Ordered]_vars
  BY SaveStep
<1> QED BY <1>1, <1>2, <1>3, PTL DEF Spec, ExportedBeforeCommitted, Ordered
-----------------------------------------------------------------------------
(* No line is written twice.  As long as every run resumes, every session   *)
(* reads the output and no item has failed, every record is absent,         *)
(* EXPORTED or COMMITTED; what the flushed lines prove is in the index or   *)
(* was committed by this very run, so that a page is driven only when it    *)
(* has neither a record nor the line.                                       *)

Clean == /\ budget.item = MaxItemFaults /\ budget.read = MaxReadFaults
         /\ budget.rerun = MaxReruns

Spendable == /\ budget.item <= MaxItemFaults /\ budget.read <= MaxReadFaults
             /\ budget.rerun <= MaxReruns

CleanRecord(r) ==
  \/ r.status = "ABSENT"
  \/ r.status \in {"EXPORTED", "COMMITTED"} /\ ~r.err /\ r.attempts >= 1

CleanStore == \A u \in Urls : CleanRecord(store[u])
CleanRecords == \A u \in Urls : CleanRecord(records[u])
ResumeRun == pc # "idle" => mode = "resume"
WriterAlive == writer # "dead"

\* A record that is EXPORTED when the next item is taken came from an earlier
\* run: its line was read into the index.
ExportedIndexed ==
  InSession => \A u \in Urls :
    records[u].status = "EXPORTED"
      => (records[u].hash \in index \/ (pc = "exported" /\ cur.url = u))

\* A line that is not in the index was written by this run.
LinesAccounted ==
  InSession => \A u \in Urls, h \in Hashes :
    lines[u][h] > 0 => \/ h \in index
                       \/ records[u].status = "COMMITTED"
                       \/ pc \in {"flushed", "exported"} /\ cur.url = u

AppendNew == pc = "append" => lines[cur.url][cur.hash] = 0
ExportedNow == pc = "exported" => records[cur.url].status = "EXPORTED"

OnceCore == /\ CleanStore /\ CleanRecords /\ ResumeRun /\ WriterAlive
            /\ ExportedIndexed /\ LinesAccounted /\ AppendNew /\ ExportedNow
            /\ NoDuplicateLine

OnceInv == Spendable /\ (Clean => OnceCore)

\* A step after which nothing has failed yet is one before which nothing had,
\* and it spends neither a failed item nor a run that does not resume.
LEMMA CleanBackwards ==
  ASSUME TypeOK, TypeOK', Spendable, NEW f, Spend(f)
  PROVE  /\ Spendable'
         /\ Clean' => (Clean /\ f \cap {"item", "read", "rerun"} = {})
<1>1. /\ budget \in Budgets /\ budget' \in Budgets
      /\ {"item", "read", "rerun"} \subseteq DOMAIN budget
      /\ MaxItemFaults \in Nat /\ MaxReadFaults \in Nat /\ MaxReruns \in Nat
  BY BoundsAssumption DEF TypeOK, Budgets
<1>2. \A b \in {"item", "read", "rerun"} :
        budget'[b] <= budget[b] /\ (b \in f => budget'[b] < budget[b])
  BY <1>1, SpendBound
<1>3. \A b \in {"item", "read", "rerun"} : budget[b] \in Nat /\ budget'[b] \in Nat
  BY <1>1 DEF Budgets
<1> QED BY <1>1, <1>2, <1>3 DEF Clean, Spendable

\* Every save and every step of the environment spends a set of faults.
LEMMA SaveSpends ==
  ASSUME NEW recs, NEW faults, Save(recs, faults)
  PROVE  \E f : Spend(f) /\ faults \subseteq f
BY DEF Save

\* A clean record passes the table when it is honest; an EXPORTED one can be
\* committed and a COMMITTED one is accepted by the resume gate.
LEMMA CleanFacts ==
  ASSUME NEW L, NEW u \in Urls, NEW r \in RawRecord, CleanRecord(r),
         HonestIn(L, u, r)
  PROVE  /\ SatisfiesTable(r)
         /\ r.status = "COMMITTED" => CommittedProven(r)
         /\ r.status = "EXPORTED" => (/\ CanCommit(r) /\ CleanRecord(Committed(r))
                                      /\ Reconciles(r, "EXPORTED"))
<1>1. SatisfiesTable(r) /\ (r.status = "COMMITTED" => CommittedProven(r))
  BY NoHashAssumption DEF CleanRecord, HonestIn, SatisfiesTable, CommittedProven,
     Reconciles
<1>2. ASSUME r.status = "EXPORTED"
      PROVE  CanCommit(r) /\ CleanRecord(Committed(r)) /\ Reconciles(r, "EXPORTED")
  <2>1. /\ Committed(r).status = "COMMITTED" /\ Committed(r).err = r.err
        /\ Committed(r).attempts = r.attempts /\ Committed(r).out = r.out
        /\ Committed(r).hash = r.hash /\ Committed(r).migrated = r.migrated
    BY DEF Committed, RawRecord
  <2>2. ~r.err /\ r.attempts >= 1 /\ ~r.migrated /\ r.out /\ r.hash # NoHash
    BY <1>2, NoHashAssumption DEF CleanRecord, HonestIn
  <2>3. Reconciles(r, "EXPORTED")
    BY <1>2, <2>2 DEF Reconciles
  <2>4. SatisfiesTable(Committed(r)) /\ CleanRecord(Committed(r))
    BY <2>1, <2>2 DEF SatisfiesTable, CleanRecord
  <2> QED BY <2>3, <2>4 DEF CanCommit
<1> QED BY <1>1, <1>2

\* A checkpoint and the promotion of a page without a record are clean.
LEMMA CleanClaims ==
  ASSUME NEW r \in RawRecord, NEW h \in Hashes
  PROVE  /\ CleanRecord(ExportedRecord(r, h))
         /\ r.status = "ABSENT" =>
              CleanRecord(ExportFlushed(FlushProofRecord(r), h))
<1>1. DriveToProcessed(r).attempts \in Nat
  BY DriveIsRecord DEF RawRecord
<1>2. CleanRecord(ExportedRecord(r, h))
  BY <1>1 DEF CleanRecord, ExportedRecord
<1>3. ASSUME r.status = "ABSENT"
      PROVE  CleanRecord(ExportFlushed(FlushProofRecord(r), h))
  <2>1. ExportFlushed(FlushProofRecord(r), h) =
          [status |-> "EXPORTED", hash |-> h, out |-> TRUE, err |-> FALSE,
           attempts |-> 1, migrated |-> FALSE]
    BY <1>3 DEF FlushProofRecord, FreshDiscovered, Blank, ExportFlushed,
       DriveToProcessed, PreExport
  <2> QED BY <2>1 DEF CleanRecord
<1> QED BY <1>2, <1>3

\* A save of clean records leaves a clean store.
LEMMA CleanSave ==
  ASSUME TypeOK, CleanStore, NEW recs \in [Urls -> RawRecord],
         \A u \in Urls : CleanRecord(recs[u]), NEW faults, Save(recs, faults)
  PROVE  \A u \in Urls : CleanRecord(store'[u])
<1>1. \A u \in Urls : CleanRecord(PartitionValid(store)[u])
  BY DEF PartitionValid, CleanStore, TypeOK, CleanRecord, Absent, Blank
<1>2. \A u \in Urls : CleanRecord(Merged(recs)[u])
  BY <1>1 DEF Merged
<1> QED BY <1>2 DEF Save, CleanStore

\* Taking the next result: a page is driven only when its line is not there.
LEMMA ItemOnce ==
  ASSUME TypeInv, FlushInv, OnceCore, TypeOK', NEW u \in Urls, NEW h \in Hashes,
         ProcessItem(u, h)
  PROVE  OnceCore'
<1>0. /\ UNCHANGED <<lines, index, mode>> /\ pc = "items"
      /\ pc' \in {"items", "append", "exported"}
  BY DEF ProcessItem, SkipDuplicate, SkipCommitted, PromoteFromFlushProof,
     StartDrive, Claim, disk, session
<1>1. mode = "resume" /\ InSession /\ InSession'
  BY <1>0 DEF OnceCore, ResumeRun, InSession
<1>2. ResumeRun' /\ NoDuplicateLine'
  BY <1>0, <1>1 DEF OnceCore, ResumeRun, NoDuplicateLine
<1>3. /\ records[u] \in RawRecord /\ CleanRecord(records[u])
      /\ HonestIn(lines, u, records[u])
  BY DEF TypeInv, TypeOK, FlushInv, RecordsHonest, OnceCore, CleanRecords
<1>4. CASE SkipDuplicate(u, h) \/ SkipCommitted(u, h)
  <2>1. UNCHANGED <<store, records, writer>> /\ pc' = "items"
    BY <1>0, <1>4 DEF SkipDuplicate, SkipCommitted, Claim, disk, session
  <2> QED BY <1>0, <1>1, <1>2, <2>1 DEF OnceCore, CleanStore, CleanRecords,
          WriterAlive, ExportedIndexed, LinesAccounted, AppendNew, ExportedNow,
          CleanRecord
<1>5. CASE StartDrive(u, h)
  <2>1. /\ UNCHANGED <<store, records>> /\ pc' = "append"
        /\ cur' = [url |-> u, hash |-> h] /\ Decision(u, h) = "drive"
    BY <1>5 DEF StartDrive
  <2>2. ~CommittedProven(records[u])
    BY <1>1, <2>1 DEF Decision
  <2>3. records[u].status # "COMMITTED"
    BY <1>3, <2>2, CleanFacts
  <2>4. records[u].status # "EXPORTED"
    BY <1>0, <1>1, <2>1, <2>2 DEF Decision, OnceCore, ExportedIndexed
  <2>5. h \notin index
    BY <1>1, <1>3, <2>1, <2>2, <2>3, <2>4 DEF Decision, CleanRecord
  <2>6. lines[u][h] = 0
    BY <1>0, <1>1, <2>3, <2>5 DEF OnceCore, LinesAccounted, TypeInv, TypeOK
  <2>7. AppendNew' /\ ExportedNow' /\ WriterAlive'
    BY <1>0, <1>5, <2>1, <2>6 DEF AppendNew, ExportedNow, WriterAlive, OnceCore,
       StartDrive, OpenWriter
  <2> QED BY <1>0, <1>1, <1>2, <2>1, <2>7 DEF OnceCore, CleanStore,
          CleanRecords, ExportedIndexed, LinesAccounted, CleanRecord
<1>6. CASE PromoteFromFlushProof(u, h)
  <2> DEFINE q == ExportFlushed(FlushProofRecord(records[u]), h)
  <2>1. /\ records' = [records EXCEPT ![u] = q] /\ Save(records', {})
        /\ pc' = "exported" /\ cur' = [url |-> u, hash |-> h]
        /\ writer' = writer /\ Decision(u, h) = "promote"
    BY <1>6 DEF PromoteFromFlushProof
  <2>2. records[u].status # "COMMITTED"
    BY <1>1, <1>3, <2>1, CleanFacts DEF Decision
  <2>3. CleanRecord(q) /\ q.status = "EXPORTED"
    <3>1. CASE records[u].status = "ABSENT"
      BY <1>3, <3>1, CleanClaims, ExportFlushedFacts
    <3>2. CASE records[u].status = "EXPORTED"
      <4>1. q = records[u]
        BY <1>3, <3>2, CleanFacts, ExportFlushedFacts
      <4> QED BY <1>3, <3>2, <4>1
    <3> QED BY <1>3, <2>2, <3>1, <3>2 DEF CleanRecord
  <2> HIDE DEF q
  <2>4. /\ records'[u] = q /\ records' \in [Urls -> RawRecord]
        /\ \A v \in Urls : v # u => records'[v] = records[v]
    BY <2>1 DEF TypeInv, TypeOK
  <2>5. CleanRecords' /\ \A v \in Urls : CleanRecord(records'[v])
    BY <2>3, <2>4 DEF OnceCore, CleanRecords, CleanRecord
  <2>6. CleanStore'
    BY <2>1, <2>4, <2>5, CleanSave DEF TypeInv, OnceCore, CleanStore, CleanRecord
  <2>7. ExportedIndexed' /\ ExportedNow' /\ AppendNew' /\ WriterAlive'
    BY <1>0, <1>1, <2>1, <2>3, <2>4 DEF OnceCore, ExportedIndexed, ExportedNow,
       AppendNew, WriterAlive
  <2>8. LinesAccounted'
    BY <1>0, <1>1, <2>1, <2>4 DEF OnceCore, LinesAccounted
  <2> QED BY <1>2, <2>5, <2>6, <2>7, <2>8 DEF OnceCore
<1> QED BY <1>4, <1>5, <1>6 DEF ProcessItem

\* The append: the line was not there before.
LEMMA AppendOnce ==
  ASSUME TypeInv, OnceCore, TypeOK', AppendLine
  PROVE  OnceCore'
<1>1. cur \in Items /\ cur.url \in Urls /\ cur.hash \in Hashes
  BY DEF TypeInv, CurOK, Items, AppendLine
<1>2. /\ UNCHANGED <<store, records, index, mode, writer, cur>>
      /\ pc = "append" /\ pc' = "flushed"
      /\ lines' = [lines EXCEPT ![cur.url][cur.hash] = @ + 1]
  BY DEF AppendLine, session
<1>3. /\ lines'[cur.url][cur.hash] = 1
      /\ \A v \in Urls, k \in Hashes :
           (v # cur.url \/ k # cur.hash) => lines'[v][k] = lines[v][k]
  BY <1>1, <1>2 DEF OnceCore, AppendNew, TypeInv, TypeOK
<1>4. NoDuplicateLine'
  BY <1>3 DEF OnceCore, NoDuplicateLine
<1>5. InSession /\ InSession'
  BY <1>2 DEF InSession
<1>6. LinesAccounted'
  BY <1>2, <1>3, <1>5 DEF OnceCore, LinesAccounted
<1> QED BY <1>2, <1>4, <1>5, <1>6 DEF OnceCore, CleanStore, CleanRecords,
        CleanRecord, ResumeRun, WriterAlive, ExportedIndexed, AppendNew,
        ExportedNow

\* The EXPORTED checkpoint and the commit point, which never rejects a clean
\* record.
LEMMA CheckpointOnce ==
  ASSUME TypeInv, FlushInv, OnceCore, TypeOK', CheckpointExported \/ CommitPoint
  PROVE  OnceCore'
<1>0. cur \in Items
  BY DEF TypeInv, CurOK, CheckpointExported, CommitPoint
<1>1. /\ cur.url \in Urls /\ cur.hash \in Hashes
      /\ records[cur.url] \in RawRecord /\ CleanRecord(records[cur.url])
      /\ HonestIn(lines, cur.url, records[cur.url])
  BY <1>0 DEF Items, TypeInv, TypeOK, FlushInv, RecordsHonest, OnceCore,
     CleanRecords
<1>2. /\ UNCHANGED <<lines, index, mode, writer>> /\ InSession /\ InSession'
      /\ pc \in {"flushed", "exported"}
  BY DEF CheckpointExported, CommitPoint, InSession, AfterItem
<1>3. ResumeRun' /\ NoDuplicateLine' /\ WriterAlive'
  BY <1>2 DEF OnceCore, ResumeRun, NoDuplicateLine, WriterAlive
<1>4. CASE CheckpointExported
  <2> DEFINE q == ExportedRecord(records[cur.url], cur.hash)
  <2>1. /\ records' = [records EXCEPT ![cur.url] = q] /\ Save(records', {})
        /\ pc' = "exported" /\ cur' = cur /\ pc = "flushed"
    BY <1>4 DEF CheckpointExported
  <2>2. CleanRecord(q) /\ q.status = "EXPORTED"
    BY <1>1, CleanClaims, ExportedRecordFacts
  <2> HIDE DEF q
  <2>3. /\ records'[cur.url] = q /\ records' \in [Urls -> RawRecord]
        /\ \A v \in Urls : v # cur.url => records'[v] = records[v]
    BY <1>1, <2>1 DEF TypeInv, TypeOK
  <2>4. CleanRecords' /\ \A v \in Urls : CleanRecord(records'[v])
    BY <2>2, <2>3 DEF OnceCore, CleanRecords, CleanRecord
  <2>5. CleanStore'
    BY <2>1, <2>3, <2>4, CleanSave DEF TypeInv, OnceCore, CleanStore, CleanRecord
  <2>6. ExportedIndexed' /\ ExportedNow' /\ AppendNew'
    BY <1>2, <2>1, <2>2, <2>3 DEF OnceCore, ExportedIndexed, ExportedNow,
       AppendNew
  <2>7. LinesAccounted'
    BY <1>2, <2>1, <2>3 DEF OnceCore, LinesAccounted
  <2> QED BY <1>3, <2>4, <2>5, <2>6, <2>7 DEF OnceCore
<1>5. CASE CommitPoint
  <2> DEFINE q == Committed(records[cur.url])
  <2>1. pc = "exported" /\ pc' \in {"items", "final"}
    BY <1>5 DEF CommitPoint, AfterItem
  <2>2. CanCommit(records[cur.url]) /\ CleanRecord(q) /\ q.status = "COMMITTED"
    BY <1>1, <2>1, CleanFacts, CommittedFacts DEF OnceCore, ExportedNow
  <2>3. records' = [records EXCEPT ![cur.url] = q] /\ Save(records', {})
    BY <1>5, <2>2 DEF CommitPoint, SwapToCommitted
  <2> HIDE DEF q
  <2>4. /\ records'[cur.url] = q /\ records' \in [Urls -> RawRecord]
        /\ \A v \in Urls : v # cur.url => records'[v] = records[v]
    BY <1>1, <2>3 DEF TypeInv, TypeOK
  <2>5. CleanRecords' /\ \A v \in Urls : CleanRecord(records'[v])
    BY <2>2, <2>4 DEF OnceCore, CleanRecords, CleanRecord
  <2>6. CleanStore'
    BY <2>3, <2>4, <2>5, CleanSave DEF TypeInv, OnceCore, CleanStore, CleanRecord
  <2>7. ExportedIndexed' /\ ExportedNow' /\ AppendNew'
    BY <1>2, <2>1, <2>2, <2>4 DEF OnceCore, ExportedIndexed, ExportedNow,
       AppendNew
  <2>8. LinesAccounted'
    BY <1>2, <2>1, <2>2, <2>4 DEF OnceCore, LinesAccounted
  <2> QED BY <1>3, <2>5, <2>6, <2>7, <2>8 DEF OnceCore
<1> QED BY <1>4, <1>5

\* A session that reads the output opens on an index of every line of it.
LEMMA OpenOnce ==
  ASSUME TypeInv, FlushInv, OnceCore, OpenSession, index' = ChecksumIndex
  PROVE  OnceCore'
<1>1. /\ UNCHANGED <<store, lines, mode>> /\ pc' = "items"
      /\ writer' = "unopened" /\ index' = ChecksumIndex /\ pc = "scrape"
  BY DEF OpenSession, disk
<1>2. records' = NoRecords \/ records' = PartitionValid(store)
  BY OpenOutcomes
<1>3. \A u \in Urls : records'[u] = Absent \/ records'[u] = store[u]
  BY <1>2 DEF NoRecords, PartitionValid, TypeInv, TypeOK
<1>4. CleanRecords'
  BY <1>3 DEF OnceCore, CleanStore, CleanRecords, CleanRecord, Absent, Blank
<1>5. \A u \in Urls, h \in Hashes : lines'[u][h] > 0 => h \in index'
  BY <1>1 DEF ChecksumIndex
<1>6. \A u \in Urls : records'[u].status = "EXPORTED" => records'[u].hash \in index'
  BY <1>1, <1>3, <1>5 DEF Absent, Blank, FlushInv, StoreHonest, HonestIn
<1> QED BY <1>1, <1>4, <1>5, <1>6 DEF OnceCore, CleanStore, CleanRecord,
        ResumeRun, NoDuplicateLine, WriterAlive, ExportedIndexed,
        LinesAccounted, AppendNew, ExportedNow

\* A run ends, dies or starts.
LEMMA OutsideOnce ==
  ASSUME TypeInv, OnceCore,
         \/ FinalPersist \/ Crash \/ CancelRun \/ UNCHANGED vars
         \/ FilterCommitted("resume")
  PROVE  OnceCore'
<1>1. CASE FinalPersist \/ Crash
  <2>1. /\ lines' = lines /\ pc' = "idle" /\ writer' = "unopened"
        /\ records' = NoRecords
    BY <1>1 DEF FinalPersist, Crash
  <2>2. CleanStore'
    BY <1>1, CleanSave DEF FinalPersist, Crash, TypeInv, TypeOK, OnceCore,
       CleanStore, CleanRecords, CleanRecord
  <2>3. CleanRecords'
    BY <2>1 DEF CleanRecords, CleanRecord, NoRecords, Absent, Blank
  <2> QED BY <2>1, <2>2, <2>3 DEF OnceCore, ResumeRun, NoDuplicateLine,
          WriterAlive, ExportedIndexed, LinesAccounted, AppendNew, ExportedNow,
          InSession
<1>2. CASE CancelRun \/ UNCHANGED vars
  <2>1. UNCHANGED <<store, lines, pc, mode, records, index, writer, cur>>
    BY <1>2 DEF CancelRun, vars, disk, session
  <2> QED BY <2>1 DEF OnceCore, CleanStore, CleanRecords, CleanRecord, ResumeRun,
          NoDuplicateLine, WriterAlive, ExportedIndexed, LinesAccounted,
          AppendNew, ExportedNow, InSession
<1>3. CASE FilterCommitted("resume")
  <2>1. /\ UNCHANGED <<store, lines, records, index, writer, cur>>
        /\ pc' = "scrape" /\ mode' = "resume"
    BY <1>3 DEF FilterCommitted, disk
  <2> QED BY <2>1 DEF OnceCore, CleanStore, CleanRecords, CleanRecord, ResumeRun,
          NoDuplicateLine, WriterAlive, ExportedIndexed, LinesAccounted,
          AppendNew, ExportedNow, InSession
<1> QED BY <1>1, <1>2, <1>3

\* Every step keeps the invariant, or spends a failed item, an unreadable output
\* or another kind of run and leaves the clean history.
LEMMA OnceStep ==
  ASSUME TypeInv, FlushInv, OnceInv, [Next]_vars
  PROVE  OnceInv'
<1>0. /\ TypeOK /\ TypeOK'
      /\ Spendable
  BY NextType DEF TypeInv, OnceInv
<1>1. ASSUME budget' = budget, OnceCore => OnceCore' PROVE OnceInv'
  BY <1>1 DEF OnceInv, Clean, Spendable
<1>2. ASSUME NEW f, Spend(f),
             \/ "item" \in f \/ "read" \in f \/ "rerun" \in f
             \/ OnceCore => OnceCore'
      PROVE  OnceInv'
  BY <1>0, <1>2, CleanBackwards DEF OnceInv
<1>3. ASSUME NEW u \in Urls, NEW h \in Hashes, ProcessItem(u, h)
      PROVE  OnceInv'
  <2>1. OnceCore => OnceCore'
    BY <1>0, <1>3, ItemOnce
  <2>2. budget' = budget \/ \E f : Spend(f)
    BY <1>3, SaveSpends DEF ProcessItem, SkipDuplicate, SkipCommitted,
       PromoteFromFlushProof, StartDrive
  <2> QED BY <1>1, <1>2, <2>1, <2>2
<1>4. ASSUME NEW u \in Urls, NEW h \in Hashes, InvalidItem(u, h)
      PROVE  OnceInv'
  <2>1. \E f : Spend(f) /\ "item" \in f
    BY <1>4, SaveSpends DEF InvalidItem, FailItem
  <2> QED BY <1>2, <2>1
<1>5. CASE AppendFails
  <2>1. \E f : Spend(f) /\ "item" \in f
    BY <1>5, SaveSpends DEF AppendFails, ExportError, FailItem
  <2> QED BY <1>2, <2>1
<1>6. CASE WriterGone
  <2>1. \E f : Spend(f)
    BY <1>6, SaveSpends DEF WriterGone, ExportError, FailItem
  <2>2. ~OnceCore
    BY <1>6 DEF WriterGone, OnceCore, WriterAlive
  <2> QED BY <1>2, <2>1, <2>2
<1>7. CASE AppendLine
  <2>1. budget' = budget
    BY <1>7 DEF AppendLine
  <2> QED BY <1>0, <1>1, <1>7, <2>1, AppendOnce
<1>8. CASE CheckpointExported \/ CommitPoint
  <2>1. budget' = budget \/ \E f : Spend(f)
    BY <1>8, SaveSpends DEF CheckpointExported, CommitPoint
  <2>2. OnceCore => OnceCore'
    BY <1>0, <1>8, CheckpointOnce
  <2> QED BY <1>1, <1>2, <2>1, <2>2
<1>9. CASE OpenSession
  <2>1. PICK f : Spend(f) /\ (index' = ChecksumIndex \/ "read" \in f)
    BY <1>9, OpenOutcomes
  <2> QED BY <1>2, <1>9, <2>1, OpenOnce
<1>10. CASE FinalPersist \/ Crash \/ CancelRun \/ UNCHANGED vars
  <2>1. budget' = budget \/ \E f : Spend(f)
    BY <1>10, SaveSpends DEF FinalPersist, Crash, CancelRun, vars
  <2>2. OnceCore => OnceCore'
    BY <1>10, OutsideOnce
  <2> QED BY <1>1, <1>2, <2>1, <2>2
<1>11. ASSUME NEW m \in Modes, FilterCommitted(m) PROVE OnceInv'
  <2>1. CASE m = "resume"
    <3>1. \E f : Spend(f)
      BY <1>11 DEF FilterCommitted, Load
    <3>2. OnceCore => OnceCore'
      BY <1>11, <2>1, OutsideOnce
    <3> QED BY <1>2, <3>1, <3>2
  <2>2. CASE m # "resume"
    <3>1. \E f : Spend(f) /\ "rerun" \in f
      BY <1>11, <2>2 DEF FilterCommitted
    <3> QED BY <1>2, <3>1
  <2> QED BY <2>1, <2>2
<1>12. ASSUME NEW u \in Urls, ScrapeFails(u) PROVE OnceInv'
  <2>1. \E f : Spend(f) /\ "item" \in f
    BY <1>12 DEF ScrapeFails
  <2> QED BY <1>2, <2>1
<1> QED BY <1>3, <1>4, <1>5, <1>6, <1>7, <1>8, <1>9, <1>10, <1>11, <1>12
        DEF Next, Run

\* No duplicated exports: through every crash, cancellation, failed load and
\* failed save, a resume run appends a (page, content) line only when the file
\* does not have it, as long as no session opened without being able to read it.
THEOREM NoLineTwice ==
  ASSUME DistinctContents, WholeLinesOnly
  PROVE  Spec => []OnceUnlessFailed
<1>1. Init => TypeInv /\ FlushInv /\ OnceInv
  <2> SUFFICES ASSUME Init PROVE TypeInv /\ FlushInv /\ OnceInv
    OBVIOUS
  <2>1. CleanStore /\ CleanRecords
    BY DEF Init, CleanStore, CleanRecords, CleanRecord, NoRecords, Absent, Blank,
       MigratedV1
  <2>2. OnceCore
    BY <2>1 DEF Init, OnceCore, ResumeRun, WriterAlive, ExportedIndexed,
       LinesAccounted, AppendNew, ExportedNow, NoDuplicateLine, InSession
  <2> QED BY <2>2, FlushInit, BoundsAssumption DEF Init, OnceInv, Spendable
<1>2. TypeInv /\ FlushInv /\ OnceInv /\ [Next]_vars
        => (TypeInv /\ FlushInv /\ OnceInv)'
  BY FlushStep, OnceStep
<1>3. OnceInv => OnceUnlessFailed
  BY DEF OnceInv, OnceCore, OnceUnlessFailed, Clean
<1> QED BY <1>1, <1>2, <1>3, PTL DEF Spec
-----------------------------------------------------------------------------
(* The protocol implements DurableExport.  An acknowledgement is not taken  *)
(* back because the session holds every record that is COMMITTED on disk as *)
(* COMMITTED, or holds none and has no result of that page to process.      *)

\* At most one load or save of the store fails.  When both loads of one run
\* fail, the run drives pages that are COMMITTED on disk and writes EXPORTED
\* over their records: the acknowledgement is taken back until the run commits.
OneStoreFault == MaxSaveFaults <= 1

AtItem(u) == pc \in {"append", "flushed", "exported"} /\ cur.url = u

\* The gate let a committed page through only when its load failed.
ScrapeView ==
  (pc = "scrape" /\ mode = "resume") =>
    \A u \in Urls : (CommittedProven(store[u]) /\ todo[u] > 0)
                      => budget.save < MaxSaveFaults

AckedKept ==
  (InSession /\ mode = "resume") =>
    \A u \in Urls : CommittedProven(store[u]) =>
      \/ CommittedProven(records[u])
      \/ records[u].status = "ABSENT" /\ todo[u] = 0 /\ ~AtItem(u)

ItemOpen == mode = "resume" =>
              \A u \in Urls : AtItem(u) => ~CommittedProven(records[u])

MigratedKept == (InSession /\ mode = "resume") =>
                  \A u \in Urls : records[u].migrated => CommittedProven(store[u])

AckInv == ScrapeView /\ AckedKept /\ ItemOpen /\ MigratedKept

\* What a step may do to the acknowledgements.
AcksGrow ==
  \A u \in Urls :
    /\ CommittedProven(store[u]) => CommittedProven(store'[u])
    /\ CommittedProven(store'[u]) =>
         \/ CommittedProven(store[u])
         \/ \E h \in Hashes : lines[u][h] > 0

\* A save over the store acknowledges only pages with a line, and takes no
\* acknowledgement back.
LEMMA AckSave ==
  ASSUME TypeOK, TableInv, NEW recs \in [Urls -> RawRecord],
         \A u \in Urls : HonestIn(lines, u, recs[u]),
         \A u \in Urls : CommittedProven(store[u]) =>
           CommittedProven(recs[u]) \/ recs[u].status = "ABSENT",
         \A u \in Urls : recs[u].migrated => CommittedProven(store[u]),
         NEW faults, Save(recs, faults)
  PROVE  /\ AcksGrow
         /\ \A u \in Urls : CommittedProven(store'[u]) =>
              CommittedProven(store[u]) \/ CommittedProven(recs[u])
<1>1. PartitionValid(store) = store
  BY DEF PartitionValid, TableInv, StoreTable, StoreSatisfiesTable, TypeOK
<1>2. \A u \in Urls : \/ store'[u] = store[u]
                      \/ store'[u] = recs[u] /\ recs[u].status # "ABSENT"
  BY <1>1 DEF Save, Merged
<1>3. \A u \in Urls : CommittedProven(recs[u]) =>
        CommittedProven(store[u]) \/ \E h \in Hashes : lines[u][h] > 0
  <2> SUFFICES ASSUME NEW u \in Urls, CommittedProven(recs[u]),
                      ~CommittedProven(store[u])
               PROVE  \E h \in Hashes : lines[u][h] > 0
    OBVIOUS
  <2>1. ~recs[u].migrated /\ recs[u].status = "COMMITTED"
    BY DEF CommittedProven, Reconciles
  <2> QED BY <2>1 DEF HonestIn
<1>4. \A u \in Urls :
        /\ CommittedProven(store[u]) => CommittedProven(store'[u])
        /\ CommittedProven(store'[u]) =>
             CommittedProven(store[u]) \/ CommittedProven(recs[u])
  BY <1>2
<1> QED BY <1>3, <1>4 DEF AcksGrow

\* The session replaces the record of one page that is not acknowledged and
\* saves.
LEMMA AckReplace ==
  ASSUME TypeInv, TableInv, AckInv, TypeOK', FlushInv', lines' = lines,
         mode = "resume", mode' = mode, InSession, pc' # "scrape",
         NEW p \in Urls, ~CommittedProven(store[p]),
         \A u \in Urls \ {p} : /\ records'[u] = records[u]
                               /\ todo[u] = 0 => todo'[u] = 0
                               /\ ~AtItem(u)',
         ~records'[p].migrated,
         AtItem(p)' => ~CommittedProven(records'[p]),
         NEW faults, Save(records', faults)
  PROVE  AckInv' /\ AcksGrow
<1>1. records' \in [Urls -> RawRecord] /\ TypeOK
  BY DEF TypeOK, TypeInv
<1>2. \A u \in Urls : HonestIn(lines, u, records'[u])
  BY DEF FlushInv, RecordsHonest
<1>3. \A u \in Urls : CommittedProven(store[u]) =>
           CommittedProven(records'[u]) \/ records'[u].status = "ABSENT"
  BY DEF AckInv, AckedKept
<1>4. \A u \in Urls : records'[u].migrated => CommittedProven(store[u])
  BY DEF AckInv, MigratedKept
<1>5. /\ AcksGrow
      /\ \A u \in Urls : CommittedProven(store'[u]) =>
           CommittedProven(store[u]) \/ CommittedProven(records'[u])
  BY <1>1, <1>2, <1>3, <1>4, AckSave
<1>6. \A u \in Urls : CommittedProven(store[u])' <=> CommittedProven(store'[u])
  BY DEF CommittedProven, Reconciles
<1>7. \A u \in Urls : CommittedProven(records[u])' <=> CommittedProven(records'[u])
  BY DEF CommittedProven, Reconciles
<1>8. AckedKept'
  <2> SUFFICES ASSUME NEW u \in Urls, CommittedProven(store'[u]),
                      ~CommittedProven(records'[u])
               PROVE  records'[u].status = "ABSENT" /\ todo'[u] = 0 /\ ~AtItem(u)'
    BY <1>6, <1>7 DEF AckedKept
  <2>1. CommittedProven(store[u]) /\ u # p
    BY <1>5
  <2>2. records'[u] = records[u]
    BY <2>1
  <2> QED BY <2>1, <2>2 DEF AckInv, AckedKept
<1>9. ItemOpen'
  BY <1>7 DEF ItemOpen
<1>10. MigratedKept'
  BY <1>4, <1>5, <1>6 DEF MigratedKept, AcksGrow
<1>11. ScrapeView'
  BY DEF ScrapeView
<1> QED BY <1>5, <1>8, <1>9, <1>10, <1>11 DEF AckInv

\* A step that leaves the disk and the records of the session alone, and takes
\* no page that is acknowledged.
LEMMA AckStutter ==
  ASSUME AckInv, UNCHANGED <<store, records, mode>>, InSession, pc' # "scrape",
         TypeInv, TypeOK',
         \A u \in Urls : /\ todo[u] = 0 => todo'[u] = 0
                         /\ AtItem(u)' => \/ AtItem(u)
                                          \/ /\ todo[u] > 0
                                             /\ mode = "resume" =>
                                                  ~CommittedProven(records[u])
  PROVE  AckInv' /\ AcksGrow
<1>1. \A u \in Urls : CommittedProven(store[u])' <=> CommittedProven(store[u])
  BY DEF CommittedProven, Reconciles
<1>2. \A u \in Urls : CommittedProven(records[u])' <=> CommittedProven(records[u])
  BY DEF CommittedProven, Reconciles
<1>3. \A u \in Urls : ~(todo[u] > 0 /\ todo[u] = 0)
  BY DEF TypeInv, TypeOK
<1>4. AckedKept'
  <2> SUFFICES ASSUME NEW u \in Urls, mode = "resume", CommittedProven(store[u]),
                      ~CommittedProven(records[u])
               PROVE  records'[u].status = "ABSENT" /\ todo'[u] = 0 /\ ~AtItem(u)'
    BY <1>1, <1>2 DEF AckedKept
  <2>1. records[u].status = "ABSENT" /\ todo[u] = 0 /\ ~AtItem(u)
    BY DEF AckInv, AckedKept
  <2> QED BY <1>3, <2>1
<1>5. ItemOpen'
  BY <1>2 DEF AckInv, ItemOpen
<1>6. MigratedKept'
  BY <1>1 DEF AckInv, MigratedKept
<1>7. ScrapeView'
  BY DEF ScrapeView
<1>8. AcksGrow
  BY DEF AcksGrow
<1> QED BY <1>4, <1>5, <1>6, <1>7, <1>8 DEF AckInv

\* A run without resume or without a store says nothing about acknowledgements.
LEMMA AckSilent ==
  ASSUME store' = store, mode' # "resume"
  PROVE  AckInv' /\ AcksGrow
BY DEF AckInv, ScrapeView, AckedKept, ItemOpen, MigratedKept, AcksGrow

\* A page that is being worked on, or has a result left and a record that is
\* not accepted, is not acknowledged.
LEMMA WorkedOnUnacked ==
  ASSUME TypeInv, AckInv, InSession, mode = "resume", NEW u \in Urls,
         \/ AtItem(u)
         \/ todo[u] > 0 /\ ~CommittedProven(records[u])
  PROVE  ~CommittedProven(store[u]) /\ ~records[u].migrated
<1>1. todo[u] > 0 => todo[u] # 0
  BY DEF TypeInv, TypeOK
<1>2. ~CommittedProven(store[u])
  BY <1>1 DEF AckInv, AckedKept, ItemOpen
<1> QED BY <1>2 DEF AckInv, MigratedKept

\* The steps that take the next result of the run.
LEMMA AckItem ==
  ASSUME TypeInv, FlushInv, TableInv, AckInv, TypeOK', FlushInv',
         NEW u \in Urls, NEW h \in Hashes,
         ProcessItem(u, h) \/ InvalidItem(u, h)
  PROVE  AckInv' /\ AcksGrow
<1>0. /\ UNCHANGED <<lines, mode>> /\ pc = "items" /\ InSession
      /\ todo[u] > 0 /\ todo' = [todo EXCEPT ![u] = @ - 1]
      /\ mode \in {"resume", "detached"}
      /\ records[u] \in RawRecord
  BY DEF ProcessItem, SkipDuplicate, SkipCommitted, PromoteFromFlushProof,
     StartDrive, InvalidItem, Claim, disk, session, InSession, TableInv, RunMode,
     TypeInv, TypeOK
<1>1. \A v \in Urls : todo[v] = 0 => todo'[v] = 0
  BY <1>0 DEF TypeInv, TypeOK
<1>2. CASE SkipDuplicate(u, h) \/ SkipCommitted(u, h)
  <2>1. UNCHANGED <<store, records>> /\ pc' = "items"
    BY <1>0, <1>2 DEF SkipDuplicate, SkipCommitted, Claim, disk, session
  <2>2. \A v \in Urls : ~AtItem(v)'
    BY <2>1 DEF AtItem
  <2> QED BY <1>0, <1>1, <2>1, <2>2, AckStutter
<1>3. CASE StartDrive(u, h)
  <2>1. /\ UNCHANGED <<store, records>> /\ pc' = "append" /\ cur'.url = u
        /\ mode = "resume" => ~CommittedProven(records[u])
    BY <1>3 DEF StartDrive, Decision
  <2>2. \A v \in Urls : AtItem(v)' => v = u
    BY <2>1 DEF AtItem
  <2> QED BY <1>0, <1>1, <2>1, <2>2, AckStutter
<1>4. CASE PromoteFromFlushProof(u, h)
  <2> DEFINE q == ExportFlushed(FlushProofRecord(records[u]), h)
  <2>1. /\ records' = [records EXCEPT ![u] = q] /\ Save(records', {})
        /\ pc' = "exported" /\ cur'.url = u
        /\ mode = "resume" /\ ~CommittedProven(records[u])
    BY <1>4 DEF PromoteFromFlushProof, Decision
  <2>2. ~CommittedProven(store[u])
    BY <1>0, <2>1, WorkedOnUnacked
  <2>3. q.status = "EXPORTED"
    BY DEF ExportFlushed, FlushProofRecord
  <2> HIDE DEF q
  <2>4. /\ records'[u] = q
        /\ \A v \in Urls \ {u} : records'[v] = records[v] /\ ~AtItem(v)'
    BY <2>1 DEF TypeInv, TypeOK, AtItem
  <2>5. ~records'[u].migrated
    BY <2>3, <2>4 DEF FlushInv, RecordsHonest, HonestIn
  <2>6. ~CommittedProven(records'[u])
    BY <2>3, <2>4 DEF CommittedProven, Reconciles
  <2> QED BY <1>0, <1>1, <2>1, <2>2, <2>4, <2>5, <2>6, AckReplace
<1>5. CASE InvalidItem(u, h)
  <2>1. /\ FailItem(u, {"item"}) /\ pc' = "items"
        /\ mode = "resume" => ~CommittedProven(records[u])
    BY <1>5, <1>0 DEF InvalidItem, Claim, Decision
  <2>2. CASE mode = "detached"
    BY <1>0, <2>1, <2>2, AckSilent DEF FailItem, Save
  <2>3. CASE mode = "resume"
    <3>1. ~CommittedProven(store[u]) /\ ~records[u].migrated
      BY <1>0, <2>1, <2>3, WorkedOnUnacked
    <3>2. ~FailedRecord(records[u]).migrated
      BY <1>0, <3>1, FailedRecordFacts
    <3>3. /\ records' = [records EXCEPT ![u] = FailedRecord(records[u])]
          /\ Save(records', {"item"})
      BY <2>1, <2>3 DEF FailItem
    <3>4. /\ ~records'[u].migrated /\ ~AtItem(u)'
          /\ \A v \in Urls \ {u} : records'[v] = records[v] /\ ~AtItem(v)'
      BY <2>1, <3>2, <3>3 DEF TypeInv, TypeOK, AtItem
    <3> QED BY <1>0, <1>1, <2>1, <2>3, <3>1, <3>3, <3>4, AckReplace
  <2> QED BY <1>0, <2>2, <2>3
<1> QED BY <1>2, <1>3, <1>4, <1>5 DEF ProcessItem

\* The failure of the current item, its checkpoint and its commit point: its
\* page was not acknowledged.
LEMMA AckCurrent ==
  ASSUME TypeInv, FlushInv, TableInv, AckInv, TypeOK', FlushInv',
         WriterGone \/ AppendFails \/ CheckpointExported \/ CommitPoint
  PROVE  AckInv' /\ AcksGrow
<1>0. /\ UNCHANGED <<lines, mode, todo>> /\ InSession
      /\ pc \in {"append", "flushed", "exported"}
      /\ pc' \in {"exported", "items", "final"}
      /\ mode \in {"resume", "detached"}
  BY DEF WriterGone, AppendFails, ExportError, CheckpointExported, CommitPoint,
     AfterItem, InSession, TableInv, RunMode
<1>1. cur \in Items
  BY <1>0 DEF TypeInv, CurOK
<1>2. /\ cur.url \in Urls /\ cur.hash \in Hashes /\ AtItem(cur.url)
      /\ records[cur.url] \in RawRecord
  BY <1>0, <1>1 DEF Items, TypeInv, TypeOK, AtItem
<1>3. CASE mode = "detached"
  <2>1. store' = store
    BY <1>3 DEF WriterGone, AppendFails, ExportError, FailItem,
       CheckpointExported, CommitPoint, Save
  <2> QED BY <1>0, <1>3, <2>1, AckSilent
<1>4. CASE mode = "resume" /\ (WriterGone \/ AppendFails)
  <2>1. PICK f : FailItem(cur.url, f)
    BY <1>4 DEF WriterGone, AppendFails, ExportError
  <2>2. ~CommittedProven(store[cur.url]) /\ ~records[cur.url].migrated
    BY <1>0, <1>2, <1>4, WorkedOnUnacked
  <2>3. ~FailedRecord(records[cur.url]).migrated
    BY <1>2, <2>2, FailedRecordFacts
  <2>4. /\ records' = [records EXCEPT ![cur.url] = FailedRecord(records[cur.url])]
        /\ Save(records', f)
    BY <1>4, <2>1 DEF FailItem
  <2>5. pc' \in {"items", "final"}
    BY <1>4 DEF WriterGone, AppendFails, ExportError, AfterItem
  <2>6. PICK p \in Urls : p = cur.url
    BY <1>2
  <2>7. /\ ~CommittedProven(store[p]) /\ ~records'[p].migrated
        /\ \A v \in Urls \ {p} : records'[v] = records[v]
    BY <2>2, <2>3, <2>4, <2>6 DEF TypeInv, TypeOK
  <2>8. \A v \in Urls : ~AtItem(v)'
    BY <2>5 DEF AtItem
  <2> QED BY <1>0, <1>4, <2>4, <2>7, <2>8, AckReplace
<1>5. CASE mode = "resume" /\ CheckpointExported
  <2>1. /\ records' = [records EXCEPT ![cur.url] =
                         ExportedRecord(records[cur.url], cur.hash)]
        /\ Save(records', {}) /\ pc' = "exported" /\ cur' = cur
    BY <1>5 DEF CheckpointExported
  <2>2. ~CommittedProven(store[cur.url])
    BY <1>0, <1>2, <1>5, WorkedOnUnacked
  <2>3. /\ ~ExportedRecord(records[cur.url], cur.hash).migrated
        /\ ~CommittedProven(ExportedRecord(records[cur.url], cur.hash))
    BY <1>2, ExportedRecordFacts DEF CommittedProven, Reconciles
  <2>4. PICK p \in Urls : p = cur.url
    BY <1>2
  <2>5. /\ ~CommittedProven(store[p])
        /\ ~records'[p].migrated /\ ~CommittedProven(records'[p])
        /\ \A v \in Urls \ {p} : records'[v] = records[v] /\ ~AtItem(v)'
    BY <2>1, <2>2, <2>3, <2>4 DEF TypeInv, TypeOK, AtItem
  <2> QED BY <1>0, <1>5, <2>1, <2>5, AckReplace
<1>6. CASE mode = "resume" /\ CommitPoint /\ CanCommit(records[cur.url])
  <2>1. /\ records' = [records EXCEPT ![cur.url] = Committed(records[cur.url])]
        /\ Save(records', {}) /\ pc' \in {"items", "final"}
    BY <1>6 DEF CommitPoint, SwapToCommitted, AfterItem
  <2>2. ~CommittedProven(store[cur.url]) /\ ~records[cur.url].migrated
    BY <1>0, <1>2, <1>6, WorkedOnUnacked
  <2>3. ~Committed(records[cur.url]).migrated
    BY <1>2, <2>2, CommittedFacts
  <2>4. PICK p \in Urls : p = cur.url
    BY <1>2
  <2>5. /\ ~CommittedProven(store[p]) /\ ~records'[p].migrated
        /\ \A v \in Urls \ {p} : records'[v] = records[v]
    BY <2>1, <2>2, <2>3, <2>4 DEF TypeInv, TypeOK
  <2>6. \A v \in Urls : ~AtItem(v)'
    BY <2>1 DEF AtItem
  <2> QED BY <1>0, <1>6, <2>1, <2>5, <2>6, AckReplace
<1>7. CASE mode = "resume" /\ CommitPoint /\ ~CanCommit(records[cur.url])
  <2>1. UNCHANGED <<store, records>> /\ pc' \in {"items", "final"}
    BY <1>7 DEF CommitPoint, SwapToCommitted, AfterItem
  <2>2. \A v \in Urls : ~AtItem(v)'
    BY <2>1 DEF AtItem
  <2> QED BY <1>0, <2>1, <2>2, AckStutter
<1> QED BY <1>0, <1>3, <1>4, <1>5, <1>6, <1>7

\* The session opens: when its load fails the gate's load did not, and no
\* acknowledged page has a result.
LEMMA AckOpen ==
  ASSUME OneStoreFault, TypeInv, FlushInv, TableInv, SaveInv, AckInv, TypeOK',
         OpenSession
  PROVE  AckInv' /\ AcksGrow
<1>1. /\ UNCHANGED <<store, mode, todo>> /\ pc = "scrape" /\ pc' = "items"
      /\ mode \in {"resume", "detached"}
  BY DEF OpenSession, disk, TableInv, RunMode
<1>2. CASE mode = "detached"
  BY <1>1, <1>2, AckSilent
<1>3. CASE mode = "resume"
  <2>1. PartitionValid(store) = store
    BY DEF PartitionValid, TableInv, StoreTable, StoreSatisfiesTable, TypeInv,
       TypeOK
  <2>2. \/ records' = store
        \/ records' = NoRecords /\ budget.save > 0
    BY <1>3, <2>1 DEF OpenSession, Load, Spend
  <2>3. \A u \in Urls : CommittedProven(store[u])' <=> CommittedProven(store[u])
    BY <1>1 DEF CommittedProven, Reconciles
  <2>4. AcksGrow
    BY <1>1 DEF AcksGrow
  <2>5. ScrapeView' /\ ItemOpen'
    BY <1>1 DEF ScrapeView, ItemOpen, AtItem
  <2>6. CASE records' = store
    <3>1. \A u \in Urls : CommittedProven(records[u])' <=> CommittedProven(store[u])
      BY <2>6 DEF CommittedProven, Reconciles
    <3>2. AckedKept'
      BY <2>3, <3>1 DEF AckedKept
    <3>3. \A u \in Urls : store[u].migrated => CommittedProven(store[u])
      BY DEF FlushInv, StoreHonest, HonestIn, TableInv, StoreTable,
         StoreSatisfiesTable, SatisfiesTable, CommittedProven, Reconciles
    <3>4. MigratedKept'
      BY <2>3, <2>6, <3>3 DEF MigratedKept
    <3> QED BY <2>4, <2>5, <3>2, <3>4 DEF AckInv
  <2>7. CASE records' = NoRecords /\ budget.save > 0
    <3>1. ~(budget.save < MaxSaveFaults)
      BY <2>7, BoundsAssumption DEF OneStoreFault, TypeInv, TypeOK
    <3>2. \A u \in Urls : CommittedProven(store[u]) => ~(todo[u] > 0)
      BY <1>1, <1>3, <3>1 DEF AckInv, ScrapeView
    <3>3. \A u \in Urls : CommittedProven(store[u]) => todo[u] = 0
      BY <3>2 DEF TypeInv, TypeOK
    <3>4. \A u \in Urls : records'[u].status = "ABSENT" /\ ~records'[u].migrated
      BY <2>7 DEF NoRecords, Absent, Blank
    <3>5. \A u \in Urls : ~AtItem(u)'
      BY <1>1 DEF AtItem
    <3>6. AckedKept' /\ MigratedKept'
      BY <1>1, <2>3, <3>3, <3>4, <3>5 DEF AckedKept, MigratedKept
    <3> QED BY <2>4, <2>5, <3>6 DEF AckInv
  <2> QED BY <2>2, <2>6, <2>7
<1> QED BY <1>1, <1>2, <1>3

\* A run starts, ends or dies; a page has no result; the run is cancelled.
LEMMA AckOutside ==
  ASSUME TypeInv, FlushInv, TableInv, SaveInv, AckInv, TypeOK',
         \/ \E m \in Modes : FilterCommitted(m)
         \/ \E u \in Urls : ScrapeFails(u)
         \/ CancelRun \/ FinalPersist \/ Crash
         \/ UNCHANGED vars
  PROVE  AckInv' /\ AcksGrow
<1>0. /\ budget \in Budgets /\ budget' \in Budgets /\ "save" \in DOMAIN budget
      /\ MaxSaveFaults \in Nat /\ budget.save <= MaxSaveFaults
  BY BoundsAssumption DEF TypeInv, TypeOK, Budgets, SaveInv
<1>1. CASE Crash
  <2>1. store' = store /\ mode' = "none"
    BY <1>1 DEF Crash
  <2> QED BY <2>1, AckSilent
<1>2. CASE FinalPersist
  <2>1. /\ Save(records, {}) /\ mode' = "none" /\ InSession
        /\ mode \in {"resume", "detached"}
    BY <1>2 DEF FinalPersist, InSession, TableInv, RunMode
  <2>2. AckInv'
    BY <2>1 DEF AckInv, ScrapeView, AckedKept, ItemOpen, MigratedKept
  <2>3. CASE mode = "detached"
    BY <2>1, <2>3, AckSilent DEF Save
  <2>4. CASE mode = "resume"
    <3>1. \A u \in Urls : HonestIn(lines, u, records[u])
      BY DEF FlushInv, RecordsHonest
    <3>2. \A u \in Urls : CommittedProven(store[u]) =>
            CommittedProven(records[u]) \/ records[u].status = "ABSENT"
      BY <2>1, <2>4 DEF AckInv, AckedKept
    <3>3. \A u \in Urls : records[u].migrated => CommittedProven(store[u])
      BY <2>1, <2>4 DEF AckInv, MigratedKept
    <3>4. AcksGrow
      BY <2>1, <3>1, <3>2, <3>3, AckSave DEF TypeInv, TypeOK
    <3> QED BY <2>2, <3>4
  <2> QED BY <2>1, <2>3, <2>4
<1>3. ASSUME NEW m \in Modes, FilterCommitted(m) PROVE AckInv' /\ AcksGrow
  <2>1. store' = store /\ mode' = m /\ pc' = "scrape"
    BY <1>3 DEF FilterCommitted, disk
  <2>2. CASE m # "resume"
    BY <2>1, <2>2, AckSilent
  <2>3. CASE m = "resume"
    <3>1. PartitionValid(store) = store
      BY DEF PartitionValid, TableInv, StoreTable, StoreSatisfiesTable, TypeInv,
         TypeOK
    <3>2. PICK view : /\ Load(view, {})
                      /\ \A u \in Urls : (todo'[u] = 0) <=> CommittedProven(view[u])
      BY <1>3, <2>3 DEF FilterCommitted
    <3>3. \/ view = store
          \/ Spend({"save"})
      BY <3>1, <3>2 DEF Load
    <3>4. Spend({"save"}) => budget'.save < MaxSaveFaults
      <4> SUFFICES ASSUME Spend({"save"}) PROVE budget'.save < MaxSaveFaults
        OBVIOUS
      <4>1. budget'.save < budget.save
        BY <1>0, SpendBound
      <4>2. budget'.save \in Nat /\ budget.save \in Nat
        BY <1>0 DEF Budgets
      <4> QED BY <1>0, <4>1, <4>2
    <3>5. \A u \in Urls : CommittedProven(store[u])' <=> CommittedProven(store[u])
      BY <2>1 DEF CommittedProven, Reconciles
    <3>6. view = store =>
            \A u \in Urls : CommittedProven(store[u]) => ~(todo'[u] > 0)
      BY <3>2 DEF TypeOK
    <3>7. ScrapeView'
      BY <3>3, <3>4, <3>5, <3>6 DEF ScrapeView
    <3>8. AckedKept' /\ ItemOpen' /\ MigratedKept' /\ AcksGrow
      BY <2>1 DEF AckedKept, ItemOpen, MigratedKept, AcksGrow, InSession, AtItem
    <3> QED BY <3>7, <3>8 DEF AckInv
  <2> QED BY <2>2, <2>3
<1>4. CASE \/ \E u \in Urls : ScrapeFails(u)
           \/ CancelRun
           \/ UNCHANGED vars
  <2>1. /\ UNCHANGED <<store, records, mode, pc, cur>>
        /\ budget' = budget \/ \E f : Spend(f)
        /\ \A u \in Urls : todo'[u] = todo[u] \/ todo'[u] = 0
    BY <1>4 DEF ScrapeFails, CancelRun, vars, disk, session, TypeInv, TypeOK
  <2>2. budget'.save <= budget.save /\ budget.save \in Nat /\ budget'.save \in Nat
    BY <1>0, <2>1, SpendBound DEF Budgets
  <2>3. \A u \in Urls : CommittedProven(store[u])' <=> CommittedProven(store[u])
    BY <2>1 DEF CommittedProven, Reconciles
  <2>4. \A u \in Urls : CommittedProven(records[u])' <=> CommittedProven(records[u])
    BY <2>1 DEF CommittedProven, Reconciles
  <2>5. \A u \in Urls : todo'[u] > 0 => todo[u] > 0
    BY <2>1
  <2>6. ScrapeView'
    BY <1>0, <2>1, <2>2, <2>3, <2>5 DEF AckInv, ScrapeView
  <2>7. \A u \in Urls : AtItem(u)' <=> AtItem(u)
    BY <2>1 DEF AtItem
  <2>8. AckedKept' /\ ItemOpen' /\ MigratedKept'
    BY <2>1, <2>3, <2>4, <2>7 DEF AckInv, AckedKept, ItemOpen, MigratedKept,
       InSession
  <2>9. AcksGrow
    BY <2>1 DEF AcksGrow
  <2> QED BY <2>6, <2>8, <2>9 DEF AckInv
<1> QED BY <1>1, <1>2, <1>3, <1>4

\* Every step keeps the acknowledgements and grants only earned ones.
LEMMA AckStep ==
  ASSUME OneStoreFault, TypeInv, FlushInv, TableInv, SaveInv, AckInv, FlushInv',
         [Next]_vars
  PROVE  AckInv' /\ AcksGrow
<1>0. TypeOK'
  BY NextType
<1>1. ASSUME NEW u \in Urls, NEW h \in Hashes,
             ProcessItem(u, h) \/ InvalidItem(u, h)
      PROVE  AckInv' /\ AcksGrow
  BY <1>0, <1>1, AckItem
<1>2. CASE WriterGone \/ AppendFails \/ CheckpointExported \/ CommitPoint
  BY <1>0, <1>2, AckCurrent
<1>3. CASE OpenSession
  BY <1>0, <1>3, AckOpen
<1>4. CASE AppendLine
  <2>1. /\ UNCHANGED <<store, records, mode, todo, cur>> /\ InSession
        /\ pc = "append" /\ pc' = "flushed"
    BY <1>4 DEF AppendLine, session, InSession
  <2>2. \A u \in Urls : AtItem(u)' => AtItem(u)
    BY <2>1 DEF AtItem
  <2> QED BY <1>0, <2>1, <2>2, AckStutter
<1>5. CASE \/ \E m \in Modes : FilterCommitted(m)
           \/ \E u \in Urls : ScrapeFails(u)
           \/ CancelRun \/ FinalPersist \/ Crash
           \/ UNCHANGED vars
  BY <1>0, <1>5, AckOutside
<1> QED BY <1>1, <1>2, <1>3, <1>4, <1>5 DEF Next, Run

\* A step changes the lines of the file only by the append of the current item,
\* which leaves the store alone.
LEMMA LinesStep ==
  ASSUME TypeInv, [Next]_vars
  PROVE  \/ lines' = lines
         \/ /\ store' = store
            /\ \E u \in Urls, h \in Hashes :
                 lines' = [lines EXCEPT ![u][h] = @ + 1]
<1>1. CASE AppendLine
  <2>1. cur.url \in Urls /\ cur.hash \in Hashes
    BY <1>1 DEF AppendLine, TypeInv, CurOK, Items
  <2> QED BY <1>1, <2>1 DEF AppendLine
<1>2. CASE ~AppendLine
  BY <1>2 DEF Next, Run, OpenSession, ProcessItem, SkipDuplicate, SkipCommitted,
     PromoteFromFlushProof, StartDrive, InvalidItem, WriterGone, AppendFails,
     ExportError, CheckpointExported, CommitPoint, FinalPersist, FilterCommitted,
     ScrapeFails, CancelRun, Crash, vars, disk
<1> QED BY <1>1, <1>2

\* The export phase implements its promise: across runs, crashes, failing items
\* and one failing load or save, the output only grows, a page becomes skippable
\* only once a line of it is in the output, and it stays skippable.
THEOREM ImplementsDurableExport ==
  ASSUME DistinctContents, WholeLinesOnly, NoFreshRuns, OneStoreFault
  PROVE  Spec => RefinesDurableExport
<1> DEFINE W == {w \in Urls \X Hashes : lines[w[1]][w[2]] > 0}
           A == {u \in Urls : CommittedProven(store[u])}
           Inv == TypeInv /\ FlushInv /\ TableInv /\ SaveInv /\ AckInv
<1>1. Init => Inv
  <2> SUFFICES ASSUME Init PROVE Inv
    OBVIOUS
  <2>1. SaveInv /\ AckInv
    BY BoundsAssumption DEF Init, SaveInv, Synced, InSession, AckInv, ScrapeView,
       AckedKept, ItemOpen, MigratedKept
  <2> QED BY <2>1, FlushInit, TableInit
<1>2. Inv /\ [Next]_vars => Inv'
  BY FlushStep, TableStep, SaveStep, AckStep
<1>3. Init => DE!Init
  BY DEF Init, DE!Init
<1>4. ASSUME Inv, [Next]_vars
      PROVE  [DE!Next]_<<W, A>>
  <2>1. AcksGrow
    BY <1>4, FlushStep, AckStep
  <2>2. lines \in [Urls -> [Hashes -> Nat]] /\ lines' \in [Urls -> [Hashes -> Nat]]
    BY <1>4, NextType DEF TypeInv, TypeOK
  <2>3. A' = {u \in Urls : CommittedProven(store'[u])}
    BY DEF CommittedProven, Reconciles
  <2>4. CASE lines' = lines
    <3> DEFINE S == A' \ A
    <3>1. W' = W
      BY <2>4
    <3>2. A' = A \cup S /\ S \in SUBSET Urls
      BY <2>1, <2>3 DEF AcksGrow
    <3>3. \A u \in S : \E h \in Hashes : <<u, h>> \in W
      BY <2>1, <2>3 DEF AcksGrow
    <3> HIDE DEF S, A, W
    <3>4. DE!Acknowledge(S)
      BY <3>1, <3>2, <3>3 DEF DE!Acknowledge, A, W
    <3> QED BY <3>2, <3>4 DEF DE!Next
  <2>5. ASSUME store' = store, NEW u \in Urls, NEW h \in Hashes,
               lines' = [lines EXCEPT ![u][h] = @ + 1]
        PROVE  [DE!Next]_<<W, A>>
    <3>1. \A v \in Urls, k \in Hashes :
            lines'[v][k] > 0 <=> (lines[v][k] > 0 \/ (v = u /\ k = h))
      BY <2>2, <2>5
    <3>2. W' = W \cup {<<u, h>>}
      BY <3>1
    <3>3. A' = A
      BY <2>3, <2>5
    <3>4. DE!Write(u, h)
      BY <3>2, <3>3 DEF DE!Write
    <3> QED BY <3>4 DEF DE!Next
  <2>6. \/ lines' = lines
        \/ /\ store' = store
           /\ \E u \in Urls, h \in Hashes : lines' = [lines EXCEPT ![u][h] = @ + 1]
    BY <1>4, LinesStep
  <2> QED BY <2>4, <2>5, <2>6
<1>5. Inv /\ [Next]_vars => [DE!Next]_<<W, A>>
  BY <1>4
<1> QED BY <1>1, <1>2, <1>3, <1>5, PTL DEF Spec, RefinesDurableExport, DE!Spec
=============================================================================
