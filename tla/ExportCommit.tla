---------------------------- MODULE ExportCommit ----------------------------
(***************************************************************************)
(* The export phase of one webfang process at a time over one output file  *)
(* and one record store: the resume gate, the D3 commit-point protocol     *)
(* (append, flush, EXPORTED checkpoint, COMMITTED), flush-proof promotion, *)
(* honest failure recording, cancellation, and process death anywhere.     *)
(*                                                                         *)
(* On disk: the record store and the JSONL file (whole lines, plus a torn  *)
(* tail).  Volatile: everything the process holds; a crash erases it.      *)
(* A store save is one step: it is a rename of a complete temporary file   *)
(* that no reader ever opens.  One process runs at a time here, so the     *)
(* updated_at comparison of the merge always favours it; StoreMerge models *)
(* the merge of concurrent processes.                                      *)
(***************************************************************************)
EXTENDS RecordTransition, FiniteSets

CONSTANTS
  Urls,          \* canonical keys of the pages of one domain
  PageContents,  \* [Urls -> SUBSET Hashes]: what each page may serve
  Modes,         \* kinds of run: subset of {"resume", "fresh", "detached"}
  TornTails,     \* how a write may be cut: subset of {"partial", "unterminated"}
  Copies,        \* bound: items of one key in the results of one run
  MaxCrashes,    \* bound: process deaths and cancellations
  MaxItemFaults, \* bound: items that fail (scrape, validation, write)
  MaxSaveFaults, \* bound: store loads and saves that fail
  MaxReadFaults, \* bound: sessions that cannot read the output file
  MaxReruns      \* bound: runs that are not resume runs

ASSUME PageContentsAssumption == PageContents \in [Urls -> SUBSET Hashes]
ASSUME CopiesAssumption == Copies \in Nat \ {0}
ASSUME BoundsAssumption == /\ MaxCrashes \in Nat /\ MaxItemFaults \in Nat
                           /\ MaxSaveFaults \in Nat /\ MaxReadFaults \in Nat
                           /\ MaxReruns \in Nat

VARIABLES
  store,    \* the record store on disk
  lines,    \* lines[u][h]: newline-terminated lines of page u with checksum h
  tail,     \* bytes after the last newline of the file
  pc,       \* where the process is; "idle" when none runs
  mode,     \* resume: --resume; fresh: a store without resume; detached: no store
  records,  \* CommitSession.records
  index,    \* CommitSession.hash_index
  driven,   \* CommitSession.driven
  todo,     \* scraped results not processed yet, per page
  cur,      \* the item between its append and its commit point
  writer,   \* the exporter's lazily opened JsonlSession
  cancel,   \* the run's cancellation token
  budget    \* what the environment may still do

disk == <<store, lines, tail>>
session == <<mode, records, index, driven, writer>>
vars == <<store, lines, tail, pc, mode, records, index, driven, todo, cur,
          writer, cancel, budget>>

NoItem == [url |-> "none", hash |-> NoHash]
Items == [url : Urls, hash : Hashes]
NoTail == [kind |-> "none", url |-> "none", hash |-> NoHash]
NoRecords == [u \in Urls |-> Absent]
NoTodo == [u \in Urls |-> 0]

\* A step takes from the bounds of the faults that happen in it.
Spend(faults) ==
  /\ \A f \in faults : budget[f] > 0
  /\ budget' = [f \in DOMAIN budget |-> IF f \in faults THEN budget[f] - 1
                                                       ELSE budget[f]]

Init ==
  /\ store \in {[u \in Urls |-> IF u \in M THEN MigratedV1 ELSE Absent] :
                  M \in SUBSET Urls}
  /\ lines = [u \in Urls |-> [h \in Hashes |-> 0]]
  /\ tail = NoTail
  /\ pc = "idle"
  /\ mode = "none"
  /\ records = NoRecords
  /\ index = {}
  /\ driven = {}
  /\ todo = NoTodo
  /\ cur = NoItem
  /\ writer = "unopened"
  /\ cancel = FALSE
  /\ budget = [crash |-> MaxCrashes, item |-> MaxItemFaults,
               save |-> MaxSaveFaults, read |-> MaxReadFaults,
               rerun |-> MaxReruns]

-----------------------------------------------------------------------------
(* Reading and writing the disk.                                           *)

\* load_preserving: the valid records, or an empty view when the load fails.
Load(view, faults) == \/ view = PartitionValid(store) /\ Spend(faults)
                      \/ view = NoRecords /\ Spend(faults \cup {"save"})

\* merge_persist: RecordStore::update re-reads the store (quarantine included)
\* and lays every record of the session over it.
Merged(mine) ==
  [u \in Urls |-> IF mine[u].status # "ABSENT" THEN mine[u]
                                             ELSE PartitionValid(store)[u]]

\* save_notifying, save_quiet, final_persist: without a store nothing is
\* saved; a failed save is logged and the session goes on.
Save(mine, faults) ==
  \/ /\ mode # "detached"
     /\ store' = Merged(mine)
     /\ Spend(faults)
  \/ /\ mode # "detached"
     /\ UNCHANGED store
     /\ Spend(faults \cup {"save"})
  \/ /\ mode = "detached"
     /\ UNCHANGED store
     /\ Spend(faults)

\* Fault to seed in ChecksumIndex: a partial last line counts as a line.
ChecksumIndexOfAnyTail ==
  {h \in Hashes : \E u \in Urls : lines[u][h] > 0}
    \cup {h \in Hashes : tail.hash = h}

\* read_jsonl_checksum_index of a file that can be read: every line that parses,
\* the last one too when only its newline is missing.
ChecksumIndex ==
  {h \in Hashes : \E u \in Urls : lines[u][h] > 0}
    \cup {h \in Hashes : tail.kind = "unterminated" /\ tail.hash = h}

\* build_content_hash_index: an output that cannot be opened or read is logged,
\* and the session goes on with an empty index.
BuildContentHashIndex(faults) == IF "read" \in faults THEN {} ELSE ChecksumIndex

\* JsonlExporter::session, JsonlSession::open: the first append of a run
\* truncates the torn tail before it spawns the writer.
OpenWriter == IF writer = "unopened"
              THEN writer' = "open" /\ tail' = NoTail
              ELSE UNCHANGED <<writer, tail>>

AfterItem == IF cancel THEN "final" ELSE "items"
-----------------------------------------------------------------------------
(* A run starts: the resume gate filters the URLs, the pages are scraped,  *)
(* the commit session opens.                                               *)

\* apply_resume_mode and filter_committed.
FilterCommitted(m) ==
  /\ pc = "idle"
  /\ m \in Modes
  /\ \E view \in {PartitionValid(store), NoRecords} :
       /\ IF m = "resume" THEN Load(view, {})
          ELSE view = NoRecords /\ Spend({"rerun"})
       /\ todo' \in [Urls -> 0..Copies]
       /\ \A u \in Urls : (todo'[u] = 0) <=> CommittedProven(view[u])
  /\ mode' = m
  /\ pc' = "scrape"
  /\ UNCHANGED <<disk, records, index, driven, cur, writer, cancel>>

\* A page that yields no result this run.
ScrapeFails(u) ==
  /\ pc = "scrape"
  /\ todo[u] > 0
  /\ Spend({"item"})
  /\ todo' = [todo EXCEPT ![u] = 0]
  /\ UNCHANGED <<disk, session, pc, cur, cancel>>

\* CommitSession::open
OpenSession ==
  /\ pc = "scrape"
  /\ \E faults \in {{}, {"read"}} :
       /\ IF mode = "detached" THEN records' = NoRecords /\ Spend(faults)
                               ELSE Load(records', faults)
       /\ index' = BuildContentHashIndex(faults)
  /\ driven' = {}
  /\ writer' = "unopened"
  /\ pc' = "items"
  /\ UNCHANGED <<disk, mode, todo, cur, cancel>>
-----------------------------------------------------------------------------
(* One scraped result: process_single_item.                                *)

\* The next result is page u with content h, and the run has not claimed the
\* pair yet (claim_append).
Claim(u, h) ==
  /\ pc = "items"
  /\ todo[u] > 0
  /\ h \in PageContents[u]
  /\ <<u, h>> \notin driven
  /\ driven' = driven \cup {<<u, h>>}
  /\ todo' = [todo EXCEPT ![u] = @ - 1]

\* Fault to seed in Decision: a flushed line without a record is not looked for.
DecisionByRecordOnly(u, h) ==
  IF mode # "resume" THEN "drive"
  ELSE IF CommittedProven(records[u]) THEN "skip"
  ELSE IF records[u].hash \in index THEN "promote" ELSE "drive"

\* CommitSession::decide: without a record the hash of the item is looked up in
\* the flushed lines, with one only the hash that the record keeps.
Decision(u, h) ==
  LET proof == IF records[u].status = "ABSENT" THEN h ELSE records[u].hash IN
  IF mode # "resume" THEN "drive"
  ELSE IF CommittedProven(records[u]) THEN "skip"
  ELSE IF proof \in index THEN "promote" ELSE "drive"

\* A second identical item of the run: claim_append fails.
SkipDuplicate(u, h) ==
  /\ pc = "items"
  /\ todo[u] > 0
  /\ <<u, h>> \in driven
  /\ todo' = [todo EXCEPT ![u] = @ - 1]
  /\ UNCHANGED <<disk, session, pc, cur, cancel, budget>>

\* ItemDecision::AlreadyCommitted
SkipCommitted(u, h) ==
  /\ Claim(u, h)
  /\ Decision(u, h) = "skip"
  /\ UNCHANGED <<disk, pc, mode, records, index, cur, writer, cancel, budget>>

\* promote_from_flush_proof up to its EXPORTED save: nothing is appended.
PromoteFromFlushProof(u, h) ==
  /\ Claim(u, h)
  /\ Decision(u, h) = "promote"
  /\ records' = [records EXCEPT ![u] = ExportFlushed(FlushProofRecord(@), h)]
  /\ Save(records', {})
  /\ cur' = [url |-> u, hash |-> h]
  /\ pc' = "exported"
  /\ UNCHANGED <<lines, tail, mode, index, writer, cancel>>

\* fail_item; without a store nothing is recorded.
FailItem(u, faults) ==
  /\ records' =
       IF mode = "detached" THEN records
       ELSE [records EXCEPT ![u] = FailedRecord(@)]
  /\ Save(records', faults)

\* The item does not validate: recorded, and the loop goes on without looking
\* at the cancellation token.
InvalidItem(u, h) ==
  /\ Claim(u, h)
  /\ Decision(u, h) = "drive"
  /\ FailItem(u, {"item"})
  /\ UNCHANGED <<lines, tail, pc, mode, index, cur, writer, cancel>>

\* DriveAndCommit: the exporter session opens on first use, the line is queued.
StartDrive(u, h) ==
  /\ Claim(u, h)
  /\ Decision(u, h) = "drive"
  /\ OpenWriter
  /\ cur' = [url |-> u, hash |-> h]
  /\ pc' = "append"
  /\ UNCHANGED <<store, lines, mode, records, index, cancel, budget>>

\* The writer wrote the whole line and acknowledged the flush.
AppendLine ==
  /\ pc = "append"
  /\ writer = "open"
  /\ lines' = [lines EXCEPT ![cur.url][cur.hash] = @ + 1]
  /\ pc' = "flushed"
  /\ UNCHANGED <<store, tail, session, todo, cur, cancel, budget>>

\* What a cut write leaves after the last newline.
TornBy(item) == {NoTail} \cup
  {[kind |-> k, url |-> item.url, hash |-> item.hash] : k \in TornTails}

\* The export returns an error: the item is recorded as failed.
ExportError(faults) ==
  /\ FailItem(cur.url, faults)
  /\ writer' = "dead"
  /\ cur' = NoItem
  /\ pc' = AfterItem
  /\ UNCHANGED <<lines, mode, index, driven, todo, cancel>>

\* write_all fails part way: the writer thread exits.
AppendFails ==
  /\ pc = "append"
  /\ writer = "open"
  /\ tail' \in TornBy(cur)
  /\ ExportError({"item"})

\* The writer exited on an earlier item of the run.
WriterGone ==
  /\ pc = "append"
  /\ writer = "dead"
  /\ UNCHANGED tail
  /\ ExportError({})

\* commit_item up to its EXPORTED save.
CheckpointExported ==
  /\ pc = "flushed"
  /\ records' = [records EXCEPT ![cur.url] = ExportedRecord(@, cur.hash)]
  /\ Save(records', {})
  /\ pc' = "exported"
  /\ UNCHANGED <<lines, tail, mode, index, driven, todo, cur, writer, cancel>>

\* The commit point: swap_to_committed, then the COMMITTED save.  A swap the
\* machine rejects saves nothing.
CommitPoint ==
  /\ pc = "exported"
  /\ records' = SwapToCommitted(records, cur.url)
  /\ IF CanCommit(records[cur.url]) THEN Save(records', {})
                                    ELSE UNCHANGED <<store, budget>>
  /\ cur' = NoItem
  /\ pc' = AfterItem
  /\ UNCHANGED <<lines, tail, mode, index, driven, todo, writer, cancel>>

\* final_persist, the end of process_results; the exporter is dropped.
FinalPersist ==
  /\ \/ pc = "items" /\ todo = NoTodo
     \/ pc = "final"
  /\ Save(records, {})
  /\ pc' = "idle"
  /\ mode' = "none" /\ records' = NoRecords /\ index' = {} /\ driven' = {}
  /\ writer' = "unopened" /\ todo' = NoTodo /\ cur' = NoItem
  /\ cancel' = FALSE
  /\ UNCHANGED <<lines, tail>>
-----------------------------------------------------------------------------
(* The environment.                                                        *)

\* SIGINT or SIGTERM: the run's token is cancelled.
CancelRun ==
  /\ pc # "idle"
  /\ ~cancel
  /\ Spend({"crash"})
  /\ cancel' = TRUE
  /\ UNCHANGED <<disk, session, pc, todo, cur>>

\* SIGKILL.  In the middle of an append part of the line may be on disk.
Crash ==
  /\ pc # "idle"
  /\ Spend({"crash"})
  /\ IF pc = "append" /\ writer = "open" THEN tail' \in TornBy(cur)
                                         ELSE UNCHANGED tail
  /\ pc' = "idle"
  /\ mode' = "none" /\ records' = NoRecords /\ index' = {} /\ driven' = {}
  /\ writer' = "unopened" /\ todo' = NoTodo /\ cur' = NoItem
  /\ cancel' = FALSE
  /\ UNCHANGED <<store, lines>>
-----------------------------------------------------------------------------
ProcessItem(u, h) == \/ SkipDuplicate(u, h)
                     \/ SkipCommitted(u, h)
                     \/ PromoteFromFlushProof(u, h)
                     \/ StartDrive(u, h)

Run == \/ OpenSession
       \/ \E u \in Urls, h \in Hashes : ProcessItem(u, h)
       \/ AppendLine
       \/ WriterGone
       \/ CheckpointExported
       \/ CommitPoint
       \/ FinalPersist

Next == \/ Run
        \/ \E m \in Modes : FilterCommitted(m)
        \/ \E u \in Urls : ScrapeFails(u)
        \/ \E u \in Urls, h \in Hashes : InvalidItem(u, h)
        \/ AppendFails
        \/ CancelRun
        \/ Crash

Spec == Init /\ [][Next]_vars

\* A started run is scheduled until it ends, and the operator keeps starting
\* resume runs.
Fairness == WF_vars(Run) /\ WF_vars(FilterCommitted("resume"))

FairSpec == Spec /\ Fairness
-----------------------------------------------------------------------------
(* Properties.                                                             *)

TypeOK ==
  /\ store \in [Urls -> RawRecord]
  /\ lines \in [Urls -> [Hashes -> Nat]]
  /\ tail \in {NoTail} \cup [kind : TornTails, url : Urls, hash : Hashes]
  /\ pc \in {"idle", "scrape", "items", "append", "flushed", "exported", "final"}
  /\ mode \in Modes \cup {"none"}
  /\ records \in [Urls -> RawRecord]
  /\ index \in SUBSET Hashes
  /\ driven \in SUBSET (Urls \X Hashes)
  /\ todo \in [Urls -> 0..Copies]
  /\ cur \in Items \cup {NoItem}
  /\ writer \in {"unopened", "open", "dead"}
  /\ cancel \in BOOLEAN
  /\ budget \in [{"crash", "item", "save", "read", "rerun"} -> Nat]

\* The bytes of a line of page u with content h are in the file, terminated
\* or not.
InOutput(u, h) ==
  \/ lines[u][h] > 0
  \/ tail = [kind |-> "unterminated", url |-> u, hash |-> h]

\* A record the resume gate accepts as COMMITTED names a line that is in the
\* output file: "no record ever claims more than what was durably flushed".
\* (Migrated v1 records make no claim.)
CommittedIsFlushed ==
  \A u \in Urls :
    (CommittedProven(store[u]) /\ ~store[u].migrated)
      => InOutput(u, store[u].hash)

\* No page content is written twice: "no duplicated exports" at any SIGKILL.
NoDuplicateLine == \A u \in Urls, h \in Hashes : lines[u][h] <= 1

\* That holds, over crashes and failing loads and saves, as long as no item has
\* failed, every run was a resume run, and every session could read the output:
\* a line flushed before a crash is proven by nothing else, and a session that
\* goes on with an empty index appends it again.
OnceUnlessFailed ==
  (/\ budget.item = MaxItemFaults
   /\ budget.read = MaxReadFaults
   /\ budget.rerun = MaxReruns) => NoDuplicateLine

\* Every record on disk passes the invariant table.
StoreSatisfiesTable == \A u \in Urls : SatisfiesTable(store[u])

\* While saves succeed the EXPORTED checkpoint is durable before the commit
\* point: a record that becomes COMMITTED on disk was EXPORTED there with the
\* same claim.
ExportedBeforeCommitted ==
  [][\A u \in Urls :
       (/\ budget'.save = MaxSaveFaults
        /\ store'[u].status = "COMMITTED" /\ store[u].status # "COMMITTED")
         => (store[u].status = "EXPORTED" /\ store[u].hash = store'[u].hash)]_vars

\* The record of u that no run can commit: a session with an empty index drove
\* the EXPORTED page again and failed, and the later ones, which find its line,
\* promote the record with the error it keeps and are refused the commit.
StuckExported(u) ==
  /\ budget.read < MaxReadFaults
  /\ store[u].status = "EXPORTED" /\ store[u].err
  /\ lines[u][store[u].hash] > 0

\* Every page is eventually committed for good, once crashes and faults stop; only
\* a session that could not read the output may leave one stuck.
EventuallyCommitted ==
  <>[](\A u \in Urls : CommittedProven(store[u]) \/ StuckExported(u))

\* The protocol implements the promise of DurableExport: the output only grows,
\* a page becomes skippable only once a line of it is in the output, and it
\* stays skippable.
DE == INSTANCE DurableExport WITH
        written <- {w \in Urls \X Hashes : lines[w[1]][w[2]] > 0},
        acked   <- {u \in Urls : CommittedProven(store[u])}

RefinesDurableExport == DE!Spec
=============================================================================
