-------------------------- MODULE RecordTransition --------------------------
(***************************************************************************)
(* The persisted page record and the rules of its lifecycle: the eight     *)
(* states, the invariant table of persisted records (in the two forms the  *)
(* code has, the load-time quarantine and the typed reconciliation), the   *)
(* drive to PROCESSED and the EXPORTED -> COMMITTED commit-point swap.     *)
(*                                                                         *)
(* A record keeps what those rules read.  `out` and `err` say whether      *)
(* output_location and last_error are present, `migrated` whether run_id   *)
(* is MIGRATED_V1_RUN_ID.  updated_at is not read by any rule here; the    *)
(* module StoreMerge keeps it beside the record.  Identities are valid     *)
(* URLs: the empty-URL rule has no case.                                   *)
(***************************************************************************)
EXTENDS Naturals

CONSTANTS Hashes,   \* content hashes of page payloads
          NoHash    \* content_hash = None

ASSUME NoHashAssumption == NoHash \notin Hashes

PreExport == {"DISCOVERED", "QUEUED", "FETCHING", "FETCHED", "EXTRACTED",
              "PROCESSED"}

PageStatus == PreExport \cup {"EXPORTED", "COMMITTED"}

\* RawRecord, with the extra status ABSENT for "no record under this key".
RawRecord == [status   : PageStatus \cup {"ABSENT"},
              hash     : Hashes \cup {NoHash},
              out      : BOOLEAN,
              err      : BOOLEAN,
              attempts : Nat,
              migrated : BOOLEAN]

\* A record that carries no hash, output or error, and no attempt.
Blank(status) == [status |-> status, hash |-> NoHash, out |-> FALSE,
                  err |-> FALSE, attempts |-> 0, migrated |-> FALSE]

Absent == Blank("ABSENT")

\* RawRecord::new_discovered
FreshDiscovered == Blank("DISCOVERED")

\* The record migrate_v1 writes for one legacy processed URL.
MigratedV1 == [status |-> "COMMITTED", hash |-> NoHash, out |-> FALSE,
               err |-> FALSE, attempts |-> 1, migrated |-> TRUE]

\* record_transition::invariant_violation(r) is None
SatisfiesTable(r) ==
  /\ (r.status \in {"EXPORTED", "COMMITTED"} /\ ~r.migrated)
       => (r.out /\ r.hash # NoHash)
  /\ (r.status = "COMMITTED") => (~r.err /\ r.attempts >= 1)

\* Stateful::<RawRecord, target>::reconcile(r) is Ok
Reconciles(r, target) ==
  /\ r.status = target
  /\ (target \in {"EXPORTED", "COMMITTED"} /\ ~r.migrated)
       => (r.out /\ r.hash # NoHash)
  /\ (target = "COMMITTED") => (~r.err /\ r.attempts >= 1)

\* The resume gate: is_committed_proven, and the first test of decide.
CommittedProven(r) == Reconciles(r, "COMMITTED")

\* partition_valid: what a load keeps of the records on disk.
PartitionValid(recs) ==
  [u \in DOMAIN recs |-> IF SatisfiesTable(recs[u]) THEN recs[u] ELSE Absent]

\* drive_to_processed: a pre-export record walks its chain, a terminal one
\* (StatusMismatch) degrades to a fresh lifecycle.
DriveToProcessed(r) ==
  IF r.status \in PreExport
  THEN [r EXCEPT !.status = "PROCESSED"]
  ELSE Blank("PROCESSED")

\* Stateful::<RawRecord, Exported>::commit: only the status moves.
Committed(r) == [r EXCEPT !.status = "COMMITTED"]

\* try_commit_exported accepts r
CanCommit(r) ==
  /\ Reconciles(r, "EXPORTED")
  /\ SatisfiesTable(Committed(r))

\* swap_to_committed on the slot of u: install the successor or do nothing.
SwapToCommitted(recs, u) ==
  IF CanCommit(recs[u])
  THEN [recs EXCEPT ![u] = Committed(@)]
  ELSE recs
-----------------------------------------------------------------------------
(* What the commit session makes of a record.                             *)

\* Faults to seed in ExportedRecord: the output location is not recorded; the
\* error of an earlier attempt is kept; the checkpoint already says COMMITTED.
ExportedWithoutLocation(r, h) ==
  [status |-> "EXPORTED", hash |-> h, out |-> FALSE, err |-> FALSE,
   attempts |-> DriveToProcessed(r).attempts + 1, migrated |-> FALSE]
ExportedKeepsError(r, h) ==
  [status |-> "EXPORTED", hash |-> h, out |-> TRUE,
   err |-> DriveToProcessed(r).err,
   attempts |-> DriveToProcessed(r).attempts + 1, migrated |-> FALSE]
ExportedAsCommitted(r, h) ==
  [status |-> "COMMITTED", hash |-> h, out |-> TRUE, err |-> FALSE,
   attempts |-> DriveToProcessed(r).attempts + 1, migrated |-> FALSE]

\* The record commit_item checkpoints for a flushed item.  A terminal record of
\* an earlier run is replaced by a fresh lifecycle.
ExportedRecord(r, h) ==
  [status |-> "EXPORTED", hash |-> h, out |-> TRUE, err |-> FALSE,
   attempts |-> DriveToProcessed(r).attempts + 1, migrated |-> FALSE]

\* Fault to seed in ExportFlushed: an EXPORTED record takes the hash of the
\* item at hand too, and loses the claim that was proven.
ExportFlushedTakesFreshHash(r, h) ==
  [status |-> "EXPORTED", hash |-> h, out |-> TRUE, err |-> FALSE,
   attempts |-> r.attempts + 1, migrated |-> r.migrated]

\* drive_to_export_flushed: the EXPORTED record of a proven flush.  A record
\* that is EXPORTED already keeps its own claim; any other takes the hash of
\* the item at hand.
ExportFlushed(r, h) ==
  LET p == DriveToProcessed(r) IN
  IF r.status = "EXPORTED"
  THEN IF Reconciles(r, "EXPORTED") THEN r
       ELSE [status |-> "EXPORTED", hash |-> h, out |-> p.out, err |-> p.err,
             attempts |-> p.attempts, migrated |-> p.migrated]
  ELSE [status |-> "EXPORTED", hash |-> h, out |-> TRUE, err |-> FALSE,
        attempts |-> p.attempts + 1, migrated |-> p.migrated]

\* resolve_flush_proof_record: a flush without a record starts a fresh one.
FlushProofRecord(r) == IF r.status = "ABSENT" THEN FreshDiscovered ELSE r

\* Fault to seed in FailedRecord: the failure invents a status of its own.
FailedRecordAsFailed(r) ==
  [status |-> "FAILED", hash |-> r.hash, out |-> r.out, err |-> TRUE,
   attempts |-> r.attempts + 1, migrated |-> r.migrated]

\* One more attempt and a last_error, on the record at its status.
FailedRecord(r) ==
  LET q == IF r.status = "ABSENT" THEN FreshDiscovered ELSE r IN
  [status |-> q.status, hash |-> q.hash, out |-> q.out, err |-> TRUE,
   attempts |-> q.attempts + 1, migrated |-> q.migrated]
=============================================================================
