----------------------- MODULE RecordTransitionProofs -----------------------
(***************************************************************************)
(* Facts about the record operators, used by the proofs of the protocols.  *)
(***************************************************************************)
EXTENDS RecordTransition, TLAPS

\* A fresh, failed, promoted or checkpointed record is a record.
LEMMA FreshIsRecord ==
  /\ Absent \in RawRecord
  /\ FreshDiscovered \in RawRecord
  /\ MigratedV1 \in RawRecord
BY DEF Absent, FreshDiscovered, MigratedV1, Blank, RawRecord, PageStatus,
   PreExport

\* drive_to_processed yields a PROCESSED record, not a migrated one unless it
\* was given one.
LEMMA DriveIsRecord ==
  ASSUME NEW r \in RawRecord
  PROVE  /\ DriveToProcessed(r) \in RawRecord
         /\ DriveToProcessed(r).migrated => (r.migrated /\ r.status \in PreExport)
BY DEF DriveToProcessed, Blank, RawRecord, PageStatus, PreExport

\* What commit_item checkpoints: an EXPORTED claim of this run on the hash.
LEMMA ExportedRecordFacts ==
  ASSUME NEW r \in RawRecord, NEW h \in Hashes
  PROVE  /\ ExportedRecord(r, h) \in RawRecord
         /\ ExportedRecord(r, h).status = "EXPORTED"
         /\ ExportedRecord(r, h).hash = h
         /\ ExportedRecord(r, h).out
         /\ ~ExportedRecord(r, h).migrated
<1>1. DriveToProcessed(r).attempts + 1 \in Nat
  BY DriveIsRecord DEF RawRecord
<1> QED BY <1>1 DEF ExportedRecord, RawRecord, PageStatus, PreExport

\* fail_item keeps the claim and the status of a record.
LEMMA FailedRecordFacts ==
  ASSUME NEW r \in RawRecord
  PROVE  /\ FailedRecord(r) \in RawRecord
         /\ r.status # "ABSENT" =>
              /\ FailedRecord(r).status = r.status
              /\ FailedRecord(r).hash = r.hash
              /\ FailedRecord(r).out = r.out
              /\ FailedRecord(r).migrated = r.migrated
         /\ r.status = "ABSENT" =>
              /\ FailedRecord(r).status = "DISCOVERED"
              /\ FailedRecord(r).hash = NoHash
              /\ ~FailedRecord(r).migrated
<1>1. CASE r.status = "ABSENT"
  <2>1. FailedRecord(r) = [status |-> "DISCOVERED", hash |-> NoHash,
                           out |-> FALSE, err |-> TRUE, attempts |-> 1,
                           migrated |-> FALSE]
    BY <1>1 DEF FailedRecord, FreshDiscovered, Blank
  <2> QED BY <1>1, <2>1 DEF RawRecord, PageStatus, PreExport
<1>2. CASE r.status # "ABSENT"
  <2>1. FailedRecord(r) = [status |-> r.status, hash |-> r.hash,
                           out |-> r.out, err |-> TRUE,
                           attempts |-> r.attempts + 1,
                           migrated |-> r.migrated]
    BY <1>2 DEF FailedRecord
  <2>2. r.attempts + 1 \in Nat
    BY DEF RawRecord
  <2> QED BY <1>2, <2>1, <2>2 DEF RawRecord
<1> QED BY <1>1, <1>2

\* A promotion yields an EXPORTED record: the given one when it was EXPORTED
\* and valid, a claim on the fresh hash when it was not exported yet.
LEMMA ExportFlushedFacts ==
  ASSUME NEW r \in RawRecord, NEW h \in Hashes
  PROVE  LET q == ExportFlushed(FlushProofRecord(r), h) IN
         /\ q \in RawRecord
         /\ Reconciles(r, "EXPORTED") => q = r
         /\ r.status = "ABSENT" =>
              /\ q.status = "EXPORTED" /\ q.hash = h /\ q.out /\ ~q.migrated
<1> DEFINE f == FlushProofRecord(r)
           p == DriveToProcessed(f)
<1>1. f \in RawRecord
  BY FreshIsRecord DEF FlushProofRecord
<1>2. p \in RawRecord /\ (p.migrated => f.migrated /\ f.status \in PreExport)
  BY <1>1, DriveIsRecord
<1>3. p.attempts + 1 \in Nat
  BY <1>2 DEF RawRecord
<1>4. ExportFlushed(f, h) =
        IF f.status = "EXPORTED"
        THEN IF Reconciles(f, "EXPORTED") THEN f
             ELSE [status |-> "EXPORTED", hash |-> h, out |-> p.out,
                   err |-> p.err, attempts |-> p.attempts,
                   migrated |-> p.migrated]
        ELSE [status |-> "EXPORTED", hash |-> h, out |-> TRUE, err |-> FALSE,
              attempts |-> p.attempts + 1, migrated |-> p.migrated]
  BY DEF ExportFlushed
<1>5. ExportFlushed(f, h) \in RawRecord
  <2> HIDE DEF f, p
  <2> QED BY <1>1, <1>2, <1>3, <1>4 DEF RawRecord, PageStatus, PreExport
<1>6. Reconciles(r, "EXPORTED") => ExportFlushed(f, h) = r
  BY <1>4 DEF FlushProofRecord, Reconciles
<1>7. ASSUME r.status = "ABSENT"
      PROVE  /\ ExportFlushed(f, h).status = "EXPORTED"
             /\ ExportFlushed(f, h).hash = h
             /\ ExportFlushed(f, h).out
             /\ ~ExportFlushed(f, h).migrated
  <2>1. f.status = "DISCOVERED" /\ ~f.migrated
    BY <1>7 DEF FlushProofRecord, FreshDiscovered, Blank
  <2> HIDE DEF f, p
  <2> QED BY <1>2, <1>4, <2>1
<1> QED BY <1>5, <1>6, <1>7

\* A commit moves nothing but the status.
LEMMA CommittedFacts ==
  ASSUME NEW r \in RawRecord
  PROVE  /\ Committed(r) \in RawRecord
         /\ Committed(r).status = "COMMITTED"
         /\ Committed(r).hash = r.hash
         /\ Committed(r).out = r.out
         /\ Committed(r).migrated = r.migrated
BY DEF Committed, RawRecord, PageStatus

\* The two renderings of the invariant table agree: a record is quarantined at
\* load exactly when its typed reconciliation at its own status fails.
LEMMA TablesAgree ==
  ASSUME NEW r \in RawRecord
  PROVE  Reconciles(r, r.status) <=> SatisfiesTable(r)
BY DEF Reconciles, SatisfiesTable

\* The records the commit session makes pass the table when the record they
\* are made from does.  fail_item needs more: the record must not be proven
\* COMMITTED, or the error it adds breaks the table.
LEMMA RecordTables ==
  ASSUME NEW r \in RawRecord, NEW h \in Hashes, SatisfiesTable(r)
  PROVE  /\ SatisfiesTable(ExportedRecord(r, h))
         /\ SatisfiesTable(ExportFlushed(FlushProofRecord(r), h))
         /\ ~CommittedProven(r) => SatisfiesTable(FailedRecord(r))
<1>0. h # NoHash
  BY NoHashAssumption
<1>1. SatisfiesTable(ExportedRecord(r, h))
  BY <1>0 DEF ExportedRecord, SatisfiesTable
<1>2. SatisfiesTable(ExportFlushed(FlushProofRecord(r), h))
  BY <1>0 DEF ExportFlushed, FlushProofRecord, FreshDiscovered, Blank,
     SatisfiesTable, Reconciles
<1>3. ASSUME ~CommittedProven(r) PROVE SatisfiesTable(FailedRecord(r))
  BY <1>3 DEF CommittedProven, Reconciles, SatisfiesTable, FailedRecord,
     FreshDiscovered, Blank, RawRecord
<1> QED BY <1>1, <1>2, <1>3
=============================================================================
