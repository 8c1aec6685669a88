------------------------------ MODULE Ingestion ------------------------------
(***************************************************************************)
(* Elastic ingestion: after a scrape, run_elastic_ingestion starts one     *)
(* task per page in a bounded JoinSet.  A task downloads the page again,   *)
(* taking a permit per byte as the body streams in, looks its hash up,     *)
(* cleans it into chunks and saves the resource and every chunk to the     *)
(* sinks: the SQLite database, the JSONL stream, or both behind            *)
(* MultiVectorRepository.  The first failure ends the run and aborts the   *)
(* other tasks.  The database outlives a run; the stream's file is         *)
(* truncated by the next one.                                              *)
(*                                                                         *)
(* pc[u] is the await the task of page u is at; "over" is a task the       *)
(* JoinSet has not reaped yet.  A body is its hash; Blocks gives the       *)
(* lengths of its stream chunks and Chunks the number of text chunks it is *)
(* cleaned into.  Waiters of the semaphore are served in any order.        *)
(*                                                                         *)
(* The bundled SQLite enforces foreign keys.  Left out: titles, the schema *)
(* marker, the stored vectors' bytes, the notes tables, and the pool of    *)
(* connections (its exhaustion is a failing query).                        *)
(***************************************************************************)
EXTENDS Integers, Sequences, FiniteSets, Functions

CONSTANTS
  PageCount,    \* results of the scrape
  Canon,        \* [Pages -> ...]: normalize_url, query and www removed
  Hashes,       \* content hashes
  NoHash,       \* no content yet
  Served,       \* [Pages -> SUBSET Hashes]: what a page may answer
  Blocks,       \* [Hashes -> Seq(Nat)]: lengths of the stream's chunks
  Chunks,       \* [Hashes -> Nat]: chunks after cleaning
  Budget,       \* permits of the semaphore (ram_budget_bytes)
  MaxSize,      \* max_size_bytes
  Concurrency,  \* the budget's elastic tier
  SinkSets,     \* the sets of sinks tried
  MaxRuns,      \* bound: runs
  MaxCrashes,   \* bound: deaths of the process
  MaxFaults     \* bound: failing writes of a sink

Pages == 1..PageCount

ASSUME PageCountAssumption == PageCount \in Nat
ASSUME HashesAssumption == NoHash \notin Hashes /\ Served \in [Pages -> SUBSET Hashes]
ASSUME BlocksAssumption == Blocks \in [Hashes -> Seq(Nat)]
ASSUME ChunksAssumption == Chunks \in [Hashes -> Nat]
ASSUME LimitsAssumption == Budget \in Nat /\ MaxSize \in Nat /\ Concurrency \in Nat \ {0}
ASSUME SinkSetsAssumption == SinkSets \subseteq (SUBSET {"sqlite", "stream"}) \ {{}}
ASSUME BoundsAssumption == MaxRuns \in Nat /\ MaxCrashes \in Nat /\ MaxFaults \in Nat

VARIABLES
  sinks,        \* --elastic, --output-vectors
  embeds,       \* a SemanticCleaner is wired: chunks carry embeddings
  phase,        \* run_elastic_ingestion: not running, running or its result
  next,         \* the next result to spawn a task for
  pc,           \* the await of each page's task
  outcome,      \* the output of a task that is over
  avail,        \* permits in the semaphore
  held,         \* PermitGuard.units_acquired
  got,          \* chunks of the body received
  hash,         \* sha256_hex of the body
  saved,        \* chunks handed to save_chunk
  resources,    \* table resources: url -> content_hash
  rows,         \* table chunks: the ids <<hash, index>>
  lines,        \* the stream file: the ids written in this run
  gaps,         \* history: hashes with a row and a missing chunk at the start
  runs, crashes, faults

db == <<resources, rows>>
config == <<sinks, embeds>>
bounds == <<runs, crashes, faults>>
task == <<pc, outcome, avail, held, got, hash, saved>>
vars == <<config, phase, next, task, db, lines, gaps, bounds>>

Running == {"headers", "stream", "permits", "dedup", "clean", "exists", "insert", "chunk"}
InFlight == {u \in Pages : pc[u] \in Running \cup {"over"}}

ChunkIds(h) == {h} \X (1..Chunks[h])
HasRow(h) == \E u \in Pages : resources[u] = h
Stored(h) == ChunkIds(h) \subseteq rows \cup lines

\* INSERT OR IGNORE INTO chunks: a known id is ignored; a new row needs the
\* resources row its foreign key names, which is looked up by url.
NextChunk(u) == <<hash[u], saved[u] + 1>>
Accepts(u) == NextChunk(u) \in rows \/ resources[u] # NoHash

Init ==
  /\ sinks \in SinkSets /\ embeds \in BOOLEAN
  /\ phase = "idle" /\ next = 1
  /\ pc = [u \in Pages |-> "none"]
  /\ outcome = [u \in Pages |-> "none"]
  /\ avail = Budget
  /\ held = [u \in Pages |-> 0]
  /\ got = [u \in Pages |-> 0]
  /\ hash = [u \in Pages |-> NoHash]
  /\ saved = [u \in Pages |-> 0]
  /\ resources = [u \in Pages |-> NoHash]
  /\ rows = {} /\ lines = {} /\ gaps = {}
  /\ runs = 0 /\ crashes = 0 /\ faults = 0

-----------------------------------------------------------------------------
(* run_elastic_ingestion.                                                  *)

\* A process builds its sinks (File::create truncates), its semaphore and
\* starts on the results.
StartRun ==
  /\ phase # "running" /\ runs < MaxRuns
  /\ phase' = "running" /\ next' = 1 /\ runs' = runs + 1
  /\ pc' = [u \in Pages |-> "none"]
  /\ outcome' = [u \in Pages |-> "none"]
  /\ avail' = Budget
  /\ held' = [u \in Pages |-> 0]
  /\ got' = [u \in Pages |-> 0]
  /\ hash' = [u \in Pages |-> NoHash]
  /\ saved' = [u \in Pages |-> 0]
  /\ lines' = {}
  /\ gaps' = {h \in Hashes : HasRow(h) /\ ~(ChunkIds(h) \subseteq rows)}
  /\ UNCHANGED <<config, db, crashes, faults>>

Spawn ==
  /\ phase = "running" /\ next <= PageCount
  /\ Cardinality(InFlight) < Concurrency
  /\ pc' = [pc EXCEPT ![next] = "headers"]
  /\ next' = next + 1
  /\ UNCHANGED <<config, phase, outcome, avail, held, got, hash, saved, db, lines, gaps, bounds>>

\* What the abort of its task, or the death of the process, leaves of a write
\* under way: it happened or it did not.  Statements run on their own
\* thread, so an abort does not stop them.
Landed(W) ==
  /\ resources' = [u \in Pages |-> IF u \in W /\ pc[u] = "insert" THEN hash[u] ELSE resources[u]]
  /\ rows' = rows \cup {NextChunk(u) : u \in {w \in W : pc[w] = "chunk"}}

Writing ==
  {u \in Pages : /\ "sqlite" \in sinks
                 /\ \/ pc[u] = "insert" /\ resources[u] = NoHash
                    \/ pc[u] = "chunk" /\ saved[u] < Chunks[hash[u]] /\ Accepts(u)}

\* The permits of all the guards.
HeldPermits == FoldFunction(+, 0, held)

\* The JoinSet is dropped: its tasks are aborted and each of their guards gives
\* back what it holds.
AbortAll ==
  /\ pc' = [u \in Pages |-> "none"]
  /\ held' = [u \in Pages |-> 0]
  /\ avail' = avail + HeldPermits
  /\ outcome' = [u \in Pages |-> "none"]
  /\ got' = [u \in Pages |-> 0]
  /\ hash' = [u \in Pages |-> NoHash]
  /\ saved' = [u \in Pages |-> 0]
  /\ \E W \in SUBSET Writing : Landed(W)

\* Fault to seed in IsFailure: a task that never returned is no failure (#1941).
SwallowsPanics(u) == outcome[u] = "error"

\* The completion shapes reap_next turns into an Err.
IsFailure(u) == outcome[u] \in {"error", "panic"}

\* The throttle loop reaps when the set is full, drain_remaining at the end;
\* a failure is returned at once.
Reap(u) ==
  /\ phase = "running" /\ pc[u] = "over"
  /\ next > PageCount \/ Cardinality(InFlight) >= Concurrency
  /\ IF IsFailure(u)
       THEN phase' = "failed" /\ AbortAll
       ELSE /\ pc' = [pc EXCEPT ![u] = "reaped"]
            /\ UNCHANGED <<phase, outcome, avail, held, got, hash, saved, db>>
  /\ UNCHANGED <<config, next, lines, gaps, bounds>>

\* Every task was reaped: Ok(()).
Finish ==
  /\ phase = "running" /\ next > PageCount /\ InFlight = {}
  /\ phase' = "ok"
  /\ UNCHANGED <<config, next, task, db, lines, gaps, bounds>>

\* The process dies.
Crash ==
  /\ phase = "running" /\ crashes < MaxCrashes
  /\ crashes' = crashes + 1
  /\ phase' = "crashed" /\ AbortAll
  /\ UNCHANGED <<config, next, lines, gaps, runs, faults>>

-----------------------------------------------------------------------------
(* ElasticIngestion::run, one page.                                        *)

\* Fault to seed in Release: only a download that ends well gives back.
ReleaseOnSuccess(u, o) ==
  /\ avail' = IF o = "ok" THEN avail + held[u] ELSE avail
  /\ held' = [held EXCEPT ![u] = 0]

\* PermitGuard::drop, on every way out of download.
Release(u, o) ==
  avail' = avail + held[u] /\ held' = [held EXCEPT ![u] = 0]

\* The task returns (or panics) with what it holds released.
Over(u, o) ==
  /\ pc' = [pc EXCEPT ![u] = "over"]
  /\ outcome' = [outcome EXCEPT ![u] = o]
  /\ Release(u, o)

Goto(u, s) == pc' = [pc EXCEPT ![u] = s] /\ UNCHANGED outcome

\* The literal-IP guard, the request under its global timeout, and the
\* Content-Length limit: no permit is held yet.
Headers(u) ==
  /\ pc[u] = "headers"
  /\ \/ Over(u, "error") /\ UNCHANGED hash
     \/ \E h \in Served[u] : /\ hash' = [hash EXCEPT ![u] = h]
                             /\ Goto(u, "stream") /\ UNCHANGED <<avail, held>>
  /\ UNCHANGED <<config, phase, next, got, saved, db, lines, gaps, bounds>>

Received(u, n) == FoldFunction(+, 0, [i \in 1..n |-> Blocks[hash[u]][i]])
NextBlock(u) == Blocks[hash[u]][got[u] + 1]

\* A chunk of the body: over the limit, empty, or to be paid for first.
BlockArrives(u) ==
  /\ pc[u] = "stream" /\ got[u] < Len(Blocks[hash[u]])
  /\ \/ /\ Received(u, got[u] + 1) > MaxSize
        /\ Over(u, "error") /\ got' = [got EXCEPT ![u] = 0]
     \/ /\ Received(u, got[u] + 1) <= MaxSize /\ NextBlock(u) = 0
        /\ got' = [got EXCEPT ![u] = @ + 1] /\ UNCHANGED <<pc, outcome, avail, held>>
     \/ /\ Received(u, got[u] + 1) <= MaxSize /\ NextBlock(u) > 0
        /\ Goto(u, "permits") /\ UNCHANGED <<got, avail, held>>
  /\ UNCHANGED <<config, phase, next, hash, saved, db, lines, gaps, bounds>>

\* The stream fails, or no chunk comes in time (SlowlorisTimeout).
StreamFails(u) ==
  /\ pc[u] = "stream"
  /\ Over(u, "error")
  /\ got' = [got EXCEPT ![u] = 0]
  /\ UNCHANGED <<config, phase, next, hash, saved, db, lines, gaps, bounds>>

\* Fault to seed in AcquirePermits: it takes what is not there.
AcquireWithoutWaiting(u) ==
  /\ pc[u] = "permits"
  /\ avail' = avail - NextBlock(u)
  /\ held' = [held EXCEPT ![u] = @ + NextBlock(u)]
  /\ got' = [got EXCEPT ![u] = @ + 1]
  /\ Goto(u, "stream")
  /\ UNCHANGED <<config, phase, next, hash, saved, db, lines, gaps, bounds>>

\* acquire_many, forget, update_reservation.
AcquirePermits(u) ==
  /\ pc[u] = "permits" /\ NextBlock(u) <= avail
  /\ avail' = avail - NextBlock(u)
  /\ held' = [held EXCEPT ![u] = @ + NextBlock(u)]
  /\ got' = [got EXCEPT ![u] = @ + 1]
  /\ Goto(u, "stream")
  /\ UNCHANGED <<config, phase, next, hash, saved, db, lines, gaps, bounds>>

\* Fault to seed in Inanition: the wait for permits has no timeout.
NoInanition(u) == pc[u] = "permits" /\ FALSE /\ UNCHANGED vars

\* The wait for permits times out: SemaphoreInanition.
Inanition(u) ==
  /\ pc[u] = "permits"
  /\ Over(u, "error")
  /\ got' = [got EXCEPT ![u] = 0]
  /\ UNCHANGED <<config, phase, next, hash, saved, db, lines, gaps, bounds>>

\* The stream ended: download returns, its guard is dropped, the body is
\* hashed.
Downloaded(u) ==
  /\ pc[u] = "stream" /\ got[u] = Len(Blocks[hash[u]])
  /\ Release(u, "ok") /\ Goto(u, "dedup")
  /\ got' = [got EXCEPT ![u] = 0]
  /\ UNCHANGED <<config, phase, next, hash, saved, db, lines, gaps, bounds>>

\* A row resource_exists_by_hash may return (LIMIT 1 of them).
RowsOf(h) == {v \in Pages : "sqlite" \in sinks /\ resources[v] = h}

\* is_duplicate: known under the same canonical URL.
Dedup(u) ==
  /\ pc[u] = "dedup"
  /\ \/ \E v \in RowsOf(hash[u]) :
          IF Canon[v] = Canon[u] THEN Over(u, "ok")
                                 ELSE Goto(u, "clean") /\ UNCHANGED <<avail, held>>
     \/ RowsOf(hash[u]) = {} /\ Goto(u, "clean") /\ UNCHANGED <<avail, held>>
     \/ "sqlite" \in sinks /\ Over(u, "error")
  /\ UNCHANGED <<config, phase, next, got, hash, saved, db, lines, gaps, bounds>>

\* The bridge turns a panic into an error, the semantic cleaner panics in the
\* task.
CleaningFails(u) == Over(u, "error") \/ (embeds /\ Over(u, "panic"))

\* clean_chunks.
Clean(u) ==
  /\ pc[u] = "clean"
  /\ \/ Goto(u, IF "sqlite" \in sinks THEN "exists" ELSE "chunk") /\ UNCHANGED <<avail, held>>
     \/ CleaningFails(u)
  /\ UNCHANGED <<config, phase, next, got, hash, saved, db, lines, gaps, bounds>>

\* Fault to seed in ResourceFails: the chunks are saved whatever sinks there are.
ResourceIgnored(u) == Goto(u, "chunk") /\ UNCHANGED <<avail, held>>

\* SqliteVectorRepository::save_resource failed: alone that fails the task,
\* next to the stream the fan-out still succeeds.
ResourceFails(u) ==
  IF "stream" \in sinks THEN Goto(u, "chunk") /\ UNCHANGED <<avail, held>> ELSE Over(u, "error")

\* save_resource looks the hash up again ...
ResourceExists(u) ==
  /\ pc[u] = "exists"
  /\ \/ HasRow(hash[u]) /\ Goto(u, "chunk") /\ UNCHANGED <<avail, held, faults>>
     \/ ~HasRow(hash[u]) /\ Goto(u, "insert") /\ UNCHANGED <<avail, held, faults>>
     \/ faults < MaxFaults /\ faults' = faults + 1 /\ ResourceFails(u)
  /\ UNCHANGED <<config, phase, next, got, hash, saved, db, lines, gaps, runs, crashes>>

\* ... and inserts: url is the primary key, so a page known under another
\* hash is refused.
ResourceInsert(u) ==
  /\ pc[u] = "insert"
  /\ \/ /\ resources[u] = NoHash
        /\ resources' = [resources EXCEPT ![u] = hash[u]]
        /\ Goto(u, "chunk") /\ UNCHANGED <<avail, held, faults>>
     \/ /\ resources[u] # NoHash
        /\ ResourceFails(u) /\ UNCHANGED <<resources, faults>>
     \/ /\ faults < MaxFaults /\ faults' = faults + 1
        /\ ResourceFails(u) /\ UNCHANGED resources
  /\ UNCHANGED <<config, phase, next, got, hash, saved, rows, lines, gaps, runs, crashes>>

\* StreamRepository::save_chunk: a chunk without an embedding is answered Ok and
\* nothing is written.
Streamed(u) == IF embeds THEN lines \cup {NextChunk(u)} ELSE lines

\* save_chunk on every sink; one that succeeds is enough.
SaveChunk(u) ==
  /\ pc[u] = "chunk" /\ saved[u] < Chunks[hash[u]]
  /\ \E broken \in SUBSET sinks :
       LET failing == broken \cup {s \in sinks : s = "sqlite" /\ ~Accepts(u)} IN
       /\ faults + Cardinality(broken) <= MaxFaults
       /\ "stream" \in broken => embeds
       /\ faults' = faults + Cardinality(broken)
       /\ rows' = IF "sqlite" \in sinks \ failing THEN rows \cup {NextChunk(u)} ELSE rows
       /\ lines' = IF "stream" \in sinks \ failing THEN Streamed(u) ELSE lines
       /\ IF failing = sinks
            THEN Over(u, "error") /\ saved' = [saved EXCEPT ![u] = 0]
            ELSE /\ saved' = [saved EXCEPT ![u] = @ + 1]
                 /\ UNCHANGED <<pc, outcome, avail, held>>
  /\ UNCHANGED <<config, phase, next, got, hash, resources, gaps, runs, crashes>>

\* All chunks saved.
Persisted(u) ==
  /\ pc[u] = "chunk" /\ saved[u] = Chunks[hash[u]]
  /\ Over(u, "ok")
  /\ saved' = [saved EXCEPT ![u] = 0]
  /\ UNCHANGED <<config, phase, next, got, hash, db, lines, gaps, bounds>>

-----------------------------------------------------------------------------
Task(u) ==
  /\ phase = "running"
  /\ \/ Headers(u) \/ BlockArrives(u) \/ StreamFails(u) \/ AcquirePermits(u) \/ Inanition(u)
     \/ Downloaded(u) \/ Dedup(u) \/ Clean(u)
     \/ ResourceExists(u) \/ ResourceInsert(u) \/ SaveChunk(u) \/ Persisted(u)

Driver == Spawn \/ (\E u \in Pages : Reap(u)) \/ Finish

\* The last run is over.
Quit == phase \in {"ok", "failed", "crashed"} /\ runs = MaxRuns /\ UNCHANGED vars

Next == StartRun \/ Driver \/ (\E u \in Pages : Task(u)) \/ Crash \/ Quit

Spec == Init /\ [][Next]_vars

\* The runtime polls the driver and every task; each await of a task is
\* bounded by a timeout or is a local write.
IngestFairSpec ==
  /\ Spec
  /\ WF_vars(Driver)
  /\ \A u \in Pages : WF_vars(Task(u))

-----------------------------------------------------------------------------
TypeOK ==
  /\ sinks \in SinkSets /\ embeds \in BOOLEAN
  /\ phase \in {"idle", "running", "ok", "failed", "crashed"}
  /\ next \in 1..(PageCount + 1)
  /\ pc \in [Pages -> Running \cup {"none", "over", "reaped"}]
  /\ outcome \in [Pages -> {"none", "ok", "error", "panic"}]
  /\ avail \in Nat
  /\ held \in [Pages -> Nat]
  /\ got \in [Pages -> Nat]
  /\ hash \in [Pages -> Hashes \cup {NoHash}]
  /\ saved \in [Pages -> Nat]
  /\ resources \in [Pages -> Hashes \cup {NoHash}]
  /\ rows \subseteq Hashes \X Nat /\ lines \subseteq Hashes \X Nat
  /\ gaps \subseteq Hashes
  /\ runs \in Nat /\ crashes \in Nat /\ faults \in Nat

\* The semaphore's permits and the guards' always add up to the budget: a
\* forgotten permit is given back exactly once on every way out of download.
PermitsConserved == avail + HeldPermits = Budget

\* In a database that is the only sink no chunk lacks the resource of its
\* content, across tasks that race for one hash, failing writes, aborts and
\* crashes: save_resource comes first and its failure ends the task.
NoOrphanChunk == sinks = {"sqlite"} => \A id \in rows : HasRow(id[1])

\* A run that reports success has every chunk of every page in a sink, unless
\* an earlier run left that content's row without its chunks: no panic, join
\* failure or short-circuit hides a page whose chunks were not saved.  The
\* stream alone keeps nothing of chunks without embeddings, by design, and in
\* the fan-out its Ok then hides a failing database.
OkRunIsStored ==
  phase = "ok" /\ (embeds \/ sinks = {"sqlite"}) =>
    \A u \in Pages : Stored(hash[u]) \/ hash[u] \in gaps

\* A page skipped as already persisted has its chunks in the database.
SkippedIsStored ==
  phase = "ok" /\ sinks = {"sqlite"} => \A u \in Pages : Stored(hash[u])

\* Downloads that hold permits and wait for each other's end by timing out:
\* every run comes to an end.
IngestEnds == phase = "running" ~> phase # "running"
=============================================================================
