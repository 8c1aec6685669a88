# TLA+ models of webfang

webfang is a web crawler and scraper: it discovers URLs, fetches and cleans the
pages, exports them, and can be stopped at any moment and resumed.  This
directory holds TLA+ modules for the parts where that is hard to get right, the
TLC configurations that check them on small instances, and TLAPS proofs for any
instance.  `PROJECT.json` lists components, runs, seeded faults, hazards,
findings and theorems, and maps every definition to the lines it models.

    tlc -workers 2 -config Crawl_safe.cfg MCCrawlEngine
    tlapm StoreMergeProofs.tla

## The system

| Component | State | Operations | Interacts with |
|---|---|---|---|
| Export commit protocol (`application/export_factory.rs`) | `CommitSession`: records, hash index, driven pairs | open, decide, promote, drive, fail, commit point, final persist | record store, JSONL exporter |
| JSONL exporter (`infrastructure/export/jsonl_*.rs`, `tail_window.rs`) | output file, writer thread | lazy open with torn-tail recovery, append and flush acknowledgement | export protocol |
| Page record (`domain/record_transition.rs`, `domain/page_state/*`, `domain/persistence.rs`) | status, hash, location, error, attempts | typestate transitions, invariant table, quarantine | export protocol, store |
| Record store (`infrastructure/export/record_store.rs`) and gate (`application/resume.rs`) | one JSON file per domain, a lock file | load with quarantine, `update` under the lock, atomic rename, migration of v1 | several processes |
| Crawl engine and scheduler (`application/crawler/engine.rs`, `crawl_scheduler.rs`, `collector.rs`, `concurrency_level.rs`) | visited, pending, JoinSet, results counter, page counter, shutdown flag, cancellation token, autoscale level | the loop of `run()`, drain and abort at the end | tasks, queue, checkpoint |
| Crawl task (`application/crawler/crawl_task.rs`) | one per page | pace, fetch, pipeline, collect, extract links | queue, collector |
| URL queue (`infrastructure/crawler/url_queue.rs`) | priority heap, seen set | push, drain, bounded snapshot | tasks, engine |
| Checkpoint and session (`checkpoint.rs`, `session.rs`) | checkpoint file | periodic save, final save or delete, restore | engine |
| Bounded content sink (`bounded_sink.rs`) | sender slot, channel, byte-bounded backlog, wake-up permit, writer task, spool file | capture, defer, cancel, finish | crawl tasks, batch |
| Batch manager and processor (`application/batch/*`, `cli/batch_flow.rs`) | job, semaphore, JoinSet, progress counters | dispatch, join, cancel, close and flush the sink | crawl engine, sink, export |
| Download layers (`adapters/downloader/*`, `fetch_router.rs`, `hybrid_router.rs`, `resource_governor.rs`) | per fetch: attempt, last status and error, child process; permits; the settle's in-flight tracker | fetch by strategy, retry, inspect, rotate, escalate, launch and close Chrome, settle | crawl tasks, browser, subprocess |
| Elastic ingestion (`application/elastic_ingestion.rs`, `cli/elastic.rs`, the resource downloader) | JoinSet, byte-weighted semaphore, dedup by hash | download, dedup, clean, persist, abort | vector sinks |
| SQLite store and stream sink | tables `resources` and `chunks`, a JSONL file | save resource, save chunk, look up a hash | ingestion |
| Rate limiter, session pool, HTTP client | tokens, sessions, bans | acquire, rotate, retry | tasks |
| Pipeline executor, sitemap discovery, asset downloader | worker pools, buffers | submit, recurse, download | CLI |
| MCP server (`webfang_mcp`) | request counters, shared state | tools over HTTP or stdio | core crate |
| CLI, AI clients, Obsidian, tracing, policies | little or external | glue, external services, formatting | - |

What makes it hard: pages complete while the loop dispatches others; a signal, a
token or SIGKILL may come between any two steps; writes are cut; a save fails and
the process goes on; several `--resume` processes share one store file; the drain
at shutdown has a bound and aborts what is late; a fetch can be dropped at any
await while it holds a permit or a child process; a browser reports one request over
three channels in no fixed order; the first failing task aborts writes that are half
done; everything on disk is read by a
later run that trusts it.  The properties that make each modelled part correct
are listed with the runs below; the hazards, with their lines, in `PROJECT.json`.

## Modules

| Module | Models | Used by |
|---|---|---|
| `RecordTransition` | the page record: the invariant table, reconciliation, quarantine, the transitions | `ExportCommit`, `StoreMerge` |
| `ExportCommit` | one store and output file through a series of runs: gate, scrape, session, items, append, EXPORTED save, commit point, final persist; cancellation, SIGKILL, failed saves, cut writes | `MCExportCommit` |
| `DurableExport` | what that protocol promises, without its mechanism | refined by `ExportCommit` |
| `StoreMerge` | several resume processes over one store: lock, re-read, merge by `updated_at`, rename | `MCStoreMerge` |
| `CrawlEngine` | engine loop, scheduler, queue, tasks, collector, checkpoint, signals, cancellation, crash, resumed runs | `MCCrawlEngine` |
| `ContentSink` | `BoundedFileSink`: concurrent `capture()` calls, channel, backlog, writer task, cancel and finish | `BatchRun` |
| `BatchRun` | `run_batch_crawl` composed with the sink: dispatch under the semaphore, tasks, joining, cancellation, closing, outcome | `MCBatchRun` |
| `IdleSettle` | the network-idle settle: the browser's request events over three channels, `InFlightTracker`, the select with its guards | `PageFetch` |
| `PageFetch` | one page through the download layers, composed with the settle: wreq retries, WAF inspection and rotated agent, Hybrid's escalation, Obscura, Chrome under the governor, dropped futures, cancellation | `MCPageFetch` |
| `Ingestion` | `run_elastic_ingestion`: bounded JoinSet, byte-weighted permits, dedup, cleaning, SQLite and stream sinks, abort on failure, crash and rerun | `MCIngestion` |
| `RecordTransitionProofs`, `ExportCommitProofs`, `StoreMergeProofs`, `CrawlEngineProofs`, `BatchRunProofs`, `PageFetchProofs`, `IngestionProofs` | the theorems | - |
| `FoldSums` | lemmas on sums over finite sets as the folds compute them | `BatchRunProofs`, `IngestionProofs` |

How state and actions correspond to the code:

* `ExportCommit`.  `store`, `lines` and `tail` are what SIGKILL leaves; the rest is
  the process.  `pc` is the place of `process_results` between two effects on the
  disk: `FilterCommitted` (the gate and the start of a run), `OpenSession`
  (`CommitSession::open`), one action per outcome of `process_single_item`
  (`SkipDuplicate`, `SkipCommitted`, `PromoteFromFlushProof`, `InvalidItem`,
  `StartDrive`), then `AppendLine` / `AppendFails` / `WriterGone`,
  `CheckpointExported`, `CommitPoint`, `FinalPersist`.  Every load and save of the
  store may fail, and so may the read of the output file that builds the hash index
  (`BuildContentHashIndex`); the session goes on as the code does, with no records or
  an empty index.  A run is `resume`, `fresh` (a
  store without `--resume`: nothing is skipped) or `detached` (no store).  A
  content is a model value: its checksum identifies it.
* `StoreMerge`.  The same session per process, cut at the lock: `LoadUnderLock` and
  `SaveLocked` are the two ends of `RecordStore::update`.  Records carry the stamp
  `updated_at`.  The output file is reduced to the set of pages with a flushed line.
* `CrawlEngine`.  The engine's `pc` follows the stages of `crawl_loop`; each page's
  task is a thread of its own with stages pacing, fetching, fetched, links, done.
  A task can be cancelled while it is paced, and aborted between any two stages.
  A checkpoint is written in two steps, the page count (`noted`) and later the frontier,
  with tasks running in between.  Saving, deleting and loading the file may fail
  (`FileChangeFails`, `LoadCheckpoint`); the code logs it and goes on.  A run whose
  checkpoint directory cannot be created is one whose load and every save fail.
  `found` and `processed` are history variables: what this run, or the checkpoint it
  resumed, came to know, and what was processed and a checkpoint was to remember.  A
  process that ends forgets `found`, and `processed` keeps after a crash or a failed
  last save only what the file records: what the properties claim over several runs
  is what the file can carry.
* `ContentSink` and `BatchRun`.  `stage[u]` is the crawl task of one batch entry and
  the place of its `capture()` call, which no lock encloses; `wpc` is the place of
  `spool_writer`, with one step for each part of its exit condition and for each
  poll of its biased select; `bpc` is the place of `run_batch_crawl`.  A sender
  clone exists exactly in the stages `HoldsSender`.  `offered` is a history variable.

* `IdleSettle` and `PageFetch`.  `pc[f]` is the await a fetch is at.  The wreq loop is
  `Send`, `TransportFails`, `ReplyArrives`, `SnippetRead`, `RotatedArrives`, `Retry`,
  `BuildPage`; the other layers have one action per await as well, and every await has
  its error and its timeout.  A dropped future runs what `Drop` runs: the permit goes
  back, the child is killed, the streams are gone.  In the settle, `net` is the
  browser's truth, `sentQ` and `doneQ` the events not yet polled, `pending` and
  `unseen` the tracker's two sets, `active` the branches of the select, `parked` a
  select that found nothing ready and waits.  A timer elapses only over a parked task,
  but the select is unbiased: events that came in the meantime may lose to it.  `sends`,
  `heard` and `only403` are history variables.
* `Ingestion`.  `pc[u]` is the await of the task of page `u`, "over" a task that ended
  and was not reaped, `phase` the place of `run_elastic_ingestion`.  `held` is what the
  `PermitGuard` has acquired and forgotten, returned on every way out of `download`;
  an abort drops every guard, each returning its own (`HeldPermits`).
  `resources` and `rows` are the tables that survive a crash; a statement that runs
  when its task is aborted may land or not.  `gaps`, a history variable, holds the
  contents whose row an earlier run left without its chunks.

Operators whose comment begins with "Fault to seed" are the mutated forms used to
show that a property can fail; no specification uses them.

## Runs

| Run | Checks | Bounds | Distinct states |
|---|---|---|---|
| `export_flushed` | `TypeOK`, `CommittedIsFlushed`: a page the gate skips has its line in the output, whatever runs are mixed | 2 pages, one with two contents; one crash or cancellation, failing item, failing load or save, unreadable output, non-resume run | 315 000 |
| `export_resume` | `StoreSatisfiesTable`, `OnceUnlessFailed`, `RefinesDurableExport`, `ExportedBeforeCommitted`, `EventuallyCommitted` | the same pages, two results per page, two crashes, one failing item, one failing load or save, one unreadable output; resume runs | 572 000 |
| `merge_share` | `TypeOK`, `StampsAdvance`, `ClaimSurvives`, `RunsEnd` | 2 processes, 2 runs each, one page shared and one owned, one fault, clock to 4 | 175 000 |
| `crawl_safe` | `TypeOK`, `CollectedWithinBudget`, `CompleteMeansAllVisited`, `SaveKeepsFrontier`, `NoRefetch`, `PagesNeverRegress` | 4 pages with a shortcut and a cycle, a sitemap leaf, 2 workers, max_pages 3, a checkpoint per page, one interruption, one failing page, one failing save or deletion, one failing load | 2 268 000 |
| `crawl_cover` | `WithinDepth`, `CoversDepth`: exactly the pages within max_depth | 5 pages, 1 worker, levels Normal and Critical, one failing page, one failing deletion | 5 600 |
| `crawl_live` | `CrawlTerminates`, `ShutdownTerminates` | 3 pages, 2 workers, levels Normal and Reduced, one signal, one failure | 183 000 |
| `batch_capture` | `TypeOK`, `NoSilentLoss`, `HeldBounded`, `DeferredIsSpooled`, `BatchReturns` | 3 entries, 2 at a time, channel of 1, backlog of 2 bytes, sizes 1, 1 and 2, one failing write, one cancellation | 351 000 |
| `page_fetch` | `TypeOK`, `SendsWithinBudget`, `LastFailureTold`, `PermitsMatchChromes`, `ChildOwned`, `DrainedIsQuiet`, `QuietMeansIdle`, `FetchReturns` | the three strategies; 2 fetches for 1 permit under Full, 1 fetch otherwise; 2 requests, one redirected; 2 retries | 253 000 |
| `ingest` | `TypeOK`, `PermitsConserved`, `NoOrphanChunk`, `OkRunIsStored`, `IngestEnds` | 3 pages: one that changes, its mirror, its query variant that may be too large; budget of 2 bytes, 2 tasks, each set of sinks, 2 runs, one crash, one failing write | 659 000 |
| `merge_tie`, `crawl_visited`, `ingest_skipped` | see Findings | the smallest that show it | - |

Why the bounds are enough to be interesting: two pages are needed for a line of
one page to be there while the other is driven, and the second content for a page
that changed between runs.  Two crashes let the second one hit the recovery from
the first.  One shared and one owned page give every pair of saves that can
collide.  In the crawl the shortcut gives two paths of different length to a page,
the cycle leads back to the seed, max_pages 3 is less than the site, so the
budget, the truncated frontier and the completed crawl all occur.  `crawl_safe` keeps
the level Normal, to leave room for the failing saves and loads: a lower level only
delays a spawn, which the tasks' interleaving with the loop does as well.  `MaxClock`,
`MaxRuns`, `MaxFaults`, `MaxCrashes`, `MaxInterrupts` and the like only bound the
environment.  In the batch a channel of one and a backlog that one large page fills
make the fast path, the deferred path and the refusal all happen with three
entries, also while the writer holds what it has just taken out.  Fetches share the
permits and nothing else, so two fetches for one permit show every contention and one
fetch is enough for the strategies that take none; two retries make a first, a middle
and a last attempt; two requests, one redirected, give the tracker every order of its
events, since it treats ids independently.  Two bodies of two bytes over a budget of
two bytes make the downloads wait on each other, the mirror and the variant make two
tasks race on one hash and on one URL, and the second run meets what an abort or a
crash of the first left.  `StoreMerge` may
stop when every process has used its runs, and a batch when it has ended, hence no
deadlock check there; `RunsEnd` and `BatchReturns` say that they stop where they
should.

Fairness.  `CrawlEngine`: weak fairness of the engine, one tokio task the runtime
polls whenever it is ready; `CrawlTerminates` adds, as its hypothesis, weak
fairness of every page's task, and `ShutdownTerminates` does without, because the
drain has a bound.  The autoscale level is never assumed to recover; with the
level Critical for ever the crawl waits for ever, which is what it is documented
to do, so `crawl_live` leaves it out.  `BatchRun`: the writer is polled and its
writes return, and a `capture()` that began goes on, since it has no await; that the
crawls return and the batch is scheduled is a hypothesis of `BatchReturns` only, so
that `DeferredIsSpooled` holds although every crawl hangs. `ExportCommit`: a
started run goes on until it ends, and an operator keeps starting resume runs.
`StoreMerge`: each process goes on; `flock` goes to a waiter once it is free,
which weak fairness of its step needs no more than, since runs are finite.
`PageFetch`: each fetch is polled, and each of its awaits is bounded by the client's,
the subprocess's, the navigation's or the content's timeout; Chrome ends its
connection when it is closed.  Nothing is assumed of the server, of the browser's
events or of the other fetch, so `FetchReturns` includes the wait for a permit.
`Ingestion`: the driver and the tasks are polled and their awaits are bounded or
local; a wait for byte permits ends by its timeout, so `IngestEnds` needs nobody to
release any.

## Proofs

All hold for any sets of pages, contents, processes, any site and any bounds, but for
the hypotheses named.  Every invariant and action property of a passing run, and the
refinement, has a theorem; every hypothesis is met by the configuration of its run.

* `TypeCorrect`: the type invariant of `ExportCommit`.  Inductive with `CurOK`: an
  item is current exactly between its append and its commit point.
* `CommittedFlushed`: `CommittedIsFlushed`, if no two pages share a content and a
  cut write leaves no whole line (`DistinctContents`, `WholeLinesOnly`: without
  them it is false, see Findings).  `CommittedIsFlushed` speaks of the store only,
  but a save copies the session's view, so the invariant `FlushInv` adds: the claim
  of every record, on disk and in the session, is a line in the file
  (`StoreHonest`, `RecordsHonest`); the hash index holds only hashes of lines
  (`IndexProven`), each line belongs to the page whose content it is
  (`LinesServed`); an item past its append is in the file (`FlushedOK`); and the
  view of a run that resumes is blank when nothing runs (`IdleBlank`, `ResumeView`,
  `AppendOK`).
* `StoreAlwaysSatisfiesTable`: `StoreSatisfiesTable`, if every run resumes
  or keeps no store (`NoFreshRuns`; a run with a store but without `--resume` breaks
  it, see Findings).  `TableInv`: the session's records pass the table too, and the item
  being appended is not one whose record is COMMITTED, so a failure may mark it.
* `CheckpointBeforeCommit`: `ExportedBeforeCommitted`, without hypotheses, from
  `SaveInv`: while no save has failed, the session's record of a page is the one on
  disk, so the commit point starts from a checkpoint that is durable.
* `NoLineTwice`: `OnceUnlessFailed`, under the hypotheses of `CommittedFlushed`.
  `OnceInv` follows each line through crashes: as long as no item has failed and every
  session could read the output (the property's own conditions), a line in
  the file is in the session's hash index, or its page is COMMITTED in the session's
  view, or it is the item being driven; the next decision is then to promote or to
  skip, and never to append.
* `ImplementsDurableExport`: `RefinesDurableExport`, the refinement of `DurableExport`,
  step by step, under `DistinctContents`, `WholeLinesOnly`, `NoFreshRuns` and
  `OneStoreFault`: at most one load or save fails.  `AckInv`: whatever a resume run may
  still save for an acknowledged page acknowledges it too, and no item drives one.  With two
  failing loads in one run, the gate's and then the session's, the run drives
  committed pages again and writes EXPORTED over COMMITTED: the acknowledgement is
  taken back (TLC shows it with `MaxSaveFaults = 2`), so one is the bound of the claim.
* `StampsNeverRegress`: `StampsAdvance` for any number of processes, from
  `MergeInv`: types, records that pass the table (`Valid`; otherwise the
  quarantine would drop one) and `Exclusive`: whoever is between the read and the
  rename holds the lock and its snapshot is the disk.
* `BudgetHolds`: `CollectedWithinBudget`, from `BudgetInv`: the results counted,
  plus the tasks that may still count one, plus what this round may still
  dispatch, never exceed max_pages.
* `BatchLosesNothing`: `NoSilentLoss`, from `LossInv`: every accepted page is in
  exactly one of channel, backlog, the writer's hands and the spool (`InOnePlace`);
  what the writer has seen closed and empty stays so, because a sender clone exists
  only while a task runs and the sink is closed only after all were joined
  (`WriterInv`, `BatchInv`); and what `capture()` has done with each page
  (`CaptureInv`).
* `BatchKeepsItsBounds`: `TypeOK` of the batch, with the three capacities (permits,
  channel, backlog bytes), from `LossInv` and `Bounds`: the dispatch, the send and the
  admission each look before they take.
* `StoreMergeProofs!TypeCorrect`: from the same `MergeInv`.
* `ClaimsSurvive`: `ClaimSurvives`, for any number of processes and faults, from
  `ClaimInv`, for each page that one process works on: another process's copy of it is
  a claim, or is older than the claim on disk and so loses the merge; and the owner
  knows the claim before it stamps the page again.
* `NeverRefetched`: `NoRefetch`, from `VisitInv`: what was processed, or is in flight, is
  in `visited` while a run goes on, and what the next run is to remember is in the
  checkpoint between two runs; that `next_url` answers an unvisited URL is a lemma on
  the least index of a set.  It promises no more than the file can: after a crash, or
  when the last save or a load failed, pages the file does not record are fetched again.
* `CounterNeverRegresses`: `PagesNeverRegress`, from `CountInv`: as long as no load has
  failed, the counter of a run starts at the checkpoint's and only rises, and what a
  save under way has read (`noted`) lies between the two.
* `TypesHold`: `TypeOK` of the crawl, from `TypeInv`.  The queue's heap is a set, and
  `Drained` lists it by rank; that this is a sorted sequence without repetition
  (`BeforeOrders`, `RankOrders`, `DrainedSorts`) is what the types of the frontier need.
* `CompleteVisitsAll`: `CompleteMeansAllVisited`, without hypotheses, from `KnownInv`:
  every URL the run knows is visited, pending or queued, and the loop leaves with
  nothing in flight, queued or pending unless it was shut down or is full.  It speaks of
  one run and what it loaded: links that an interrupted run knew and no checkpoint
  recorded are lost (see Findings).
* `FrontierSaved`: `SaveKeepsFrontier`, from `KnownInv` and what a truncated list holds:
  what a checkpoint does record, however tasks push links while it is built.
* `NeverTooDeep`: `WithinDepth`, for a crawl that is not interrupted (`Uninterrupted`),
  leaves no checkpoint behind (`NothingLeftBehind`: no periodic ones, or no failing
  save) and whose page limit exceeds the site (`RoomForEveryPage`), with `max_depth` above 0
  or no sitemap (`SitemapWithinDepth`): an interrupted crawl, or one
  that stops at its page limit, is resumed with its whole frontier at depth 0 (see
  Findings), and sitemap leaves are queued at depth 1 and fetched whatever
  `max_depth` says.  `NearInv` says that the depth a URL is held at is the length of
  some path to it; what the recursive `Within` computes is shown by a least
  counterexample (`DistancesExist`, `WithinIs`, `WithinGrows`).
* `OneWorkerCovers`: `CoversDepth`, under the same hypotheses and `OneWorker`
  (with two workers it is false, see Findings).  `OrderInv` says that one worker keeps
  the frontier in breadth-first order, so a page is first met on a shortest path;
  `CoverInv` and `IdleInv` that every nearer page was met before, and that an expanded
  page's links are seen or on their way.
* `MemoryIsBounded`: `HeldBounded`, from `LossInv`, `Bounds` and `HeldInv`: the byte
  account is the sum over the backlog, and what the writer holds is part of one drained
  backlog or one page of the channel.
* `PageFetchProofs`.  `DrainedIsAlwaysQuiet` and `ReachedMeansIdle` (`DrainedIsQuiet`,
  `QuietMeansIdle`) rest on `SettleInv`, which says for each request,
  by its state in the browser and by the events still queued, in which of the
  tracker's sets it is: this relation is what the order of polling may not break, and
  it holds whatever is still queued when the elapsed sleep is chosen.
  `PermitsNeverLeak` and `ChildrenAreOwned` (`PermitsMatchChromes`, `ChildOwned`) rest on
  `HeldInv`: which layer a fetch is in under which strategy.  `RequestsAreBounded` and
  `ReportsTheLastFailure` (`SendsWithinBudget`, `LastFailureTold`) rest on `RetryInv`: at
  each step of the retry loop, how many requests the attempts so far can have made,
  and that `last_status` and `last_error` are what was heard last.  `TypeCorrect`
  rests on `Inv`, which all of them use.
* `IngestionProofs`.  `TypeCorrect` from `Inv` (a task's place fits what it has read and
  written, and pages are spawned in order); `ChunksHaveTheirResource` (`NoOrphanChunk`)
  from `OrphanInv`: a task that saves chunks has a row for its hash, its own or
  another's; `OkMeansStored` (`OkRunIsStored`) from `StoredInv`: a row, or a task that
  ended well, vouches for its content, which is stored, or a known gap, or owed by a
  task that is still saving it or that will fail the run; `PermitsAddUp`
  (`PermitsConserved`) from `PermitSum`: each step moves permits between the semaphore
  and one guard, or returns what all guards hold (a sum over the tasks).
* Below them, lemmas on the record operators, in `RecordTransitionProofs` (every
  transition keeps a record well formed and within the table), and on sums, in
  `FoldSums`.  A fold is a recursive function; that it adds up all elements in whatever
  order it takes them is shown without induction: the number of pairs of an element
  and a unit of its weight solves the recursion, and a least set where another
  solution differs cannot exist.

Only model-checked.  Liveness under fairness, and `ENABLED`, are out of the prover's
reach: `EventuallyCommitted`, `RunsEnd`, `CrawlTerminates`, `ShutdownTerminates`,
`DeferredIsSpooled`, `BatchReturns`, `FetchReturns`, `IngestEnds`.  The three properties
that the code violates have no theorem.

## Findings

Three runs end in a violation of what a document or a comment of the repository
says; `PROJECT.json` quotes both sides.

* `merge_tie`: the swap to COMMITTED keeps `updated_at`, so a process that loaded
  the page as EXPORTED wins the tie and takes the commit back.
* `crawl_visited`: a page in flight at a shutdown is checkpointed as visited and
  never fetched by the resumed crawl.
* `ingest_skipped`: the resource row is saved before the chunks and outside a
  transaction; after a crash or a failing chunk in between, every later run skips
  the page as already persisted and reports success.

The same models show these with other constants (no run of their own):

* `MCExportCommit`, `TornTails` with "unterminated", `CommittedIsFlushed`: a
  last line without its newline is taken as proof of a flush, and the next append
  truncates it (`tail_window.rs`: "Bytes after the final newline never got their
  terminator").
* `MCExportCommit`, `MaxItemFaults = 0`, `NoDuplicateLine`: a session that cannot read
  the output goes on with an empty index; a line flushed before a crash and not yet
  recorded is appended again (`persistence-resume.md`: "no duplicated exports").
  `OnceUnlessFailed` leaves such series out.
* `EventuallyCommitted` without `StuckExported`: that session drives an EXPORTED page
  again, the append fails, and the record stays EXPORTED with a `last_error`, which
  every later run promotes and is refused.
* `MCExportCommit`, `NoDuplicateLine`: a page that failed once has a record without a
  hash; if a later run dies after the flush and before the save, the line is appended
  again (`persistence-resume.md`: "no duplicated exports").
* `MCCrawlEngine`, `Interrupts = {"cancel"}`, `CancelledIsNotComplete`: a crawl stopped
  through `cancel_handle()` ends as complete and deletes its checkpoint (`engine.rs`:
  "the same effect as a signal-driven shutdown").
* `MCPageFetch`, `NetsToZero` in place of `DrainedIsQuiet`: a redirect sends a request a
  second time under its id; if the completion is polled before the second event, the
  id stays in the tracker and the settle burns its ceiling
  (`chromiumoxide_downloader.rs`: "nets each pair to zero in any arrival order").
* `MCExportCommit`, `PageContents <- SharedContents`: two pages with the same content;
  the second is committed on the line of the first (`CommittedIsFlushed`).
* `Modes = {"resume", "fresh"}`: in a run without `--resume` a failing item leaves a
  COMMITTED record with a `last_error` (`StoreSatisfiesTable`), and an EXPORTED one
  with a `last_error` is promoted and rejected by every later run
  (`EventuallyCommitted`).
* `MCCrawlEngine`, `Levels = {"Reduced"}`, `Concurrency = 1`: half of one slot is none,
  and the crawl never ends (`CrawlTerminates`).
* `Links <- Chain`, `MaxDepth = 1`, a signal: the checkpoint keeps no depths, so a
  resumed crawl follows links past max_depth (`WithinDepth`).
* `Links <- Shortcut`, two workers: a page first met on the longer path keeps the
  larger depth, and links within max_depth are not followed (`CoversDepth`).
* `MaxPages = 1`, `SaveKeepsFrontier` without its second disjunct: the frontier of a
  checkpoint is cut without removing visited entries, and an unvisited link is dropped
  for good (`checkpoint.rs`: "nothing the crawl could still reach is ever dropped").
* `Crawl_cover.cfg` with `Interval = 1` and a crash, `CoversDepth`: a periodic
  checkpoint records the page in flight as visited; resumed from it, the crawl never
  sees that page's links and ends as complete.
* The same with `MaxDepth = 1`, no crash and two failing saves, `WithinDepth`: an older
  periodic checkpoint stays when it can be neither replaced nor deleted, and the next
  run resumes the finished crawl with its frontier at depth 0.
* `NoRefetch` with `processed` unchanged in the second disjunct of `Finish`, or in
  `Crash`: when the last save fails, which is only logged, the next run fetches again
  what the older file does not record.

Also met while modelling `bounded_sink.rs` and the batch (no run of their own):

* `with_backlog_bytes` promises that a slow spool "holds at most `max_backlog_bytes`
  of page bodies beyond the channel"; the writer's drain resets the account while it
  still holds the pages, so the bound is twice that (`HeldBounded` states it).
* `captured()` is documented to equal `written + dropped()` after a flush; refused
  pages are not counted in it, so it equals `written`.
* `BacklogState.saturated` is documented as sticky, "so later admits are refused";
  `admit` never reads it, and a drained backlog accepts pages again.
* `process_batch_cancellable` says that after a cancellation no further URL is
  dispatched; the token is read before the wait for a permit, so one more may be.
* A cancelled run can lose a captured page: the writer polls the channel, a crawl
  then queues its last page and returns, the sink is cancelled, and the same poll
  reaches the token.  `NoSilentLoss` therefore exempts cancelled runs from its
  exactly-once part (drop `~sinkCancel` there and TLC shows it).

Also met while modelling the download layers and the ingestion (no run of their own):

* Hybrid starts Chrome without a permit.  `resource_governor.rs` and the Chrome layer's
  comment ("Resource gating is handled by HybridRouter") say otherwise;
  `PermitsMatchChromes` therefore speaks of Full only.
* The quiet window may close over a `requestWillBeSent` that is queued and not polled:
  the select is unbiased and the sleep's branch asks only the tracker.
  `QuietMeansIdle` speaks of requests whose announcement was polled.
* The answer to the request with the rotated agent is not inspected for a WAF
  challenge, and `last_failure_was_timeout` is not reset by a later status.
* A page with the same content as another gets no resource row of its own, though
  `is_duplicate` says that such pages "must NOT deduplicate each other".  With
  enforced foreign keys its `save_chunk` is refused unless the first page's chunk is
  there already: while that page is still saving the whole run fails, and after a crash
  between that page's row and chunks every later run does.
* With both sinks and no embeddings the stream answers Ok for what it does not write,
  and hides a failing database (`OkRunIsStored` exempts it); a second run truncates
  the stream and then skips every page as already persisted.
* A page whose content changed is refused by the primary key on its URL.
* Byte permits are returned when the download returns, while the body lives on
  through cleaning and saving: the budget bounds downloads, not memory.

## Not modelled

In the modelled parts: the AI chunk path of the export, other exporters, the
encoding of checkpoints (checksum, versions) and of the spool, the sweep of a stale
spool, reading batch URLs from files, cookies, error counters,
a clock that steps back, failing loads in `StoreMerge` (they are in `ExportCommit`),
the child process while `Browser::launch` has not returned it (chromiumoxide owns it),
construction of HTTP clients, body decoding, lengths of delays, vectors, titles,
notes, retention, `ingest_batch` (only tests call it),
canonicalisation of URLs.  Parts left out altogether are in `PROJECT.json` with the
reason: external services, formatting, sequential glue.

## Plan

1. Done: `RecordTransition`, `ExportCommit` with `DurableExport`, `StoreMerge`,
   `CrawlEngine`, `ContentSink` with `BatchRun`, `IdleSettle` with `PageFetch`,
   `Ingestion`, and the theorems above.
2. The older HTTP client with the session pool and the rate limiter: a ban ends, a
   session is not used while it cools down.
3. Sitemap discovery, asset downloads, budget derivation (a pure function against
   its bounds), the adaptive engine's sampling loop, the MCP server's admission
   counters and panic containment.
4. Proofs: the refinement for any number of failing loads and saves, with an abstract
   specification that lets an acknowledgement be withdrawn by them; a depth bound for
   interrupted crawls (the distance from the seed plus that of the frontier resumed
   from).
