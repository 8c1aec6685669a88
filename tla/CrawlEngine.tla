----------------------------- MODULE CrawlEngine -----------------------------
(***************************************************************************)
(* One seed's crawl: the engine's loop, the scheduler with its pending     *)
(* buffer, the shared discovery queue, the per-page tasks that run         *)
(* concurrently with the loop, the results counter, the checkpoint file,   *)
(* and the runs that resume from it.                                       *)
(*                                                                         *)
(* The engine is one thread of control (pc); every task is another one     *)
(* (task[u]).  They share queue, seen, counter, pages and the two flags.   *)
(* Only the engine touches visited and pending.  URLs are canonical        *)
(* (UrlDeduplicator and UrlQueue normalise before they hash); the priority *)
(* queue breaks ties by URL, so they are numbers.                          *)
(*                                                                         *)
(* Left out: the error counters and the banned-domain list, which are      *)
(* written and never read by the crawl; cookies; redirects (final_url =    *)
(* url); the two early returns of run() (seed filtered out, second call).  *)
(***************************************************************************)
EXTENDS Naturals, FiniteSets, SequencesExt

CONSTANTS
  Urls,         \* the pages of the site
  Seed,         \* config.seed_url
  ExtraSeeds,   \* sitemap leaves
  Links,        \* [Urls -> SUBSET Urls]: the allowed internal links of a page
  MaxDepth,     \* config.max_depth
  MaxPages,     \* config.max_pages
  Concurrency,  \* base_concurrency
  Levels,       \* autoscale levels the RAM probe may set
  Interval,     \* checkpoint_interval; 0 for no periodic save
  Interrupts,   \* subset of {"signal", "cancel", "crash"}
  MaxInterrupts,\* bound: signals, cancellations and crashes
  MaxFailures,  \* bound: pages that fail or are dropped by the pipeline
  MaxSaveFaults,\* bound: saves and deletions of the checkpoint that fail
  MaxLoadFaults \* bound: loads that find no usable checkpoint in the file

ASSUME UrlsAssumption == IsFiniteSet(Urls) /\ Urls \subseteq Nat
ASSUME SeedAssumption == Seed \in Urls /\ ExtraSeeds \subseteq Urls
ASSUME LinksAssumption == Links \in [Urls -> SUBSET Urls]
ASSUME LevelsAssumption == Levels \subseteq {"Normal", "Reduced", "Critical"}
ASSUME LimitsAssumption == /\ MaxDepth \in Nat /\ MaxPages \in Nat
                           /\ Concurrency \in Nat \ {0} /\ Interval \in Nat
                           /\ MaxInterrupts \in Nat /\ MaxFailures \in Nat
                           /\ MaxSaveFaults \in Nat /\ MaxLoadFaults \in Nat

VARIABLES
  cp,        \* the checkpoint file
  pc,        \* the engine: "off", or the stage of the loop it is in
  visited,   \* CrawlScheduler.visited
  pending,   \* CrawlScheduler.pending
  queue,     \* UrlQueue.queue
  seen,      \* UrlQueue.seen
  task,      \* the JoinSet: the task of each page
  remaining, \* spawn_available_tasks' budget
  noted,     \* the page count build_checkpoint_state has read; 0 elsewhere
  counter,   \* ResultsCollector.counter
  pages,     \* pages_crawled
  shutdown,  \* the shutdown flag
  cancel,    \* the run's cancellation token
  level,     \* SharedConcurrencyLevel
  budget,    \* what the environment may still do
  found,     \* history: URLs this run, or the checkpoint it resumed, came to know
  processed  \* history: URLs whose task came to an end of its own, in this run and
             \* in the earlier ones that a checkpoint was to remember

engine == <<visited, pending, remaining, noted>>
shared == <<queue, seen, counter, pages>>
flags == <<shutdown, cancel, level>>
history == <<found, processed>>
vars == <<cp, pc, visited, pending, queue, seen, task, remaining, noted, counter,
          pages, shutdown, cancel, level, budget, found, processed>>

NoCheckpoint == [visited |-> {}, queued |-> <<>>, pages |-> 0, exists |-> FALSE]
NoTask == [at |-> "none", depth |-> 0, links |-> {}]
NoTasks == [u \in Urls |-> NoTask]

\* The tasks the JoinSet holds, and the ones it could join.
InFlight == {u \in Urls : task[u].at # "none"}
Finished == {u \in Urls : task[u].at = "done"}

Item(u, depth, source) == [url |-> u, depth |-> depth, source |-> source]

\* PrioritizedUrl::from_source, and its order: priority, then the smaller URL.
Priority(item) ==
  LET base == CASE item.source = "seed"    -> 1000
                [] item.source = "sitemap" -> 500
                [] item.source = "link"    -> 200
  IN IF base > item.depth * 10 THEN base - item.depth * 10 ELSE 1

Before(a, b) == \/ Priority(a) > Priority(b)
                \/ Priority(a) = Priority(b) /\ a.url < b.url

\* UrlQueue::drain_all and the order of snapshot_urls_bounded: the i-th item has
\* i - 1 others before it.
Drained(items) ==
  [i \in 1..Cardinality(items) |->
     CHOOSE a \in items : Cardinality({b \in items : Before(b, a)}) = i - 1]

\* effective_concurrency, can_spawn
EffectiveConcurrency == CASE level = "Normal"   -> Concurrency
                          [] level = "Reduced"  -> Concurrency \div 2
                          [] level = "Critical" -> 0

CanSpawn == Cardinality(InFlight) < EffectiveConcurrency

\* ResultsCollector::is_full
IsFull == counter >= MaxPages

\* Fault to seed in Snapshot: links that are still in the shared queue are left out.
SnapshotOfPending(count, front, items) ==
  LET urls == [i \in 1..Len(front) |-> front[i].url]
  IN [visited |-> visited, pages |-> count, exists |-> TRUE,
      queued |-> SubSeq(urls, 1, IF Len(urls) > MaxPages THEN MaxPages ELSE Len(urls))]

\* build_checkpoint_state with snapshot_pending_bounded: the page count it has
\* read, over the given frontier.
Snapshot(count, front, items) ==
  LET urls == [i \in 1..Len(front) |-> front[i].url]
              \o [i \in 1..Cardinality(items) |-> Drained(items)[i].url]
  IN [visited |-> visited, pages |-> count, exists |-> TRUE,
      queued |-> SubSeq(urls, 1, IF Len(urls) > MaxPages THEN MaxPages ELSE Len(urls))]

Init ==
  /\ cp = NoCheckpoint
  /\ pc = "off"
  /\ visited = {} /\ pending = <<>> /\ remaining = 0 /\ noted = 0
  /\ queue = {} /\ seen = {} /\ counter = 0 /\ pages = 0
  /\ task = NoTasks
  /\ shutdown = FALSE /\ cancel = FALSE /\ level = "Normal"
  /\ budget = [interrupt |-> MaxInterrupts, failure |-> MaxFailures,
               save |-> MaxSaveFaults, load |-> MaxLoadFaults]
  /\ found = {} /\ processed = {}

Spend(b) == budget[b] > 0 /\ budget' = [budget EXCEPT ![b] = @ - 1]

\* The checkpoint file is replaced or deleted, or that fails: the failure is
\* logged, and the file stays what it was.
FileChanges(state) == cp' = state /\ UNCHANGED budget
FileChangeFails == UNCHANGED cp /\ Spend("save")
-----------------------------------------------------------------------------
(* The engine.                                                             *)

\* begin: the checkpoint is loaded, or the file has none that can be used (it
\* cannot be read, is corrupt or of another version): the run starts afresh and
\* knows nothing of what was processed.
LoadCheckpoint(loaded) ==
  \/ /\ loaded = cp
     /\ UNCHANGED <<budget, processed>>
  \/ /\ cp.exists /\ loaded = NoCheckpoint
     /\ Spend("load")
     /\ processed' = {}

\* Fault to seed in RestoredPages: a resumed run counts from zero.
RestoredPagesFromZero(loaded) == 0

\* restore_pages_crawled
RestoredPages(loaded) == loaded.pages

\* restore_checkpoint_state, the seeding of run().
StartFrom(loaded) ==
  /\ visited' = loaded.visited
  /\ pending' = [i \in 1..Len(loaded.queued) |-> Item(loaded.queued[i], 0, "restored")]
                  \o <<Item(Seed, 0, "seed")>>
  /\ seen' = {Seed} \cup ExtraSeeds
  /\ queue' = {Item(Seed, 0, "seed")}
                \cup {Item(u, 1, "sitemap") : u \in ExtraSeeds \ {Seed}}
  /\ found' = {Seed} \cup ExtraSeeds \cup loaded.visited \cup Range(loaded.queued)
  /\ pages' = RestoredPages(loaded)

Begin ==
  /\ pc = "off"
  /\ \E loaded \in {cp, NoCheckpoint} : LoadCheckpoint(loaded) /\ StartFrom(loaded)
  /\ pc' = "top"
  /\ UNCHANGED <<cp, remaining, noted, counter, task, flags>>

\* Fault to seed in WorkLeft: the loop does not wait for the tasks in flight.
WorkLeftPending == pending # <<>>

\* The loop condition of crawl_loop.
WorkLeft == pending # <<>> \/ InFlight # {}

\* The two tests at the top of the loop.  A shutdown fires the token and starts to
\* save a checkpoint.
LoopTop ==
  /\ pc = "top"
  /\ pc' = CASE WorkLeft /\ shutdown             -> "stopping"
             [] WorkLeft /\ ~shutdown /\ ~IsFull  -> "join"
             [] OTHER                            -> "closing"
  /\ cancel' = (cancel \/ (WorkLeft /\ (shutdown \/ IsFull)))
  /\ noted' = IF WorkLeft /\ shutdown THEN pages ELSE noted
  /\ UNCHANGED <<cp, visited, pending, remaining, shared, task, shutdown, level,
                 budget, history>>

\* Fault to seed in ProcessCompletedTasks: no task is joined.
ProcessCompletedTasksJoinsNone ==
  /\ pc = "join"
  /\ pc' = IF IsFull THEN "closing" ELSE "drain"
  /\ cancel' = (cancel \/ IsFull)
  /\ UNCHANGED <<cp, engine, shared, task, shutdown, level, budget, history>>

\* process_completed_tasks, then the second is_full test.
ProcessCompletedTasks ==
  /\ pc = "join"
  /\ task' = [u \in Urls |-> IF u \in Finished THEN NoTask ELSE task[u]]
  /\ pc' = IF IsFull THEN "closing" ELSE "drain"
  /\ cancel' = (cancel \/ IsFull)
  /\ UNCHANGED <<cp, engine, shared, shutdown, level, budget, history>>

\* Faults to seed in RemainingBudget: tasks in flight are not counted; the
\* subtraction does not saturate.
RemainingBudgetOfCollected(collected, inFlight) ==
  IF collected >= MaxPages THEN 0 ELSE MaxPages - collected
RemainingBudgetUnsaturated(collected, inFlight) ==
  IF collected = MaxPages THEN 0 ELSE MaxPages - (collected + inFlight)

\* remaining_budget: saturating.
RemainingBudget(collected, inFlight) ==
  IF collected + inFlight >= MaxPages THEN 0 ELSE MaxPages - (collected + inFlight)

\* maybe_save_periodic_checkpoint
PeriodicSave == Interval # 0 /\ pages # 0 /\ pages % Interval = 0

\* drain_discovered; then a periodic checkpoint is started, or the budget of this
\* iteration computed.
DrainDiscovered ==
  /\ pc = "drain"
  /\ pending' = pending \o Drained(queue)
  /\ queue' = {}
  /\ pc' = IF PeriodicSave THEN "periodic" ELSE "spawn"
  /\ noted' = IF PeriodicSave THEN pages ELSE noted
  /\ remaining' = IF PeriodicSave THEN remaining
                  ELSE RemainingBudget(counter, Cardinality(InFlight))
  /\ UNCHANGED <<cp, visited, seen, counter, pages, task, flags, budget, history>>

\* The rest of save_checkpoint.  The tasks went on since the page count was read:
\* the frontier is the one of now.
PersistCheckpoint ==
  /\ pc \in {"periodic", "stopping"}
  /\ FileChanges(Snapshot(noted, pending, queue)) \/ FileChangeFails
  /\ noted' = 0
  /\ pc' = IF pc = "periodic" THEN "spawn" ELSE "closing"
  /\ remaining' = IF pc = "periodic"
                  THEN RemainingBudget(counter, Cardinality(InFlight)) ELSE remaining
  /\ UNCHANGED <<visited, pending, shared, task, flags, history>>

\* Fault to seed in NextUrl: a URL that was visited is handed out again.
NextUrlAny == IF pending = <<>> THEN 0 ELSE 1

\* next_url: the first pending URL that was not visited, 0 when there is none.
NextUrl == SelectInSeq(pending, LAMBDA item : item.url \notin visited)

\* One round of spawn_available_tasks: the URL is marked visited, its task starts.
SpawnTask ==
  /\ pc = "spawn"
  /\ remaining > 0 /\ CanSpawn
  /\ NextUrl # 0
  /\ LET item == pending[NextUrl] IN
     /\ visited' = visited \cup {item.url}
     /\ task' = [task EXCEPT ![item.url] =
                   [at |-> "pacing", depth |-> item.depth, links |-> {}]]
  /\ pending' = SubSeq(pending, NextUrl + 1, Len(pending))
  /\ remaining' = remaining - 1
  /\ UNCHANGED <<cp, pc, noted, shared, flags, budget, history>>

\* No budget, no slot (pending untouched) or nothing unvisited (all popped).
SpawnDone ==
  /\ pc = "spawn"
  /\ \/ (remaining = 0 \/ ~CanSpawn) /\ UNCHANGED pending
     \/ remaining > 0 /\ CanSpawn /\ NextUrl = 0 /\ pending' = <<>>
  /\ pc' = "wait"
  /\ UNCHANGED <<cp, visited, remaining, noted, shared, task, flags, budget, history>>

\* wait_for_task: only with work left and no free slot; the bound on the wait
\* lets the loop go on.
WaitForTask ==
  /\ pc = "wait"
  /\ \/ /\ ~CanSpawn /\ pending # <<>>
        /\ \E u \in Finished : task' = [task EXCEPT ![u] = NoTask]
     \/ /\ CanSpawn \/ pending = <<>> \/ Finished = {}
        /\ UNCHANGED task
  /\ pc' = "top"
  /\ UNCHANGED <<cp, engine, shared, flags, budget, history>>

\* drain_tasks: everyone ended in time, or the bound passed and the rest is
\* aborted.
DrainTasks ==
  /\ pc = "closing"
  /\ InFlight = Finished
  /\ task' = NoTasks
  /\ pc' = "finish"
  /\ UNCHANGED <<cp, engine, shared, flags, budget, history>>

\* Fault to seed in AbortTasks: the wait for the tasks has no bound.
AbortTasksUnbounded == DrainTasks

AbortTasks ==
  /\ pc = "closing"
  /\ InFlight # Finished
  /\ task' = NoTasks
  /\ pc' = "finish"
  /\ UNCHANGED <<cp, engine, shared, flags, budget, history>>

\* completed_fully
CompletedFully == ~shutdown /\ pending = <<>> /\ ~IsFull

\* The process ends: nothing but the checkpoint file is left.
ProcessEnds ==
  /\ pc' = "off"
  /\ visited' = {} /\ pending' = <<>> /\ remaining' = 0 /\ noted' = 0
  /\ queue' = {} /\ seen' = {} /\ counter' = 0 /\ pages' = 0
  /\ task' = NoTasks
  /\ shutdown' = FALSE /\ cancel' = FALSE /\ level' = "Normal"
  /\ found' = {}

\* finish: a complete crawl deletes its checkpoint, any other writes one.  No task
\* is left, so the snapshot is of one moment.  After a change that failed, the
\* next run remembers only what the old file records.
Finish ==
  /\ pc = "finish"
  /\ \/ /\ FileChanges(IF CompletedFully THEN NoCheckpoint
                        ELSE Snapshot(pages, pending, queue))
        /\ processed' = IF CompletedFully THEN {} ELSE processed
     \/ /\ FileChangeFails
        /\ processed' = processed \cap cp.visited
  /\ ProcessEnds
-----------------------------------------------------------------------------
(* The task of a page: run_crawl_task.                                     *)

Move(u, at) == task' = [task EXCEPT ![u] = [at |-> at, depth |-> @.depth,
                                            links |-> @.links]]

\* until_ready_or_cancel: a permit, or the cancellation.
Paced(u) ==
  /\ task[u].at = "pacing"
  /\ Move(u, "fetching")
  /\ UNCHANGED <<cp, pc, engine, shared, flags, budget, history>>

PacingCancelled(u) ==
  /\ task[u].at = "pacing"
  /\ cancel
  /\ Move(u, "done")
  /\ UNCHANGED <<cp, pc, engine, shared, flags, budget, history>>

\* No session, a fetch error, a panic: nothing is collected.
FetchFails(u) ==
  /\ task[u].at = "fetching"
  /\ Spend("failure")
  /\ Move(u, "done")
  /\ processed' = processed \cup {u}
  /\ UNCHANGED <<cp, pc, engine, shared, flags, found>>

\* The fetch succeeds: the page is counted before the pipeline sees it.
Fetched(u) ==
  /\ task[u].at = "fetching"
  /\ Move(u, "fetched")
  /\ pages' = pages + 1
  /\ UNCHANGED <<cp, pc, engine, queue, seen, counter, flags, budget, history>>

\* run_pipeline: the page is filtered, rejected or fails.
PipelineDrops(u) ==
  /\ task[u].at = "fetched"
  /\ Spend("failure")
  /\ Move(u, "done")
  /\ processed' = processed \cup {u}
  /\ UNCHANGED <<cp, pc, engine, shared, flags, found>>

\* Faults to seed in LinksToFollow: off by one, either way.
LinksToFollowPastDepth(u) == IF task[u].depth <= MaxDepth THEN Links[u] ELSE {}
LinksToFollowShort(u) == IF task[u].depth + 1 < MaxDepth THEN Links[u] ELSE {}

\* The guard of extract_and_queue_links.
LinksToFollow(u) == IF task[u].depth < MaxDepth THEN Links[u] ELSE {}

\* The result is sent; the links are extracted up to max_depth.
Collect(u) ==
  /\ task[u].at = "fetched"
  /\ counter' = counter + 1
  /\ task' = [task EXCEPT ![u] = [at |-> "links", depth |-> @.depth,
                                  links |-> LinksToFollow(u)]]
  /\ processed' = processed \cup {u}
  /\ UNCHANGED <<cp, pc, engine, queue, seen, pages, flags, budget, found>>

\* extract_links returns an error: no link of the page is queued.
ExtractFails(u) ==
  /\ task[u].at = "links"
  /\ task[u].links = LinksToFollow(u) /\ task[u].links # {}
  /\ Spend("failure")
  /\ Move(u, "done")
  /\ UNCHANGED <<cp, pc, engine, shared, flags, history>>

\* push_prioritized: one link at a time, past the engine's drain.
PushLink(u, v) ==
  /\ task[u].at = "links"
  /\ v \in task[u].links
  /\ task' = [task EXCEPT ![u] = [at |-> "links", depth |-> @.depth,
                                  links |-> @.links \ {v}]]
  /\ seen' = seen \cup {v}
  /\ queue' = IF v \in seen THEN queue
              ELSE queue \cup {Item(v, task[u].depth + 1, "link")}
  /\ found' = found \cup {v}
  /\ UNCHANGED <<cp, pc, engine, counter, pages, flags, budget, processed>>

TaskReturns(u) ==
  /\ task[u].at = "links" /\ task[u].links = {}
  /\ Move(u, "done")
  /\ UNCHANGED <<cp, pc, engine, shared, flags, budget, history>>
-----------------------------------------------------------------------------
(* The environment.                                                        *)

\* spawn_signal_handler: the flag, then the token.
Signal ==
  /\ "signal" \in Interrupts
  /\ pc # "off" /\ ~shutdown
  /\ Spend("interrupt")
  /\ shutdown' = TRUE /\ cancel' = TRUE
  /\ UNCHANGED <<cp, pc, engine, shared, task, level, history>>

\* A holder of cancel_handle() fires the token.
CancelHandle ==
  /\ "cancel" \in Interrupts
  /\ pc # "off" /\ ~cancel
  /\ Spend("interrupt")
  /\ cancel' = TRUE
  /\ UNCHANGED <<cp, pc, engine, shared, task, shutdown, level, history>>

\* The autoscale poller.
SetLevel(l) ==
  /\ pc # "off" /\ level # l
  /\ level' = l
  /\ UNCHANGED <<cp, pc, engine, shared, task, shutdown, cancel, budget, history>>

\* Process death: the next run remembers what the checkpoint file records.
Crash ==
  /\ "crash" \in Interrupts
  /\ pc # "off"
  /\ Spend("interrupt")
  /\ ProcessEnds
  /\ processed' = processed \cap cp.visited
  /\ UNCHANGED cp
-----------------------------------------------------------------------------
EngineStep == \/ LoopTop \/ ProcessCompletedTasks \/ DrainDiscovered
              \/ PersistCheckpoint \/ SpawnTask \/ SpawnDone \/ WaitForTask
              \/ DrainTasks \/ AbortTasks \/ Finish

TaskStep(u) == \/ Paced(u) \/ PacingCancelled(u) \/ FetchFails(u)
               \/ Fetched(u) \/ PipelineDrops(u) \/ Collect(u)
               \/ ExtractFails(u) \/ TaskReturns(u)
               \/ \E v \in Urls : PushLink(u, v)

Next == \/ Begin
        \/ EngineStep
        \/ \E u \in Urls : TaskStep(u)
        \/ Signal \/ CancelHandle \/ Crash
        \/ \E l \in Levels : SetLevel(l)

Spec == Init /\ [][Next]_vars

\* The runtime schedules the engine.  No task is assumed to make progress:
\* workers may be wedged.
EngineFairSpec == Spec /\ WF_vars(EngineStep)
-----------------------------------------------------------------------------
(* Properties.                                                             *)

TypeOK ==
  /\ cp \in [visited : SUBSET Urls, queued : Seq(Urls), pages : Nat,
             exists : BOOLEAN]
  /\ pc \in {"off", "top", "join", "drain", "periodic", "spawn", "wait", "stopping",
            "closing", "finish"}
  /\ visited \in SUBSET Urls
  /\ \A i \in 1..Len(pending) : pending[i].url \in Urls /\ pending[i].depth \in Nat
  /\ \A item \in queue : item.url \in Urls /\ item.depth \in Nat
  /\ seen \in SUBSET Urls
  /\ task \in [Urls -> [at : {"none", "pacing", "fetching", "fetched", "links", "done"},
                       depth : Nat, links : SUBSET Urls]]
  /\ remaining \in Nat /\ noted \in Nat /\ counter \in Nat /\ pages \in Nat
  /\ shutdown \in BOOLEAN /\ cancel \in BOOLEAN
  /\ level \in {"Normal"} \cup Levels
  /\ budget \in [{"interrupt", "failure", "save", "load"} -> Nat]
  /\ found \in SUBSET Urls /\ processed \in SUBSET Urls

\* A run never collects more than max_pages results, although pages complete
\* while the loop dispatches others (issue #1599).
CollectedWithinBudget == counter <= MaxPages

\* A run that ends as a complete crawl has visited every URL it came to know: the
\* seeds, what the checkpoint it resumed from held, and every link its own tasks
\* queued while the loop was draining, dispatching or waiting.  (What an earlier
\* run knew and no checkpoint recorded is lost, and not claimed here.)
CompleteMeansAllVisited ==
  (pc = "finish" /\ CompletedFully) => found \subseteq visited

\* A checkpoint that is written records every URL the run knows, as visited or as
\* queued, although tasks queue links while it is built; unless its list is full,
\* max_pages URLs long.
SaveKeepsFrontier ==
  [][(cp'.exists /\ cp' # cp)
       => \/ found \subseteq cp'.visited \cup Range(cp'.queued)
          \/ Len(cp'.queued) = MaxPages]_vars

\* No page is fetched twice in a run, nor by a resumed run when an earlier one had
\* processed it: any page of a run that could save its last checkpoint; the pages
\* the file records, after a crash or a save or deletion that failed.  (A run that
\* cannot use its checkpoint starts afresh.)
NoRefetch ==
  [][\A u \in Urls : (task[u].at = "none" /\ task'[u].at = "pacing")
                      => u \notin processed]_vars

\* The durable page counter never goes back while a checkpoint is replaced, though
\* it is read before the checkpoint is complete and saves may fail (issue #1843);
\* as long as no run found its checkpoint unusable, which counts from zero.
PagesNeverRegress ==
  [][(budget["load"] = MaxLoadFaults /\ cp.exists /\ cp'.exists)
       => cp'.pages >= cp.pages]_vars

\* The pages at most n links away from the seed (sitemap leaves count as one).
Within[n \in 0..MaxDepth] ==
  IF n = 0 THEN {Seed}
  ELSE Within[n - 1] \cup ExtraSeeds \cup UNION {Links[u] : u \in Within[n - 1]}

\* No page farther than max_depth links from the seed is visited.
WithinDepth == visited \subseteq Within[MaxDepth]

\* A complete crawl in which no page failed visited every page up to max_depth.
CoversDepth ==
  (pc = "finish" /\ CompletedFully /\ budget["failure"] = MaxFailures)
     => Within[MaxDepth] \subseteq visited

\* What a checkpoint calls visited was processed, once the run is over.
VisitedIsProcessed == pc = "off" => cp.visited \subseteq processed

\* A cancellation is the same as a shutdown by a signal: a run that it stopped
\* with pages unprocessed does not end as a complete crawl.
CancelledIsNotComplete ==
  (pc = "finish" /\ cancel /\ CompletedFully) => found \subseteq processed

\* Every run ends, if the tasks are scheduled too.
CrawlTerminates ==
  (\A u \in Urls : WF_vars(TaskStep(u))) => ((pc # "off") ~> (pc = "off"))

\* A shutdown ends the run even if every worker is wedged (issue #509).
ShutdownTerminates == shutdown ~> (pc = "off")
=============================================================================
