-------------------------- MODULE CrawlEngineProofs --------------------------
(***************************************************************************)
(* The crawl, for every site, limit and concurrency: its types, its page   *)
(* budget, no page fetched twice, the durable counter, what a complete     *)
(* crawl has visited and a checkpoint records, and the depth limit from    *)
(* both sides.                                                             *)
(***************************************************************************)
EXTENDS CrawlEngine, FiniteSetTheorems, SequenceTheorems, WellFoundedInduction, TLAPS

\* The tasks that may still add a result.  A task that has collected its page
\* stays in the JoinSet until the loop joins it, so the loop counts it twice.
Uncounted == {u \in Urls : task[u].at \in {"pacing", "fetching", "fetched"}}

\* What the dispatch loop may still start.
Dispatchable == IF pc = "spawn" THEN remaining ELSE 0

\* The counter alone is not inductive: a task in flight raises it later.  What
\* is kept is the sum of the results, of the tasks that may still produce one,
\* and of the spawns the current iteration has been granted.
BudgetInv ==
  /\ task = [u \in Urls |-> task[u]]
  /\ counter \in Nat /\ remaining \in Nat
  /\ counter + Cardinality(Uncounted) + Dispatchable <= MaxPages

\* Sets of tasks are finite.
LEMMA TaskSetsFinite ==
  ASSUME NEW S, S \subseteq Urls
  PROVE  IsFiniteSet(S) /\ Cardinality(S) \in Nat
BY UrlsAssumption, FS_Subset, FS_CardinalityType

\* A step that starts no task and collects nothing keeps the budget.
LEMMA BudgetKept ==
  ASSUME BudgetInv, task' = [u \in Urls |-> task'[u]],
         Uncounted' \subseteq Uncounted, counter' = counter,
         remaining' = remaining, pc' # "spawn" \/ pc = "spawn"
  PROVE  BudgetInv'
<1>1. Uncounted \subseteq Urls /\ Uncounted' \subseteq Urls
  BY DEF Uncounted
<1>2. Cardinality(Uncounted') <= Cardinality(Uncounted)
  BY <1>1, TaskSetsFinite, FS_Subset
<1>3. Cardinality(Uncounted) \in Nat /\ Cardinality(Uncounted') \in Nat
  BY <1>1, TaskSetsFinite
<1>4. Dispatchable' <= Dispatchable /\ Dispatchable \in Nat /\ Dispatchable' \in Nat
  BY DEF Dispatchable, BudgetInv
<1> QED BY <1>2, <1>3, <1>4, LimitsAssumption DEF BudgetInv

\* A step that leaves the tasks alone.
LEMMA TasksUntouched ==
  ASSUME BudgetInv, UNCHANGED task
  PROVE  task' = [u \in Urls |-> task'[u]] /\ Uncounted' \subseteq Uncounted
BY DEF BudgetInv, Uncounted

\* A task that moves on without collecting.
LEMMA TaskMoves ==
  ASSUME BudgetInv, NEW u \in Urls, NEW at, NEW depth, NEW links,
         at \in {"fetching", "fetched"} => u \in Uncounted,
         at \in {"fetching", "fetched", "links", "done", "none"},
         task' = [task EXCEPT ![u] = [at |-> at, depth |-> depth, links |-> links]]
  PROVE  task' = [v \in Urls |-> task'[v]] /\ Uncounted' \subseteq Uncounted
<1>1. task' = [v \in Urls |-> IF v = u THEN [at |-> at, depth |-> depth,
                                             links |-> links]
                              ELSE task[v]]
  BY DEF BudgetInv
<1>2. \A v \in Urls : task'[v].at = IF v = u THEN at ELSE task[v].at
  BY <1>1
<1> QED BY <1>1, <1>2 DEF Uncounted

\* The end of a process.
LEMMA EndKeepsBudget ==
  ASSUME BudgetInv, ProcessEnds
  PROVE  BudgetInv'
<1>1. Uncounted' = {}
  BY DEF Uncounted, ProcessEnds, NoTasks, NoTask
<1>2. Cardinality(Uncounted') = 0
  BY <1>1, FS_EmptySet
<1> QED BY <1>2, LimitsAssumption
        DEF BudgetInv, ProcessEnds, NoTasks, NoTask, Dispatchable

\* The budget of an iteration: what is left of max_pages once the results and
\* every task in flight are taken off.
LEMMA GrantKeepsBudget ==
  ASSUME BudgetInv, UNCHANGED <<task, counter>>, pc' = "spawn",
         remaining' = RemainingBudget(counter, Cardinality(InFlight))
  PROVE  BudgetInv'
<1> DEFINE n == Cardinality(Uncounted)
           f == Cardinality(InFlight)
<1>1. Uncounted \subseteq InFlight /\ InFlight \subseteq Urls
  BY DEF Uncounted, InFlight
<1>2. n <= f /\ n \in Nat /\ f \in Nat
  BY <1>1, TaskSetsFinite, FS_Subset
<1>3. remaining' = RemainingBudget(counter, f)
  OBVIOUS
<1>4. Cardinality(Uncounted') = n
  BY DEF Uncounted
<1>5. counter \in Nat /\ counter + n <= MaxPages /\ MaxPages \in Nat
  <2>1. Dispatchable \in Nat
    BY DEF Dispatchable, BudgetInv
  <2> HIDE DEF n
  <2> QED BY <1>2, <2>1, LimitsAssumption DEF BudgetInv, n
<1> HIDE DEF n, f
<1>6. remaining' \in Nat /\ counter + n + remaining' <= MaxPages
  BY <1>2, <1>3, <1>5 DEF RemainingBudget
<1> QED BY <1>4, <1>5, <1>6 DEF BudgetInv, Dispatchable

\* A spawn takes one from what the iteration was granted.
LEMMA SpawnKeepsBudget ==
  ASSUME BudgetInv, SpawnTask
  PROVE  BudgetInv'
<1> DEFINE x == pending[NextUrl].url
           n == Cardinality(Uncounted)
<1>1. /\ task' = [task EXCEPT ![x] = [at |-> "pacing",
                                     depth |-> pending[NextUrl].depth,
                                     links |-> {}]]
      /\ pc = "spawn" /\ pc' = pc /\ counter' = counter
      /\ remaining > 0 /\ remaining' = remaining - 1
  BY DEF SpawnTask, shared
<1>2. /\ task' = [u \in Urls |-> task'[u]]
      /\ Uncounted' \subseteq Uncounted \cup {x}
  <2> HIDE DEF x
  <2> QED BY <1>1 DEF BudgetInv, Uncounted
<1>3. Uncounted \subseteq Urls /\ Uncounted' \subseteq Urls
  BY DEF Uncounted
<1>4. n \in Nat /\ Cardinality(Uncounted') \in Nat /\ IsFiniteSet(Uncounted)
  BY <1>3, TaskSetsFinite
<1>5. Cardinality(Uncounted') <= n + 1
  <2>1. /\ IsFiniteSet(Uncounted \cup {x})
        /\ Cardinality(Uncounted \cup {x}) \in {n, n + 1}
    BY <1>4, FS_AddElement
  <2>2. Cardinality(Uncounted') <= Cardinality(Uncounted \cup {x})
    BY <1>2, <2>1, FS_Subset
  <2> HIDE DEF x, n
  <2> QED BY <1>4, <2>1, <2>2
<1> HIDE DEF x, n
<1>6. counter \in Nat /\ remaining \in Nat /\ counter + n + remaining <= MaxPages
  BY <1>1 DEF BudgetInv, Dispatchable, n
<1>7. remaining' \in Nat
      /\ counter' + Cardinality(Uncounted') + remaining' <= MaxPages
  BY <1>1, <1>4, <1>5, <1>6, LimitsAssumption
<1> QED BY <1>1, <1>2, <1>6, <1>7 DEF BudgetInv, Dispatchable

\* A collected page moves from the tasks that may still count to the counter.
LEMMA CollectKeepsBudget ==
  ASSUME BudgetInv, NEW u \in Urls, Collect(u)
  PROVE  BudgetInv'
<1> DEFINE n == Cardinality(Uncounted)
<1>1. /\ task' = [task EXCEPT ![u] = [at |-> "links", depth |-> task[u].depth,
                                      links |-> LinksToFollow(u)]]
      /\ task[u].at = "fetched" /\ counter' = counter + 1
      /\ UNCHANGED <<pc, remaining>>
  BY DEF Collect, engine
<1>2. /\ task' = [v \in Urls |-> task'[v]]
      /\ Uncounted' = Uncounted \ {u} /\ u \in Uncounted
  BY <1>1 DEF BudgetInv, Uncounted
<1>3. Uncounted \subseteq Urls
  BY DEF Uncounted
<1>4. n \in Nat /\ IsFiniteSet(Uncounted)
  BY <1>3, TaskSetsFinite
<1>5. Cardinality(Uncounted') = n - 1
  BY <1>2, <1>4, FS_RemoveElement
<1>6. Dispatchable \in Nat /\ Dispatchable' = Dispatchable
  BY <1>1 DEF Dispatchable, BudgetInv
<1> HIDE DEF n
<1>7. counter \in Nat /\ counter + n + Dispatchable <= MaxPages
  BY DEF BudgetInv, n
<1>8. /\ counter' \in Nat
      /\ counter' + Cardinality(Uncounted') + Dispatchable' <= MaxPages
  BY <1>1, <1>4, <1>5, <1>6, <1>7, LimitsAssumption
<1> QED BY <1>1, <1>2, <1>8 DEF BudgetInv

\* A run never collects more than max_pages results, whatever the site, the
\* concurrency, the autoscale level, the interrupts and the failures: the
\* dispatch cap of issue #1599 is enough.
THEOREM BudgetHolds == Spec => []CollectedWithinBudget
<1>1. Init => BudgetInv
  <2> SUFFICES ASSUME Init PROVE BudgetInv
    OBVIOUS
  <2>1. Uncounted = {}
    BY DEF Init, Uncounted, NoTasks, NoTask
  <2>2. Cardinality(Uncounted) = 0
    BY <2>1, FS_EmptySet
  <2> QED BY <2>2, LimitsAssumption
          DEF Init, BudgetInv, Dispatchable, NoTasks, NoTask
<1>2. BudgetInv /\ [Next]_vars => BudgetInv'
  <2> SUFFICES ASSUME BudgetInv, [Next]_vars PROVE BudgetInv'
    OBVIOUS
  <2>1. CASE Begin \/ LoopTop \/ SpawnDone \/ Signal \/ CancelHandle
             \/ (\E l \in Levels : SetLevel(l)) \/ UNCHANGED vars
    <3>1. UNCHANGED <<task, counter, remaining>> /\ (pc' # "spawn" \/ pc = "spawn")
      BY <2>1 DEF Begin, LoopTop, SpawnDone, Signal, CancelHandle, SetLevel, vars,
         engine, shared
    <3> QED BY <3>1, TasksUntouched, BudgetKept
  <2>2. CASE ProcessCompletedTasks \/ DrainTasks \/ AbortTasks
    <3>1. UNCHANGED <<counter, remaining>> /\ pc' # "spawn"
      BY <2>2 DEF ProcessCompletedTasks, DrainTasks, AbortTasks, engine, shared
    <3>2. task' = [u \in Urls |-> task'[u]] /\ Uncounted' \subseteq Uncounted
      BY <2>2 DEF ProcessCompletedTasks, DrainTasks, AbortTasks, NoTasks, NoTask,
         Uncounted, BudgetInv
    <3> QED BY <3>1, <3>2, BudgetKept
  <2>3. CASE WaitForTask
    <3>1. UNCHANGED <<counter, remaining>> /\ pc' # "spawn"
      BY <2>3 DEF WaitForTask, engine, shared
    <3>2. task' = [u \in Urls |-> task'[u]] /\ Uncounted' \subseteq Uncounted
      BY <2>3, TasksUntouched DEF WaitForTask, Finished, NoTask, Uncounted, BudgetInv
    <3> QED BY <3>1, <3>2, BudgetKept
  <2>4. CASE DrainDiscovered \/ PersistCheckpoint
    <3>1. UNCHANGED <<task, counter>>
      BY <2>4 DEF DrainDiscovered, PersistCheckpoint, shared
    <3>2. \/ pc' = "spawn" /\ remaining' = RemainingBudget(counter, Cardinality(InFlight))
          \/ pc' # "spawn" /\ UNCHANGED remaining
      BY <2>4 DEF DrainDiscovered, PersistCheckpoint
    <3> QED BY <3>1, <3>2, GrantKeepsBudget, TasksUntouched, BudgetKept
  <2>5. CASE SpawnTask
    BY <2>5, SpawnKeepsBudget
  <2>6. CASE Finish \/ Crash
    BY <2>6, EndKeepsBudget DEF Finish, Crash
  <2>7. ASSUME NEW u \in Urls, Collect(u) PROVE BudgetInv'
    BY <2>7, CollectKeepsBudget
  <2>8. ASSUME NEW u \in Urls,
               Paced(u) \/ PacingCancelled(u) \/ FetchFails(u) \/ Fetched(u)
               \/ PipelineDrops(u) \/ ExtractFails(u) \/ TaskReturns(u)
               \/ (\E v \in Urls : PushLink(u, v))
        PROVE  BudgetInv'
    <3>1. UNCHANGED <<pc, counter, remaining>>
      BY <2>8 DEF Paced, PacingCancelled, FetchFails, Fetched, PipelineDrops,
         ExtractFails, TaskReturns, PushLink, engine, shared
    <3>2. \E at, links :
            /\ at \in {"fetching", "fetched"} => u \in Uncounted
            /\ at \in {"fetching", "fetched", "links", "done", "none"}
            /\ task' = [task EXCEPT ![u] = [at |-> at, depth |-> task[u].depth,
                                            links |-> links]]
      BY <2>8 DEF Paced, PacingCancelled, FetchFails, Fetched, PipelineDrops,
         ExtractFails, TaskReturns, PushLink, Move, BudgetInv, Uncounted
    <3>3. task' = [v \in Urls |-> task'[v]] /\ Uncounted' \subseteq Uncounted
      BY <3>2, TaskMoves
    <3> QED BY <3>1, <3>3, BudgetKept
  <2> QED BY <2>1, <2>2, <2>3, <2>4, <2>5, <2>6, <2>7, <2>8
          DEF Next, EngineStep, TaskStep
<1>3. BudgetInv => CollectedWithinBudget
  <2> SUFFICES ASSUME BudgetInv PROVE counter <= MaxPages
    BY DEF CollectedWithinBudget
  <2>1. Cardinality(Uncounted) \in Nat
    BY TaskSetsFinite DEF Uncounted
  <2>2. Dispatchable \in Nat
    BY DEF Dispatchable, BudgetInv
  <2> QED BY <2>1, <2>2, LimitsAssumption DEF BudgetInv
<1> QED BY <1>1, <1>2, <1>3, PTL DEF Spec
-----------------------------------------------------------------------------
(* No page is fetched twice.                                               *)

\* A set of numbers has a least one.
LEMMA LeastNat ==
  ASSUME NEW S, S \subseteq Nat, S # {}
  PROVE  Min(S) \in S /\ \A y \in S : Min(S) <= y
<1> DEFINE R == {ss \in Nat \X Nat : ss[1] < ss[2]}
<1>1. IsWellFoundedOn(R, Nat)
  BY NatLessThanWellFounded DEF OpToRel
<1>2. PICK x \in S : \A y \in S : ~(<<y, x>> \in R)
  <2> HIDE DEF R
  <2> QED BY <1>1, WFMin
<1>3. ASSUME NEW y \in S PROVE x =< y
  <2>1. x \in Nat /\ y \in Nat /\ ~(<<y, x>> \in R)
    BY <1>2
  <2>2. y < x => <<y, x>> \in R
    BY <2>1
  <2> QED BY <2>1, <2>2
<1> QED BY <1>3 DEF Min

\* next_url hands out a URL that was not visited.
LEMMA NextIsUnvisited == NextUrl # 0 => pending[NextUrl].url \notin visited
<1> DEFINE I == {i \in 1..Len(pending) : pending[i].url \notin visited}
<1>1. NextUrl = IF I # {} THEN Min(I) ELSE 0
  BY DEF NextUrl, SelectInSeq
<1>2. I \subseteq Nat
  OBVIOUS
<1>3. I # {} => Min(I) \in I
  <2> HIDE DEF I
  <2> QED BY <1>2, LeastNat
<1> QED BY <1>1, <1>3

\* What was processed was dispatched before, and so is marked visited: in the
\* scheduler while a run goes on, in the checkpoint between two runs.
VisitInv ==
  /\ task = [u \in Urls |-> task[u]]
  /\ pc = "off" => InFlight = {} /\ processed \subseteq cp.visited
  /\ pc # "off" => InFlight \cup processed \subseteq visited

\* The steps of a task keep the set of tasks in flight, and process only those.
LEMMA TaskVisits ==
  ASSUME VisitInv, NEW u \in Urls, TaskStep(u)
  PROVE  VisitInv' /\ \A v \in Urls : task'[v].at # "pacing" \/ task[v].at = "pacing"
<1>1. PICK at, links : /\ task[u].at # "none" /\ at \notin {"none", "pacing"}
                       /\ task' = [task EXCEPT ![u] = [at |-> at, depth |-> task[u].depth, links |-> links]]
  BY DEF TaskStep, Paced, PacingCancelled, FetchFails, Fetched, PipelineDrops, Collect, ExtractFails, TaskReturns,
     PushLink, Move, VisitInv
<1>2. task' = [v \in Urls |-> IF v = u THEN [at |-> at, depth |-> task[u].depth, links |-> links] ELSE task[v]]
  BY <1>1 DEF VisitInv
<1>3. InFlight' = InFlight /\ u \in InFlight
  BY <1>1, <1>2 DEF InFlight
<1>4. UNCHANGED <<cp, pc, visited>> /\ processed' \subseteq processed \cup {u}
  BY DEF TaskStep, Paced, PacingCancelled, FetchFails, Fetched, PipelineDrops, Collect, ExtractFails, TaskReturns,
     PushLink, engine, history
<1>5. \A v \in Urls : task'[v].at # "pacing" \/ task[v].at = "pacing"
  BY <1>1, <1>2
<1>6. task' = [v \in Urls |-> task'[v]]
  BY <1>2
<1> QED BY <1>3, <1>4, <1>5, <1>6 DEF VisitInv

\* The steps that start no task.
LEMMA EngineVisits ==
  ASSUME VisitInv, task' = [v \in Urls |-> task'[v]], InFlight' \subseteq InFlight,
         visited' = visited, processed' = processed, pc # "off", pc' # "off"
  PROVE  VisitInv'
BY DEF VisitInv

\* Every step keeps the invariant and starts no task for a processed page.
LEMMA VisitStep ==
  ASSUME VisitInv, [Next]_vars
  PROVE  /\ VisitInv'
         /\ \A u \in Urls : (task[u].at = "none" /\ task'[u].at = "pacing") => u \notin processed
<1> DEFINE Starts == \A u \in Urls : (task[u].at = "none" /\ task'[u].at = "pacing") => u \notin processed
<1>1. CASE Begin
  <2>1. pc = "off" /\ pc' # "off" /\ UNCHANGED task /\ processed' \subseteq visited'
    BY <1>1 DEF Begin, LoadCheckpoint, StartFrom, VisitInv
  <2> QED BY <2>1 DEF VisitInv, InFlight
<1>2. CASE LoopTop \/ DrainDiscovered \/ PersistCheckpoint \/ SpawnDone \/ Signal \/ CancelHandle
           \/ (\E l \in Levels : SetLevel(l))
  <2>1. UNCHANGED <<task, visited, processed>> /\ pc # "off" /\ pc' # "off"
    BY <1>2 DEF LoopTop, DrainDiscovered, PersistCheckpoint, SpawnDone, Signal, CancelHandle, SetLevel, engine, history
  <2> QED BY <2>1, EngineVisits DEF VisitInv, InFlight
<1>3. CASE ProcessCompletedTasks \/ WaitForTask \/ DrainTasks \/ AbortTasks
  <2>1. UNCHANGED <<visited, processed>> /\ pc # "off" /\ pc' # "off"
    BY <1>3 DEF ProcessCompletedTasks, WaitForTask, DrainTasks, AbortTasks, engine, history
  <2>2. \A v \in Urls : task'[v] = task[v] \/ task'[v] = NoTask
    BY <1>3 DEF ProcessCompletedTasks, WaitForTask, DrainTasks, AbortTasks, NoTasks, Finished, VisitInv
  <2>3. task' = [v \in Urls |-> task'[v]]
    BY <1>3 DEF ProcessCompletedTasks, WaitForTask, DrainTasks, AbortTasks, NoTasks, Finished, VisitInv
  <2>4. \A v \in Urls : task'[v].at = task[v].at \/ task'[v].at = "none"
    BY <2>2 DEF NoTask
  <2> QED BY <2>1, <2>3, <2>4, EngineVisits DEF InFlight
<1>4. CASE SpawnTask
  <2> DEFINE x == pending[NextUrl].url
             t == [at |-> "pacing", depth |-> pending[NextUrl].depth, links |-> {}]
  <2>1. /\ pc = "spawn" /\ pc' = pc /\ UNCHANGED <<cp, processed>>
        /\ visited' = visited \cup {x} /\ task' = [task EXCEPT ![x] = t]
    BY <1>4 DEF SpawnTask, history
  <2>2. x \notin visited
    BY <1>4, NextIsUnvisited DEF SpawnTask
  <2> HIDE DEF x, t
  <2>3. task' = [v \in Urls |-> task'[v]] /\ \A v \in Urls : v # x => task'[v] = task[v]
    BY <2>1 DEF VisitInv
  <2>4. InFlight' \subseteq InFlight \cup {x}
    BY <2>3 DEF InFlight
  <2>5. Starts
    BY <2>1, <2>2, <2>3 DEF VisitInv
  <2> QED BY <2>1, <2>3, <2>4, <2>5 DEF VisitInv
<1>5. CASE Finish \/ Crash
  <2>1. pc' = "off" /\ pc # "off" /\ task' = NoTasks
    BY <1>5 DEF Finish, Crash, ProcessEnds
  <2>2. task' = [u \in Urls |-> task'[u]] /\ InFlight' = {}
    BY <2>1 DEF InFlight, NoTasks, NoTask
  <2>3. processed' \subseteq cp'.visited
    BY <1>5, <2>1 DEF Finish, Crash, FileChanges, FileChangeFails, Snapshot, VisitInv
  <2>4. \A u \in Urls : task'[u].at = "none"
    BY <2>1 DEF NoTasks, NoTask
  <2> QED BY <2>1, <2>2, <2>3, <2>4 DEF VisitInv
<1>6. ASSUME NEW u \in Urls, TaskStep(u) PROVE VisitInv' /\ Starts
  BY <1>6, TaskVisits
<1>7. CASE UNCHANGED vars
  BY <1>7 DEF vars, VisitInv, InFlight
<1> QED BY <1>1, <1>2, <1>3, <1>4, <1>5, <1>6, <1>7 DEF Next, EngineStep

\* No page is fetched twice in a run, nor by a resumed run when the runs before it
\* had processed it and could save their last checkpoint, or the file records it:
\* for every site and every sequence of stops, crashes, saves and deletions that
\* fail, and loads.
THEOREM NeverRefetched == Spec => NoRefetch
<1>1. Init => VisitInv
  BY DEF Init, VisitInv, InFlight, NoTasks, NoTask, NoCheckpoint
<1>2. VisitInv /\ [Next]_vars => VisitInv'
  BY VisitStep
<1>3. VisitInv /\ [Next]_vars =>
        [\A u \in Urls : (task[u].at = "none" /\ task'[u].at = "pacing") => u \notin processed]_vars
  BY VisitStep
<1> QED BY <1>1, <1>2, <1>3, PTL DEF Spec, NoRefetch

-----------------------------------------------------------------------------
(* The order in which the queue is drained.                                *)

\* What the discovery queue holds.
QueueItems == [url : Urls, depth : Nat, source : {"seed", "sitemap", "link"}]
DistinctUrls(S) == \A a, b \in S : a.url = b.url => a = b

\* How many items come out before a.
Rank(S, a) == Cardinality({b \in S : Before(b, a)})

\* A priority is a number.
LEMMA PriorityNat ==
  ASSUME NEW a \in QueueItems
  PROVE  Priority(a) \in Nat
<1>1. a.depth \in Nat /\ a.source \in {"seed", "sitemap", "link"}
  BY DEF QueueItems
<1> DEFINE base == CASE a.source = "seed"    -> 1000
                     [] a.source = "sitemap" -> 500
                     [] a.source = "link"    -> 200
<1>2. base \in Nat
  BY <1>1
<1>3. Priority(a) = IF base > a.depth * 10 THEN base - a.depth * 10 ELSE 1
  BY DEF Priority
<1> HIDE DEF base
<1>4. a.depth * 10 \in Nat
  BY <1>1
<1> QED BY <1>2, <1>3, <1>4

\* Items of different URLs are in a strict total order.
LEMMA BeforeOrders ==
  ASSUME NEW S, S \subseteq QueueItems, DistinctUrls(S)
  PROVE  /\ \A a \in S : ~Before(a, a)
         /\ \A a, b, c \in S : Before(a, b) /\ Before(b, c) => Before(a, c)
         /\ \A a, b \in S : a = b \/ Before(a, b) \/ Before(b, a)
<1>1. \A a \in S : a.url \in Nat /\ Priority(a) \in Nat
  BY PriorityNat, UrlsAssumption DEF QueueItems
<1>2. \A a, b \in S : a # b => a.url # b.url
  BY DEF DistinctUrls
<1> QED BY <1>1, <1>2 DEF Before

\* An earlier item has fewer items before it; all have fewer than there are.
LEMMA RankOrders ==
  ASSUME NEW S, S \subseteq QueueItems, DistinctUrls(S), IsFiniteSet(S)
  PROVE  /\ \A a \in S : Rank(S, a) \in 0..(Cardinality(S) - 1)
         /\ \A a, b \in S : Before(a, b) => Rank(S, a) < Rank(S, b)
<1> DEFINE Pre(a) == {b \in S : Before(b, a)}
<1>0. Cardinality(S) \in Nat
  BY FS_CardinalityType
<1>1. ASSUME NEW a \in S PROVE Rank(S, a) \in 0..(Cardinality(S) - 1)
  <2>1. Pre(a) \in SUBSET (S \ {a})
    BY <1>1, BeforeOrders
  <2>2. IsFiniteSet(S \ {a}) /\ Cardinality(S \ {a}) = Cardinality(S) - 1
    BY <1>1, FS_RemoveElement
  <2>3. IsFiniteSet(Pre(a)) /\ Cardinality(Pre(a)) <= Cardinality(S) - 1
    <3> HIDE DEF Pre
    <3> QED BY <2>1, <2>2, FS_Subset
  <2>4. Cardinality(Pre(a)) \in Nat
    BY <2>3, FS_CardinalityType
  <2> QED BY <1>0, <2>3, <2>4 DEF Rank
<1>2. ASSUME NEW a \in S, NEW b \in S, Before(a, b) PROVE Rank(S, a) < Rank(S, b)
  <2>1. Pre(a) \in SUBSET Pre(b)
    BY <1>2, BeforeOrders
  <2>2. a \in Pre(b) /\ a \notin Pre(a)
    BY <1>2, BeforeOrders
  <2>3. Pre(b) \in SUBSET S
    OBVIOUS
  <2> HIDE DEF Pre
  <2>4. IsFiniteSet(Pre(b)) /\ IsFiniteSet(Pre(a))
    BY <2>1, <2>3, FS_Subset
  <2>5. Cardinality(Pre(a)) <= Cardinality(Pre(b))
        /\ Cardinality(Pre(a)) # Cardinality(Pre(b))
    BY <2>1, <2>2, <2>4, FS_Subset
  <2>6. Cardinality(Pre(a)) \in Nat /\ Cardinality(Pre(b)) \in Nat
    BY <2>4, FS_CardinalityType
  <2>7. Rank(S, a) = Cardinality(Pre(a)) /\ Rank(S, b) = Cardinality(Pre(b))
    BY DEF Rank, Pre
  <2> QED BY <2>5, <2>6, <2>7
<1> QED BY <1>1, <1>2

\* Draining a queue of different URLs hands out every item once, in order.
LEMMA DrainedSorts ==
  ASSUME NEW S, S \subseteq QueueItems, DistinctUrls(S), IsFiniteSet(S)
  PROVE  /\ Cardinality(S) \in Nat
         /\ Drained(S) \in Seq(S) /\ Len(Drained(S)) = Cardinality(S)
         /\ \A a \in S : \E i \in 1..Cardinality(S) : Drained(S)[i] = a
         /\ \A i, j \in 1..Cardinality(S) : i < j => Before(Drained(S)[i], Drained(S)[j])
<1> DEFINE n == Cardinality(S)
           f == [a \in S |-> Rank(S, a)]
<1>1. n \in Nat
  BY FS_CardinalityType
<1>2. \A a \in S : Rank(S, a) \in 0..(n - 1)
  BY RankOrders
<1>3. \A a, b \in S : Before(a, b) => Rank(S, a) < Rank(S, b)
  BY RankOrders
<1>4. \A a, b \in S : Rank(S, a) = Rank(S, b) => a = b
  <2> SUFFICES ASSUME NEW a \in S, NEW b \in S, Rank(S, a) = Rank(S, b) PROVE a = b
    OBVIOUS
  <2>1. Rank(S, a) \in Nat /\ Rank(S, b) \in Nat
    BY <1>1, <1>2
  <2>2. ~(Rank(S, a) < Rank(S, b)) /\ ~(Rank(S, b) < Rank(S, a))
    BY <2>1
  <2> QED BY <1>3, <2>2, BeforeOrders
<1>5. f \in Injection(S, 0..(n - 1))
  BY <1>2, <1>4 DEF Injection, IsInjective
<1>6. IsFiniteSet(0..(n - 1)) /\ Cardinality(0..(n - 1)) = n
  <2>1. 0 \in Int /\ n - 1 \in Int
    BY <1>1
  <2> HIDE DEF n
  <2> QED BY <1>1, <2>1, FS_Interval
<1>7. f \in Surjection(S, 0..(n - 1))
  <2> HIDE DEF f
  <2> QED BY <1>5, <1>6, FS_Injection DEF n
<1>8. \A k \in 0..(n - 1) : \E a \in S : Rank(S, a) = k
  BY <1>7 DEF Surjection
<1> HIDE DEF n, f
<1>9. \A i \in 1..n : i - 1 \in 0..(n - 1)
  BY <1>1
<1>10. Drained(S) = [i \in 1..n |-> CHOOSE a \in S : Rank(S, a) = i - 1]
  BY DEF Drained, Rank, n
<1>11. \A i \in 1..n : Drained(S)[i] \in S /\ Rank(S, Drained(S)[i]) = i - 1
  <2> SUFFICES ASSUME NEW i \in 1..n
               PROVE  Drained(S)[i] \in S /\ Rank(S, Drained(S)[i]) = i - 1
    OBVIOUS
  <2>1. \E a \in S : Rank(S, a) = i - 1
    BY <1>8, <1>9
  <2>2. Drained(S)[i] = CHOOSE a \in S : Rank(S, a) = i - 1
    BY <1>10
  <2> QED BY <2>1, <2>2
<1>12. Drained(S) \in Seq(S) /\ Len(Drained(S)) = n
  <2>1. Drained(S) \in [1..n -> S]
    BY <1>10, <1>11
  <2> QED BY <1>1, <2>1
<1>13. ASSUME NEW a \in S PROVE \E i \in 1..n : Drained(S)[i] = a
  <2>1. Rank(S, a) \in 0..(n - 1)
    BY <1>2, <1>13
  <2>2. PICK k \in 1..n : k - 1 = Rank(S, a)
    <3> DEFINE r == Rank(S, a)
    <3>1. r \in 0..(n - 1)
      BY <2>1
    <3> HIDE DEF r
    <3>2. r + 1 \in 1..n /\ (r + 1) - 1 = r
      BY <1>1, <3>1
    <3>3. \E k \in 1..n : k - 1 = r
      BY <3>2
    <3> QED BY <3>3 DEF r
  <2>3. Drained(S)[k] \in S /\ Rank(S, Drained(S)[k]) = Rank(S, a)
    BY <1>11, <2>2
  <2> QED BY <1>4, <2>3
<1>14. ASSUME NEW i \in 1..n, NEW j \in 1..n, i < j
       PROVE  Before(Drained(S)[i], Drained(S)[j])
  <2> DEFINE a == Drained(S)[i]
             b == Drained(S)[j]
  <2>1. a \in S /\ b \in S /\ Rank(S, a) = i - 1 /\ Rank(S, b) = j - 1
    BY <1>11, <1>14
  <2> HIDE DEF a, b
  <2>2. a # b /\ ~(Rank(S, b) < Rank(S, a))
    BY <1>1, <1>14, <2>1
  <2>3. Before(a, b)
    BY <1>3, <2>1, <2>2, BeforeOrders
  <2> QED BY <2>3 DEF a, b
<1> QED BY <1>1, <1>12, <1>13, <1>14 DEF n
-----------------------------------------------------------------------------
(* Type correctness.                                                       *)

\* What the scheduler's pending buffer holds.
PendingItems == [url : Urls, depth : Nat, source : {"seed", "sitemap", "link", "restored"}]
Checkpoints == [visited : SUBSET Urls, queued : Seq(Urls), pages : Nat, exists : BOOLEAN]

\* What the environment may use up.
Budgets == {"interrupt", "failure", "save", "load"}

TaskRecords == [at : {"none", "pacing", "fetching", "fetched", "links", "done"},
                depth : Nat, links : SUBSET Urls]

ScalarTypes ==
  /\ cp \in Checkpoints
  /\ pc \in {"off", "top", "join", "drain", "periodic", "spawn", "wait", "stopping", "closing", "finish"}
  /\ visited \subseteq Urls /\ seen \subseteq Urls
  /\ remaining \in Nat /\ noted \in Nat /\ counter \in Nat /\ pages \in Nat
  /\ shutdown \in BOOLEAN /\ cancel \in BOOLEAN
  /\ level \in {"Normal"} \cup Levels
  /\ budget \in [Budgets -> Nat]
  /\ found \subseteq Urls /\ processed \subseteq Urls

\* The set of seen URLs keeps the queue free of duplicates, which is what makes
\* its order total and the sequence drained from it well defined.
FrontierTypes ==
  /\ pending \in Seq(PendingItems)
  /\ queue \subseteq QueueItems /\ DistinctUrls(queue)
  /\ \A item \in queue : item.url \in seen

TypeInv == ScalarTypes /\ FrontierTypes /\ task \in [Urls -> TaskRecords]

\* The URLs of a frontier.
UrlsOf(front, items) == {front[i].url : i \in 1..Len(front)} \cup {item.url : item \in items}

\* A queue of different URLs is finite.
LEMMA QueueFinite ==
  ASSUME NEW S, S \subseteq QueueItems, DistinctUrls(S)
  PROVE  IsFiniteSet(S)
<1> DEFINE f == [a \in S |-> a.url]
<1>1. f \in Injection(S, Urls)
  BY DEF Injection, IsInjective, DistinctUrls, QueueItems
<1> HIDE DEF f
<1> QED BY <1>1, UrlsAssumption, FS_Injection

\* A checkpoint keeps the frontier, unless its list is full.
LEMMA SnapshotKeeps ==
  ASSUME visited \subseteq Urls, NEW count \in Nat, NEW front \in Seq(PendingItems),
         NEW items, items \subseteq QueueItems, DistinctUrls(items)
  PROVE  /\ Snapshot(count, front, items) \in Checkpoints
         /\ \/ UrlsOf(front, items) \subseteq Range(Snapshot(count, front, items).queued)
            \/ Len(Snapshot(count, front, items).queued) = MaxPages
         /\ Range(Snapshot(count, front, items).queued) \subseteq UrlsOf(front, items)
<1> DEFINE n == Cardinality(items)
           m == Len(front)
           d == Drained(items)
           urls == [i \in 1..m |-> front[i].url] \o [i \in 1..n |-> d[i].url]
           k == IF Len(urls) > MaxPages THEN MaxPages ELSE Len(urls)
           q == SubSeq(urls, 1, k)
<1>1. /\ n \in Nat /\ d \in Seq(items) /\ Len(d) = n
      /\ \A a \in items : \E i \in 1..n : d[i] = a
  BY QueueFinite, DrainedSorts
<1>2. m \in Nat /\ \A i \in 1..m : front[i] \in PendingItems /\ front[i].url \in Urls
  <2>1. m \in Nat /\ \A i \in 1..m : front[i] \in PendingItems
    OBVIOUS
  <2> QED BY <2>1 DEF PendingItems
<1>3. \A i \in 1..n : d[i] \in items /\ d[i].url \in Urls
  BY <1>1 DEF QueueItems
<1>4. Snapshot(count, front, items) = [visited |-> visited, pages |-> count, exists |-> TRUE, queued |-> q]
  BY DEF Snapshot
<1> HIDE DEF d, n
<1>5. /\ urls \in Seq(Urls) /\ Len(urls) = m + n
      /\ \A i \in 1..(m + n) : urls[i] = IF i <= m THEN front[i].url ELSE d[i - m].url
  <2>1. [i \in 1..m |-> front[i].url] \in Seq(Urls) /\ [i \in 1..n |-> d[i].url] \in Seq(Urls)
    BY <1>1, <1>2, <1>3
  <2> QED BY <1>1, <1>2, <2>1
<1>6. \A i \in 1..(m + n) : i <= m \/ i - m \in 1..n
  BY <1>1, <1>2
<1>7. \A i \in 1..(m + n) : urls[i] \in Urls /\ urls[i] \in UrlsOf(front, items)
  <2> SUFFICES ASSUME NEW i \in 1..(m + n)
               PROVE  urls[i] \in Urls /\ urls[i] \in UrlsOf(front, items)
    OBVIOUS
  <2> HIDE DEF urls
  <2>1. CASE i <= m
    <3>1. i \in 1..m /\ urls[i] = front[i].url
      BY <1>1, <1>2, <1>5, <2>1
    <3> QED BY <1>2, <3>1 DEF UrlsOf
  <2>2. CASE ~(i <= m)
    <3>1. i - m \in 1..n /\ urls[i] = d[i - m].url
      BY <1>5, <1>6, <2>2
    <3> QED BY <1>3, <3>1 DEF UrlsOf
  <2> QED BY <2>1, <2>2
<1>8. \A u \in UrlsOf(front, items) : \E i \in 1..(m + n) : urls[i] = u
  <2> SUFFICES ASSUME NEW u \in UrlsOf(front, items) PROVE \E i \in 1..(m + n) : urls[i] = u
    OBVIOUS
  <2>1. CASE \E i \in 1..m : u = front[i].url
    <3>1. PICK i \in 1..m : u = front[i].url
      BY <2>1
    <3>2. i \in 1..(m + n) /\ i <= m
      BY <1>1, <1>2
    <3>3. urls[i] = u
      BY <1>5, <3>1, <3>2
    <3> QED BY <3>2, <3>3
  <2>2. CASE \E item \in items : u = item.url
    <3>1. PICK i \in 1..n : u = d[i].url
      BY <1>1, <2>2
    <3>2. i + m \in 1..(m + n) /\ ~(i + m <= m) /\ (i + m) - m = i
      BY <1>1, <1>2
    <3>3. urls[i + m] = u
      BY <1>5, <3>1, <3>2
    <3> QED BY <3>2, <3>3
  <2> QED BY <2>1, <2>2 DEF UrlsOf
<1> HIDE DEF urls, m
<1>9. k \in Nat /\ k <= m + n /\ k <= MaxPages /\ (k < MaxPages => k = m + n)
  BY <1>1, <1>2, <1>5, LimitsAssumption
<1> HIDE DEF k
<1>10. q \in Seq(Urls) /\ Len(q) = k /\ \A i \in 1..k : q[i] = urls[i]
  BY <1>1, <1>2, <1>5, <1>9
<1> HIDE DEF q
<1>11. Range(q) = {urls[i] : i \in 1..k}
  <2>1. DOMAIN q = 1..k
    BY <1>10
  <2> QED BY <1>10, <2>1 DEF Range
<1>12. \A i \in 1..k : i \in 1..(m + n)
  BY <1>1, <1>2, <1>9
<1>13. Snapshot(count, front, items) \in Checkpoints /\ Snapshot(count, front, items).queued = q
  BY <1>4, <1>10 DEF Checkpoints
<1>14. CASE k = MaxPages
  BY <1>7, <1>10, <1>11, <1>12, <1>13, <1>14
<1>15. CASE k # MaxPages
  <2>1. k = m + n
    BY <1>9, <1>15, LimitsAssumption
  <2> QED BY <1>7, <1>8, <1>11, <1>13, <2>1
<1> QED BY <1>14, <1>15

\* next_url hands out the first pending URL that was not visited.
LEMMA NextIsFirst ==
  ASSUME TypeInv
  PROVE  /\ NextUrl \in 0..Len(pending)
         /\ NextUrl # 0 => /\ pending[NextUrl].url \notin visited
                           /\ \A i \in 1..(NextUrl - 1) : pending[i].url \in visited
         /\ NextUrl = 0 => \A i \in 1..Len(pending) : pending[i].url \in visited
<1> DEFINE I == {i \in 1..Len(pending) : pending[i].url \notin visited}
<1>0. Len(pending) \in Nat
  BY DEF TypeInv, FrontierTypes
<1>1. NextUrl = IF I # {} THEN Min(I) ELSE 0
  BY DEF NextUrl, SelectInSeq
<1>2. I \subseteq Nat
  OBVIOUS
<1>3. I # {} => Min(I) \in I /\ \A i \in I : Min(I) <= i
  <2> HIDE DEF I
  <2> QED BY <1>2, LeastNat
<1>4. CASE I = {}
  BY <1>0, <1>1, <1>4
<1>5. CASE I # {}
  <2>1. NextUrl \in I /\ \A i \in I : NextUrl <= i
    BY <1>1, <1>3, <1>5
  <2>2. NextUrl \in 1..Len(pending) /\ pending[NextUrl].url \notin visited
    BY <2>1
  <2>3. ASSUME NEW i \in 1..(NextUrl - 1) PROVE pending[i].url \in visited
    <3>1. i \in 1..Len(pending) /\ ~(NextUrl <= i)
      BY <1>0, <2>2, <2>3
    <3> QED BY <2>1, <3>1
  <2> QED BY <1>0, <2>2, <2>3
<1> QED BY <1>4, <1>5

\* The invariant is at least the type invariant of the model.
LEMMA TypeInvIsTypeOK == TypeInv => TypeOK
<1> SUFFICES ASSUME TypeInv PROVE TypeOK
  OBVIOUS
<1>1. \A i \in 1..Len(pending) : pending[i] \in PendingItems
  BY ElementOfSeq DEF TypeInv, FrontierTypes
<1>2. \A i \in 1..Len(pending) : pending[i].url \in Urls /\ pending[i].depth \in Nat
  BY <1>1 DEF PendingItems
<1>3. \A item \in queue : item.url \in Urls /\ item.depth \in Nat
  BY DEF TypeInv, FrontierTypes, QueueItems
<1> QED BY <1>2, <1>3 DEF TypeInv, ScalarTypes, TypeOK, Checkpoints, TaskRecords, Budgets

\* A run starts from a checkpoint, the empty one included.
LEMMA LoadTypes ==
  ASSUME TypeInv, Begin
  PROVE  \E loaded \in Checkpoints : loaded \in {cp, NoCheckpoint} /\ LoadCheckpoint(loaded) /\ StartFrom(loaded)
<1>1. cp \in Checkpoints /\ NoCheckpoint \in Checkpoints
  BY DEF TypeInv, ScalarTypes, Checkpoints, NoCheckpoint
<1> QED BY <1>1 DEF Begin

\* The frontier a run starts with.
LEMMA BeginFrontier ==
  ASSUME NEW loaded \in Checkpoints, StartFrom(loaded)
  PROVE  /\ FrontierTypes'
         /\ UrlsOf(pending', queue') = Range(loaded.queued) \cup {Seed} \cup ExtraSeeds
<1> DEFINE n == Len(loaded.queued)
           r == [i \in 1..n |-> Item(loaded.queued[i], 0, "restored")]
           s == <<Item(Seed, 0, "seed")>>
<1>1. loaded.queued \in Seq(Urls)
  BY DEF Checkpoints
<1>2. n \in Nat /\ (\A i \in 1..n : loaded.queued[i] \in Urls) /\ DOMAIN loaded.queued = 1..n
  BY <1>1, LenProperties, ElementOfSeq
<1>3. Seed \in Urls /\ ExtraSeeds \subseteq Urls
  BY SeedAssumption
<1>4. pending' = r \o s
  BY DEF StartFrom
<1>5. queue' = {Item(Seed, 0, "seed")} \cup {Item(u, 1, "sitemap") : u \in ExtraSeeds \ {Seed}}
      /\ seen' = {Seed} \cup ExtraSeeds
  BY DEF StartFrom
<1>6. r \in Seq(PendingItems) /\ Len(r) = n
  <2>1. \A i \in 1..n : Item(loaded.queued[i], 0, "restored") \in PendingItems
    BY <1>2 DEF Item, PendingItems
  <2> HIDE DEF n
  <2> QED BY <1>2, <2>1
<1>7. s \in Seq(PendingItems) /\ Len(s) = 1 /\ s[1] = Item(Seed, 0, "seed")
  BY <1>3 DEF Item, PendingItems
<1>8. /\ pending' \in Seq(PendingItems) /\ Len(pending') = n + 1
      /\ \A i \in 1..(n + 1) : pending'[i] = IF i <= n THEN r[i] ELSE s[i - n]
  <2>1. /\ r \o s \in Seq(PendingItems) /\ Len(r \o s) = Len(r) + Len(s)
        /\ \A i \in 1..(Len(r) + Len(s)) : (r \o s)[i] = IF i <= Len(r) THEN r[i] ELSE s[i - Len(r)]
    <3> HIDE DEF r, s
    <3> QED BY <1>6, <1>7, ConcatProperties
  <2> HIDE DEF r, s, n
  <2> QED BY <1>4, <1>6, <1>7, <2>1
<1>9. queue' \subseteq QueueItems /\ DistinctUrls(queue') /\ \A item \in queue' : item.url \in seen'
  BY <1>3, <1>5 DEF QueueItems, Item, DistinctUrls
<1>10. {pending'[i].url : i \in 1..Len(pending')} = Range(loaded.queued) \cup {Seed}
  <2>1. \A i \in 1..n : i \in 1..(n + 1) /\ pending'[i].url = loaded.queued[i]
    <3> SUFFICES ASSUME NEW i \in 1..n PROVE i \in 1..(n + 1) /\ pending'[i].url = loaded.queued[i]
      OBVIOUS
    <3>1. i \in 1..(n + 1) /\ i <= n
      BY <1>2
    <3>2. pending'[i] = Item(loaded.queued[i], 0, "restored")
      BY <1>8, <3>1
    <3> QED BY <3>1, <3>2 DEF Item
  <2>2. n + 1 \in 1..(n + 1) /\ pending'[n + 1].url = Seed
    <3>1. n + 1 \in 1..(n + 1) /\ ~(n + 1 <= n) /\ (n + 1) - n = 1
      BY <1>2
    <3>2. pending'[n + 1] = Item(Seed, 0, "seed")
      BY <1>7, <1>8, <3>1
    <3> QED BY <3>1, <3>2 DEF Item
  <2>3. \A i \in 1..(n + 1) : i \in 1..n \/ i = n + 1
    BY <1>2
  <2>4. Range(loaded.queued) = {loaded.queued[i] : i \in 1..n}
    BY <1>2 DEF Range
  <2> HIDE DEF n
  <2> QED BY <1>8, <2>1, <2>2, <2>3, <2>4
<1>11. {item.url : item \in queue'} = {Seed} \cup ExtraSeeds
  <2>1. Item(Seed, 0, "seed") \in queue' /\ Item(Seed, 0, "seed").url = Seed
    <3>1. Item(Seed, 0, "seed") \in queue'
      BY <1>5
    <3>2. Item(Seed, 0, "seed").url = Seed
      BY DEF Item
    <3> QED BY <3>1, <3>2
  <2>2. \A u \in ExtraSeeds \ {Seed} : Item(u, 1, "sitemap") \in queue' /\ Item(u, 1, "sitemap").url = u
    <3>1. \A u \in ExtraSeeds \ {Seed} : Item(u, 1, "sitemap") \in queue'
      BY <1>5
    <3>2. \A u \in ExtraSeeds : Item(u, 1, "sitemap").url = u
      BY DEF Item
    <3> QED BY <3>1, <3>2
  <2>3. \A item \in queue' : item.url \in {Seed} \cup ExtraSeeds
    BY <1>5, <1>9
  <2>4. \A u \in {Seed} \cup ExtraSeeds : \E item \in queue' : item.url = u
    BY <2>1, <2>2
  <2> QED BY <2>3, <2>4
<1> QED BY <1>8, <1>9, <1>10, <1>11 DEF FrontierTypes, UrlsOf

\* Draining moves the queue to the end of the buffer and loses nothing.
LEMMA DrainFrontier ==
  ASSUME TypeInv, DrainDiscovered
  PROVE  /\ FrontierTypes' /\ pending' \in Seq(PendingItems)
         /\ UrlsOf(pending', {}) = UrlsOf(pending, queue)
         /\ Len(pending') = Len(pending) + Cardinality(queue)
         /\ \A i \in 1..Len(pending') :
              pending'[i] = IF i <= Len(pending) THEN pending[i] ELSE Drained(queue)[i - Len(pending)]
<1> DEFINE d == Drained(queue)
           m == Len(pending)
           n == Cardinality(queue)
<1>1. pending' = pending \o d /\ queue' = {}
  BY DEF DrainDiscovered
<1>2. pending \in Seq(PendingItems) /\ queue \subseteq QueueItems /\ DistinctUrls(queue)
  BY DEF TypeInv, FrontierTypes
<1>3. /\ n \in Nat /\ d \in Seq(queue) /\ Len(d) = n
      /\ \A a \in queue : \E i \in 1..n : d[i] = a
  BY <1>2, QueueFinite, DrainedSorts
<1> HIDE DEF d, n
<1>4. \A i \in 1..n : d[i] \in queue
  BY <1>3, ElementOfSeq
<1>5. d \in Seq(PendingItems)
  <2>1. QueueItems \subseteq PendingItems
    BY DEF QueueItems, PendingItems
  <2>2. \A i \in 1..Len(d) : d[i] \in PendingItems
    BY <1>2, <1>3, <1>4, <2>1
  <2> QED BY <1>3, <2>2
<1>6. /\ pending' \in Seq(PendingItems) /\ Len(pending') = m + n /\ m \in Nat
      /\ \A i \in 1..(m + n) : pending'[i] = IF i <= m THEN pending[i] ELSE d[i - m]
  <2> DEFINE p == pending
  <2>1. p \in Seq(PendingItems)
    BY <1>2
  <2> HIDE DEF p
  <2>2. /\ p \o d \in Seq(PendingItems) /\ Len(p \o d) = Len(p) + Len(d)
        /\ \A i \in 1..(Len(p) + Len(d)) : (p \o d)[i] = IF i <= Len(p) THEN p[i] ELSE d[i - Len(p)]
    BY <1>5, <2>1, ConcatProperties
  <2>3. Len(p) \in Nat
    BY <2>1, LenProperties
  <2> QED BY <1>1, <1>3, <2>2, <2>3 DEF p
<1>7. FrontierTypes'
  BY <1>1, <1>6 DEF FrontierTypes, DistinctUrls
<1> HIDE DEF m
<1>8. \A i \in 1..m : i \in 1..(m + n) /\ i <= m
  BY <1>3, <1>6
<1>9. \A i \in 1..n : i + m \in 1..(m + n) /\ ~(i + m <= m) /\ (i + m) - m = i
  BY <1>3, <1>6
<1>10. \A i \in 1..(m + n) : IF i <= m THEN i \in 1..m ELSE i - m \in 1..n
  BY <1>3, <1>6
<1>11. {pending'[i].url : i \in 1..(m + n)} = UrlsOf(pending, queue)
  <2>1. \A i \in 1..m : pending'[i] = pending[i]
    BY <1>6, <1>8
  <2>2. \A i \in 1..n : pending'[i + m] = d[i]
    BY <1>6, <1>9
  <2>3. \A i \in 1..(m + n) : \/ i \in 1..m /\ pending'[i] = pending[i]
                              \/ pending'[i] \in queue
    BY <1>4, <1>6, <1>10
  <2>4. \A a \in queue : \E i \in 1..(m + n) : pending'[i] = a
    BY <1>3, <1>9, <2>2
  <2> QED BY <1>8, <2>1, <2>3, <2>4 DEF UrlsOf, m
<1> QED BY <1>6, <1>7, <1>11 DEF UrlsOf, m, n, d

\* A spawn takes the first unvisited URL and drops the visited ones before it.
LEMMA SpawnFrontier ==
  ASSUME TypeInv, SpawnTask
  PROVE  /\ NextUrl \in 1..Len(pending) /\ pending[NextUrl] \in PendingItems
         /\ pending' \in Seq(PendingItems) /\ FrontierTypes'
         /\ Len(pending') = Len(pending) - NextUrl
         /\ \A i \in 1..Len(pending') : i + NextUrl \in 1..Len(pending) /\ pending'[i] = pending[i + NextUrl]
         /\ \A i \in 1..Len(pending) : i > NextUrl => i - NextUrl \in 1..Len(pending')
                                                     /\ pending'[i - NextUrl] = pending[i]
<1> DEFINE k == NextUrl
           m == Len(pending)
<1>1. pending \in Seq(PendingItems) /\ m \in Nat
  BY LenProperties DEF TypeInv, FrontierTypes
<1>2. k \in 1..m /\ pending' = SubSeq(pending, k + 1, m) /\ UNCHANGED <<queue, seen>>
  BY <1>1, NextIsFirst DEF SpawnTask, shared
<1>3. pending[k] \in PendingItems
  BY <1>1, <1>2, ElementOfSeq
<1> HIDE DEF k
<1>4. \A i \in (k + 1)..m : pending[i] \in PendingItems
  BY <1>1, <1>2, ElementOfSeq
<1> HIDE DEF m
<1>5. k + 1 \in Int /\ m \in Int /\ m - (k + 1) + 1 = m - k /\ (k + 1 <= m \/ m - k = 0)
      /\ \A i \in 1..(m - k) : (k + 1) + i - 1 = i + k
  BY <1>1, <1>2
<1>6. /\ SubSeq(pending, k + 1, m) \in Seq(PendingItems)
      /\ Len(SubSeq(pending, k + 1, m)) = IF k + 1 <= m THEN m - (k + 1) + 1 ELSE 0
      /\ \A i \in 1..(m - (k + 1) + 1) : SubSeq(pending, k + 1, m)[i] = pending[(k + 1) + i - 1]
  BY <1>4, <1>5, SubSeqProperties
<1>7. pending' \in Seq(PendingItems) /\ Len(pending') = m - k /\ \A i \in 1..(m - k) : pending'[i] = pending[i + k]
  BY <1>2, <1>5, <1>6
<1>8. /\ \A i \in 1..(m - k) : i + k \in 1..m
      /\ \A i \in 1..m : i > k => i - k \in 1..(m - k) /\ (i - k) + k = i
  BY <1>1, <1>2
<1>9. FrontierTypes'
  BY <1>2, <1>7 DEF FrontierTypes, TypeInv
<1> QED BY <1>2, <1>3, <1>7, <1>8, <1>9 DEF k, m

\* A link goes into the queue unless its URL was seen.
LEMMA PushFrontier ==
  ASSUME TypeInv, NEW u \in Urls, NEW v \in Urls, PushLink(u, v)
  PROVE  /\ FrontierTypes' /\ pending' = pending
         /\ UrlsOf(pending, queue) \cup ({v} \ seen) = UrlsOf(pending', queue')
<1>1. /\ pending' = pending /\ seen' = seen \cup {v} /\ task[u].depth + 1 \in Nat
      /\ queue' = IF v \in seen THEN queue ELSE queue \cup {Item(v, task[u].depth + 1, "link")}
  BY DEF PushLink, engine, TypeInv, TaskRecords
<1>2. /\ Item(v, task[u].depth + 1, "link") \in QueueItems
      /\ Item(v, task[u].depth + 1, "link").url = v
  BY <1>1 DEF QueueItems, Item
<1>3. FrontierTypes
  BY DEF TypeInv
<1>4. CASE v \in seen
  BY <1>1, <1>3, <1>4 DEF FrontierTypes, UrlsOf
<1>5. CASE v \notin seen
  <2>1. queue' = queue \cup {Item(v, task[u].depth + 1, "link")}
    BY <1>1, <1>5
  <2>2. queue' \subseteq QueueItems /\ DistinctUrls(queue') /\ \A item \in queue' : item.url \in seen'
    BY <1>1, <1>2, <1>3, <1>5, <2>1 DEF FrontierTypes, DistinctUrls
  <2>3. {item.url : item \in queue'} = {item.url : item \in queue} \cup {v}
    BY <1>2, <2>1
  <2> QED BY <1>1, <1>3, <1>5, <2>2, <2>3 DEF FrontierTypes, UrlsOf
<1> QED BY <1>4, <1>5

\* A task step changes one record of the task table.
LEMMA TaskTypes ==
  ASSUME TypeInv, NEW u \in Urls, TaskStep(u)
  PROVE  task' \in [Urls -> TaskRecords]
<1>1. task[u] \in TaskRecords /\ LinksToFollow(u) \subseteq Urls
  BY LinksAssumption DEF TypeInv, LinksToFollow
<1>2. \E at, links :
        /\ at \in {"pacing", "fetching", "fetched", "links", "done"} /\ links \subseteq Urls
        /\ task' = [task EXCEPT ![u] = [at |-> at, depth |-> task[u].depth, links |-> links]]
  <2>1. task[u].links \subseteq Urls
    BY <1>1 DEF TaskRecords
  <2>2. task \in [Urls -> TaskRecords]
    BY DEF TypeInv
  <2> QED BY <1>1, <2>1, <2>2 DEF TaskStep, Paced, PacingCancelled, FetchFails, Fetched, PipelineDrops, Collect,
          ExtractFails, TaskReturns, PushLink, Move
<1>3. PICK at, links :
        /\ at \in {"pacing", "fetching", "fetched", "links", "done"} /\ links \subseteq Urls
        /\ task' = [task EXCEPT ![u] = [at |-> at, depth |-> task[u].depth, links |-> links]]
  BY <1>2
<1>4. [at |-> at, depth |-> task[u].depth, links |-> links] \in TaskRecords
  BY <1>1, <1>3 DEF TaskRecords
<1> QED BY <1>3, <1>4 DEF TypeInv

\* What the environment may still do stays a table of numbers.
LEMMA SpendTypes ==
  ASSUME ScalarTypes, NEW b \in Budgets, Spend(b)
  PROVE  budget' \in [Budgets -> Nat]
<1>1. budget \in [Budgets -> Nat] /\ budget[b] \in Nat /\ budget[b] > 0
  BY DEF ScalarTypes, Spend
<1>2. budget[b] - 1 \in Nat
  BY <1>1
<1> QED BY <1>1, <1>2 DEF Spend

\* What an iteration may spawn is a number.
LEMMA GrantTypes ==
  ASSUME counter \in Nat
  PROVE  RemainingBudget(counter, Cardinality(InFlight)) \in Nat
<1> DEFINE f == Cardinality(InFlight)
<1>1. f \in Nat
  BY TaskSetsFinite DEF InFlight
<1> HIDE DEF f
<1>2. RemainingBudget(counter, f) \in Nat
  BY <1>1, LimitsAssumption DEF RemainingBudget
<1> QED BY <1>2 DEF f

\* Every step keeps the types.
LEMMA TypeStep ==
  ASSUME TypeInv, [Next]_vars
  PROVE  TypeInv'
<1>0. /\ ScalarTypes /\ FrontierTypes /\ task \in [Urls -> TaskRecords]
      /\ visited \subseteq Urls /\ pages \in Nat /\ noted \in Nat /\ counter \in Nat
  BY DEF TypeInv, ScalarTypes
<1>1. NoTask \in TaskRecords /\ NoTasks \in [Urls -> TaskRecords]
  BY DEF NoTask, NoTasks, TaskRecords
<1>2. \A count \in Nat : Snapshot(count, pending, queue) \in Checkpoints
  BY <1>0, SnapshotKeeps DEF FrontierTypes
<1>3. NoCheckpoint \in Checkpoints
  BY DEF NoCheckpoint, Checkpoints
<1>4. CASE Begin
  <2>1. PICK loaded \in Checkpoints : LoadCheckpoint(loaded) /\ StartFrom(loaded)
    BY <1>4, LoadTypes
  <2>2. FrontierTypes'
    BY <2>1, BeginFrontier
  <2>3. loaded.visited \subseteq Urls /\ loaded.pages \in Nat /\ Range(loaded.queued) \subseteq Urls
    <3>1. loaded.visited \subseteq Urls /\ loaded.pages \in Nat /\ loaded.queued \in Seq(Urls)
      BY DEF Checkpoints
    <3> QED BY <3>1, LenProperties, ElementOfSeq DEF Range
  <2>4. visited' \subseteq Urls /\ seen' \subseteq Urls /\ found' \subseteq Urls /\ pages' \in Nat
    BY <2>1, <2>3, SeedAssumption DEF StartFrom, RestoredPages
  <2>5. processed' \subseteq Urls /\ budget' \in [Budgets -> Nat]
    BY <1>0, <2>1, SpendTypes DEF LoadCheckpoint, ScalarTypes, Budgets
  <2>6. ScalarTypes'
    BY <1>0, <1>4, <2>4, <2>5 DEF Begin, ScalarTypes, flags
  <2> QED BY <1>0, <1>4, <2>2, <2>6 DEF Begin, TypeInv
<1>5. CASE LoopTop
  <2>1. ScalarTypes'
    BY <1>0, <1>5 DEF LoopTop, ScalarTypes, shared, history
  <2> QED BY <1>0, <1>5, <2>1 DEF LoopTop, TypeInv, FrontierTypes, shared
<1>6. CASE DrainDiscovered
  <2>1. FrontierTypes' /\ pending' \in Seq(PendingItems)
    BY <1>6, DrainFrontier
  <2>2. remaining' \in Nat
    BY <1>0, <1>6, GrantTypes DEF DrainDiscovered, ScalarTypes
  <2>3. ScalarTypes'
    BY <1>0, <1>6, <2>2 DEF DrainDiscovered, ScalarTypes, flags, history
  <2> QED BY <1>0, <1>6, <2>1, <2>3 DEF DrainDiscovered, TypeInv
<1>7. CASE PersistCheckpoint
  <2>1. remaining' \in Nat
    BY <1>0, <1>7, GrantTypes DEF PersistCheckpoint, ScalarTypes
  <2>2. cp' \in Checkpoints /\ budget' \in [Budgets -> Nat]
    BY <1>0, <1>2, <1>7, SpendTypes DEF PersistCheckpoint, FileChanges, FileChangeFails, ScalarTypes, Budgets
  <2>3. UNCHANGED <<visited, pending, shared, task, flags, history>> /\ noted' = 0 /\ pc' \in {"spawn", "closing"}
    BY <1>7 DEF PersistCheckpoint
  <2>4. ScalarTypes'
    BY <1>0, <2>1, <2>2, <2>3 DEF ScalarTypes, shared, flags, history
  <2> QED BY <1>0, <2>3, <2>4 DEF TypeInv, FrontierTypes, shared
<1>8. CASE SpawnTask
  <2>1. FrontierTypes' /\ pending[NextUrl] \in PendingItems
    BY <1>8, SpawnFrontier
  <2>2. pending[NextUrl].url \in Urls /\ pending[NextUrl].depth \in Nat
    BY <2>1 DEF PendingItems
  <2>3. [at |-> "pacing", depth |-> pending[NextUrl].depth, links |-> {}] \in TaskRecords
    BY <2>2 DEF TaskRecords
  <2>4. task' \in [Urls -> TaskRecords]
    BY <1>0, <1>8, <2>3 DEF SpawnTask
  <2>5. remaining' \in Nat
    BY <1>0, <1>8 DEF SpawnTask, ScalarTypes
  <2>6. ScalarTypes'
    BY <1>0, <1>8, <2>2, <2>5 DEF SpawnTask, ScalarTypes, shared, flags, history
  <2> QED BY <2>1, <2>4, <2>6 DEF TypeInv
<1>9. CASE SpawnDone
  <2>1. ScalarTypes'
    BY <1>0, <1>9 DEF SpawnDone, ScalarTypes, shared, flags, history
  <2>2. <<>> \in Seq(PendingItems)
    OBVIOUS
  <2>3. FrontierTypes'
    BY <1>0, <1>9, <2>2 DEF SpawnDone, FrontierTypes, shared
  <2> QED BY <1>0, <1>9, <2>1, <2>3 DEF SpawnDone, TypeInv
<1>10. CASE ProcessCompletedTasks \/ WaitForTask \/ DrainTasks \/ AbortTasks
  <2>1. ScalarTypes'
    BY <1>0, <1>10 DEF ProcessCompletedTasks, WaitForTask, DrainTasks, AbortTasks, ScalarTypes, engine, shared, flags,
       history
  <2>2. FrontierTypes'
    BY <1>0, <1>10 DEF ProcessCompletedTasks, WaitForTask, DrainTasks, AbortTasks, FrontierTypes, engine, shared
  <2>3. task' \in [Urls -> TaskRecords]
    BY <1>0, <1>1, <1>10 DEF ProcessCompletedTasks, WaitForTask, DrainTasks, AbortTasks, Finished
  <2> QED BY <2>1, <2>2, <2>3 DEF TypeInv
<1>11. CASE Finish \/ Crash
  <2>1. ProcessEnds /\ cp' \in Checkpoints /\ processed' \subseteq Urls
    BY <1>0, <1>2, <1>3, <1>11 DEF Finish, Crash, FileChanges, FileChangeFails, ScalarTypes
  <2>2. budget' \in [Budgets -> Nat]
    BY <1>0, <1>11, SpendTypes DEF Finish, Crash, FileChanges, FileChangeFails, ScalarTypes, Budgets
  <2>3. FrontierTypes'
    <3>1. pending' = <<>> /\ queue' = {}
      BY <2>1 DEF ProcessEnds
    <3>2. <<>> \in Seq(PendingItems)
      OBVIOUS
    <3> QED BY <3>1, <3>2 DEF FrontierTypes, DistinctUrls
  <2>4. ScalarTypes'
    BY <2>1, <2>2 DEF ProcessEnds, ScalarTypes
  <2> QED BY <1>1, <2>1, <2>3, <2>4 DEF ProcessEnds, TypeInv
<1>12. CASE Signal \/ CancelHandle \/ (\E l \in Levels : SetLevel(l))
  <2>1. budget' \in [Budgets -> Nat]
    BY <1>0, <1>12, SpendTypes DEF Signal, CancelHandle, SetLevel, ScalarTypes, Budgets
  <2>2. ScalarTypes'
    BY <1>0, <1>12, <2>1 DEF Signal, CancelHandle, SetLevel, ScalarTypes, engine, shared, history
  <2>3. UNCHANGED <<pending, queue, seen, task>>
    BY <1>12 DEF Signal, CancelHandle, SetLevel, engine, shared
  <2> QED BY <1>0, <2>2, <2>3 DEF TypeInv, FrontierTypes
<1>13. ASSUME NEW u \in Urls, TaskStep(u) PROVE TypeInv'
  <2>1. task' \in [Urls -> TaskRecords]
    BY <1>13, TaskTypes
  <2>2. budget' \in [Budgets -> Nat]
    BY <1>0, <1>13, SpendTypes DEF TaskStep, Paced, PacingCancelled, FetchFails, Fetched, PipelineDrops, Collect,
       ExtractFails, TaskReturns, PushLink, ScalarTypes, Budgets
  <2>3. ScalarTypes'
    BY <1>0, <1>13, <2>2 DEF TaskStep, Paced, PacingCancelled, FetchFails, Fetched, PipelineDrops, Collect,
       ExtractFails, TaskReturns, PushLink, ScalarTypes, engine, shared, flags, history
  <2>4. FrontierTypes'
    <3>1. CASE \E v \in Urls : PushLink(u, v)
      BY <3>1, PushFrontier
    <3>2. CASE UNCHANGED <<pending, queue, seen>>
      BY <1>0, <3>2 DEF FrontierTypes
    <3> QED BY <1>13, <3>1, <3>2 DEF TaskStep, Paced, PacingCancelled, FetchFails, Fetched, PipelineDrops, Collect,
            ExtractFails, TaskReturns, engine, shared
  <2> QED BY <2>1, <2>3, <2>4 DEF TypeInv
<1>14. CASE UNCHANGED vars
  BY <1>14 DEF vars, TypeInv, ScalarTypes, FrontierTypes
<1> QED BY <1>4, <1>5, <1>6, <1>8, <1>9, <1>10, <1>11, <1>12, <1>13, <1>14, <1>7 DEF Next, EngineStep

\* The initial state has the types.
LEMMA TypeInit == Init => TypeInv
<1> SUFFICES ASSUME Init PROVE TypeInv
  OBVIOUS
<1>1. ScalarTypes
  <2>1. cp \in Checkpoints
    BY DEF Init, NoCheckpoint, Checkpoints
  <2>2. budget \in [Budgets -> Nat]
    <3>1. budget = [interrupt |-> MaxInterrupts, failure |-> MaxFailures,
                    save |-> MaxSaveFaults, load |-> MaxLoadFaults]
      BY DEF Init
    <3> QED BY <3>1, LimitsAssumption DEF Budgets
  <2> QED BY <2>1, <2>2 DEF Init, ScalarTypes
<1>2. FrontierTypes
  BY DEF Init, FrontierTypes, DistinctUrls
<1>3. task \in [Urls -> TaskRecords]
  BY DEF Init, NoTasks, NoTask, TaskRecords
<1> QED BY <1>1, <1>2, <1>3 DEF TypeInv

\* Types hold in every state; the one that needs an argument is that of the
\* pending buffer, which is fed by draining a priority queue.
THEOREM TypesHold == Spec => []TypeOK
<1>1. TypeInv /\ [Next]_vars => TypeInv'
  BY TypeStep
<1> QED BY <1>1, TypeInit, TypeInvIsTypeOK, PTL DEF Spec
-----------------------------------------------------------------------------
(* The durable page counter.                                               *)

\* A run counts on from what its checkpoint says, and what a checkpoint under way
\* is to say is not less; unless a load found no usable checkpoint.
CountInv ==
  /\ budget["load"] <= MaxLoadFaults
  /\ pc \in {"periodic", "stopping"} => noted <= pages
  /\ budget["load"] = MaxLoadFaults /\ pc # "off"
       => cp.pages <= (IF pc \in {"periodic", "stopping"} THEN noted ELSE pages)

\* What a save writes.
LEMMA SavedCount ==
  ASSUME NEW count, NEW front, NEW items
  PROVE  Snapshot(count, front, items).pages = count
BY DEF Snapshot

\* Every step keeps the counts, and no saved count is lower than the one before.
LEMMA CountStep ==
  ASSUME TypeInv, VisitInv, CountInv, [Next]_vars
  PROVE  /\ CountInv'
         /\ (budget["load"] = MaxLoadFaults /\ cp.exists /\ cp'.exists) => cp'.pages >= cp.pages
<1>0. /\ pages \in Nat /\ noted \in Nat /\ cp.pages \in Nat /\ MaxLoadFaults \in Nat
      /\ budget \in [Budgets -> Nat] /\ budget["load"] \in Nat
  BY LimitsAssumption DEF TypeInv, ScalarTypes, Checkpoints, Budgets
<1>1. \A b \in Budgets \ {"load"} : Spend(b) => budget'["load"] = budget["load"]
  BY <1>0 DEF Spend, Budgets
<1>2. CASE Begin
  <2>1. pc = "off" /\ pc' = "top" /\ UNCHANGED cp
    BY <1>2 DEF Begin
  <2>2. \/ pages' = cp.pages /\ UNCHANGED budget
        \/ Spend("load")
    BY <1>2 DEF Begin, LoadCheckpoint, StartFrom, RestoredPages
  <2>3. Spend("load") => budget'["load"] = budget["load"] - 1
    BY <1>0 DEF Spend, Budgets
  <2> QED BY <1>0, <2>1, <2>2, <2>3 DEF CountInv
<1>3. CASE LoopTop
  <2>1. pc = "top" /\ UNCHANGED <<cp, pages, budget>> /\ pc' \in {"stopping", "join", "closing"}
        /\ (pc' = "stopping" => noted' = pages)
    BY <1>3 DEF LoopTop, shared
  <2> QED BY <1>0, <2>1 DEF CountInv
<1>4. CASE DrainDiscovered
  <2>1. pc = "drain" /\ UNCHANGED <<cp, pages, budget>> /\ pc' \in {"periodic", "spawn"}
        /\ (pc' = "periodic" => noted' = pages)
    BY <1>4 DEF DrainDiscovered
  <2> QED BY <1>0, <2>1 DEF CountInv
<1>5. CASE PersistCheckpoint
  <2>1. pc \in {"periodic", "stopping"} /\ pc' \in {"spawn", "closing"} /\ UNCHANGED pages
    BY <1>5 DEF PersistCheckpoint, shared
  <2>2. /\ budget'["load"] = budget["load"]
        /\ cp' = cp \/ cp'.pages = noted
    BY <1>1, <1>5, SavedCount DEF PersistCheckpoint, FileChanges, FileChangeFails, Budgets
  <2> QED BY <1>0, <2>1, <2>2 DEF CountInv
<1>6. CASE SpawnTask \/ SpawnDone \/ ProcessCompletedTasks \/ WaitForTask \/ DrainTasks \/ AbortTasks
  <2>1. /\ UNCHANGED <<cp, pages, budget>>
        /\ pc \notin {"off", "periodic", "stopping"} /\ pc' \notin {"off", "periodic", "stopping"}
    BY <1>6 DEF SpawnTask, SpawnDone, ProcessCompletedTasks, WaitForTask, DrainTasks, AbortTasks, shared
  <2> QED BY <1>0, <2>1 DEF CountInv
<1>7. CASE Signal \/ CancelHandle \/ (\E l \in Levels : SetLevel(l)) \/ UNCHANGED vars
  <2>1. UNCHANGED <<cp, pages, pc, noted>>
    BY <1>7 DEF Signal, CancelHandle, SetLevel, shared, engine, vars
  <2>2. budget'["load"] = budget["load"]
    BY <1>1, <1>7 DEF Signal, CancelHandle, SetLevel, vars, Budgets
  <2> QED BY <1>0, <2>1, <2>2 DEF CountInv
<1>8. CASE Finish
  <2>1. pc = "finish" /\ pc' = "off" /\ budget'["load"] = budget["load"]
    BY <1>1, <1>8 DEF Finish, ProcessEnds, FileChanges, FileChangeFails, Budgets
  <2>2. cp' = cp \/ cp' = NoCheckpoint \/ cp'.pages = pages
    BY <1>8, SavedCount DEF Finish, FileChanges, FileChangeFails
  <2> QED BY <1>0, <2>1, <2>2 DEF CountInv, NoCheckpoint
<1>9. CASE Crash
  <2>1. pc' = "off" /\ UNCHANGED cp /\ budget'["load"] = budget["load"]
    BY <1>1, <1>9 DEF Crash, ProcessEnds, Budgets
  <2> QED BY <1>0, <2>1 DEF CountInv
<1>10. ASSUME NEW u \in Urls, TaskStep(u)
       PROVE  /\ CountInv'
              /\ (budget["load"] = MaxLoadFaults /\ cp.exists /\ cp'.exists) => cp'.pages >= cp.pages
  <2>1. UNCHANGED <<cp, pc, noted>> /\ (pages' = pages \/ pages' = pages + 1)
    BY <1>10 DEF TaskStep, Paced, PacingCancelled, FetchFails, Fetched, PipelineDrops, Collect, ExtractFails,
       TaskReturns, PushLink, shared, engine
  <2>2. budget' = budget \/ Spend("failure")
    BY <1>10 DEF TaskStep, Paced, PacingCancelled, FetchFails, Fetched, PipelineDrops, Collect, ExtractFails,
       TaskReturns, PushLink
  <2>3. budget'["load"] = budget["load"]
    BY <1>1, <2>2 DEF Budgets
  <2> QED BY <1>0, <2>1, <2>3 DEF CountInv
<1> QED BY <1>2, <1>3, <1>4, <1>5, <1>6, <1>7, <1>8, <1>9, <1>10 DEF Next, EngineStep

\* The durable page counter never goes back while a checkpoint is replaced, saves
\* that fail included, as long as every load found the checkpoint that is there.
THEOREM CounterNeverRegresses == Spec => PagesNeverRegress
<1>1. Init => VisitInv /\ CountInv
  BY LimitsAssumption DEF Init, VisitInv, CountInv, InFlight, NoTasks, NoTask, NoCheckpoint
<1>2. TypeInv /\ VisitInv /\ CountInv /\ [Next]_vars => (TypeInv /\ VisitInv /\ CountInv)'
  BY TypeStep, VisitStep, CountStep
<1>3. TypeInv /\ VisitInv /\ CountInv /\ [Next]_vars
        => [(budget["load"] = MaxLoadFaults /\ cp.exists /\ cp'.exists) => cp'.pages >= cp.pages]_vars
  BY CountStep
<1> QED BY <1>1, <1>2, <1>3, TypeInit, PTL DEF Spec, PagesNeverRegress
-----------------------------------------------------------------------------
(* A crawl that ends as complete has visited all it knew.                  *)

\* A URL a run knows is visited or in the frontier.  The loop leaves no link
\* behind: it ends only with nothing in flight, and a task is taken off the
\* JoinSet before the queue is drained, or while something is pending.
KnownInv ==
  /\ pc # "off" => /\ seen \subseteq found
                   /\ found \subseteq visited \cup UrlsOf(pending, queue)
  /\ pc = "stopping" => shutdown
  /\ pc \in {"periodic", "spawn", "wait"} /\ InFlight = {} => queue = {}
  /\ pc = "top" /\ InFlight = {} /\ pending = <<>> => queue = {}
  /\ pc \in {"closing", "finish"} /\ ~shutdown /\ ~IsFull
       => InFlight = {} /\ queue = {} /\ pending = <<>>

\* The start of a run.
LEMMA KnownBegin ==
  ASSUME TypeInv, KnownInv, Begin
  PROVE  KnownInv'
<1>0. PICK loaded \in Checkpoints : StartFrom(loaded)
  BY LoadTypes
<1>1. UrlsOf(pending', queue') = Range(loaded.queued) \cup {Seed} \cup ExtraSeeds
  BY <1>0, BeginFrontier
<1>2. /\ pc = "off" /\ pc' = "top" /\ visited' = loaded.visited /\ seen' = {Seed} \cup ExtraSeeds
      /\ found' = {Seed} \cup ExtraSeeds \cup loaded.visited \cup Range(loaded.queued)
  BY <1>0 DEF Begin, StartFrom
<1>3. pending' # <<>>
  <2>1. PICK item : pending' = [i \in 1..Len(loaded.queued) |-> Item(loaded.queued[i], 0, "restored")] \o <<item>>
    BY <1>0 DEF StartFrom
  <2>2. loaded.queued \in Seq(Urls)
    BY DEF Checkpoints
  <2>3. Len(loaded.queued) \in Nat
    BY <2>2
  <2> QED BY <2>1, <2>3
<1> QED BY <1>1, <1>2, <1>3 DEF KnownInv

\* The loop condition.
LEMMA KnownTop ==
  ASSUME TypeInv, KnownInv, LoopTop
  PROVE  KnownInv'
<1>1. /\ pc = "top" /\ UNCHANGED <<visited, pending, queue, seen, found, task, shutdown, counter>>
      /\ \/ pc' = "stopping" /\ shutdown
         \/ pc' = "join"
         \/ pc' = "closing" /\ (~WorkLeft \/ shutdown \/ IsFull)
  BY DEF LoopTop, shared, history
<1>2. InFlight' = InFlight /\ IsFull' = IsFull /\ UrlsOf(pending', queue') = UrlsOf(pending, queue)
  BY <1>1 DEF InFlight, IsFull, UrlsOf
<1>3. WorkLeft \/ (InFlight = {} /\ queue = {} /\ pending = <<>>)
  BY <1>1 DEF KnownInv, WorkLeft
<1> QED BY <1>1, <1>2, <1>3 DEF KnownInv

\* The drain: what is in flight afterwards may push again.
LEMMA KnownDrain ==
  ASSUME TypeInv, KnownInv, DrainDiscovered
  PROVE  KnownInv'
<1>1. /\ pc = "drain" /\ pc' \in {"periodic", "spawn"} /\ queue' = {}
      /\ UNCHANGED <<visited, seen, found, task>>
  BY DEF DrainDiscovered, history
<1>2. UrlsOf(pending', {}) = UrlsOf(pending, queue)
  BY DrainFrontier
<1>3. UrlsOf(pending', queue') = UrlsOf(pending, queue)
  BY <1>1, <1>2
<1> QED BY <1>1, <1>3 DEF KnownInv

\* A save in the loop.
LEMMA KnownPersist ==
  ASSUME TypeInv, KnownInv, PersistCheckpoint
  PROVE  KnownInv'
<1>1. /\ UNCHANGED <<visited, pending, queue, seen, found, task, shutdown, counter>>
      /\ \/ pc = "periodic" /\ pc' = "spawn"
         \/ pc = "stopping" /\ pc' = "closing"
  BY DEF PersistCheckpoint, shared, flags, history
<1>2. InFlight' = InFlight /\ IsFull' = IsFull /\ UrlsOf(pending', queue') = UrlsOf(pending, queue)
  BY <1>1 DEF InFlight, IsFull, UrlsOf
<1> QED BY <1>1, <1>2 DEF KnownInv

\* A spawn.
LEMMA KnownSpawn ==
  ASSUME TypeInv, KnownInv, SpawnTask
  PROVE  KnownInv'
<1> DEFINE k == NextUrl
           x == pending[k].url
<1>1. /\ pc = "spawn" /\ pc' = "spawn" /\ visited' = visited \cup {x}
      /\ UNCHANGED <<seen, found, queue>>
      /\ task' = [task EXCEPT ![x] = [at |-> "pacing", depth |-> pending[k].depth, links |-> {}]]
  BY DEF SpawnTask, shared, history
<1>2. /\ k \in 1..Len(pending) /\ pending[k] \in PendingItems /\ Len(pending) \in Nat
      /\ \A i \in 1..Len(pending) : i > k => \E j \in 1..Len(pending') : pending'[j] = pending[i]
  BY SpawnFrontier, LenProperties DEF TypeInv, FrontierTypes
<1>3. \A i \in 1..(k - 1) : pending[i].url \in visited
  BY <1>2, NextIsFirst
<1>4. x \in Urls
  BY <1>2 DEF PendingItems
<1>5. InFlight' # {}
  <2>1. task'[x].at = "pacing"
    BY <1>1, <1>4 DEF TypeInv
  <2> QED BY <1>4, <2>1 DEF InFlight
<1>6. UrlsOf(pending, queue) \subseteq UrlsOf(pending', queue') \cup visited'
  <2>1. ASSUME NEW i \in 1..Len(pending) PROVE pending[i].url \in UrlsOf(pending', queue') \cup visited'
    <3>1. i > k \/ i = k \/ i \in 1..(k - 1)
      BY <1>2
    <3> QED BY <1>1, <1>2, <1>3, <3>1 DEF UrlsOf
  <2> QED BY <1>1, <2>1 DEF UrlsOf
<1> HIDE DEF x, k
<1> QED BY <1>1, <1>5, <1>6 DEF KnownInv

\* The end of a dispatch round.
LEMMA KnownSpawnDone ==
  ASSUME TypeInv, KnownInv, SpawnDone
  PROVE  KnownInv'
<1>1. pc = "spawn" /\ pc' = "wait" /\ UNCHANGED <<visited, queue, seen, task, found>>
  BY DEF SpawnDone, shared, history
<1>2. UrlsOf(pending, queue) \subseteq UrlsOf(pending', queue') \cup visited
  <2>1. CASE UNCHANGED pending
    BY <1>1, <2>1
  <2>2. CASE NextUrl = 0
    BY <1>1, <2>2, NextIsFirst DEF UrlsOf
  <2> QED BY <2>1, <2>2 DEF SpawnDone
<1> QED BY <1>1, <1>2 DEF KnownInv, InFlight

\* The joins.
LEMMA KnownJoin ==
  ASSUME TypeInv, KnownInv,
         ProcessCompletedTasks \/ WaitForTask \/ DrainTasks \/ AbortTasks
  PROVE  KnownInv'
<1>1. UNCHANGED <<visited, pending, queue, seen, found, shutdown, counter>> /\ pc # "off" /\ pc' # "off"
  BY DEF ProcessCompletedTasks, WaitForTask, DrainTasks, AbortTasks, engine, shared, flags, history
<1>2. UrlsOf(pending', queue') = UrlsOf(pending, queue) /\ IsFull' = IsFull
  BY <1>1 DEF UrlsOf, IsFull
<1>3. CASE ProcessCompletedTasks
  BY <1>1, <1>2, <1>3 DEF ProcessCompletedTasks, KnownInv
<1>4. CASE WaitForTask
  <2>1. pc = "wait" /\ pc' = "top" /\ (pending # <<>> \/ UNCHANGED task)
    BY <1>4 DEF WaitForTask
  <2> QED BY <1>1, <1>2, <2>1 DEF KnownInv, InFlight
<1>5. CASE DrainTasks \/ AbortTasks
  <2>1. pc = "closing" /\ pc' = "finish" /\ InFlight' = {}
    BY <1>5 DEF DrainTasks, AbortTasks, InFlight, NoTasks, NoTask
  <2> QED BY <1>1, <1>2, <2>1 DEF KnownInv
<1> QED BY <1>3, <1>4, <1>5

\* The end of a process.
LEMMA KnownEnd ==
  ASSUME TypeInv, KnownInv, Finish \/ Crash
  PROVE  KnownInv'
<1>1. pc' = "off" /\ pc # "off"
  BY DEF Finish, Crash, ProcessEnds
<1> QED BY <1>1 DEF KnownInv

\* The tasks: a link is known from the moment it is pushed.
LEMMA KnownTask ==
  ASSUME TypeInv, VisitInv, KnownInv, NEW u \in Urls, TaskStep(u)
  PROVE  KnownInv'
<1>1. u \in InFlight /\ InFlight' = InFlight
  <2>1. PICK at, links : /\ task[u].at # "none" /\ at # "none"
                         /\ task' = [task EXCEPT ![u] = [at |-> at, depth |-> task[u].depth, links |-> links]]
    BY DEF TaskStep, Paced, PacingCancelled, FetchFails, Fetched, PipelineDrops, Collect, ExtractFails, TaskReturns,
       PushLink, Move, VisitInv
  <2>2. task' = [v \in Urls |-> IF v = u THEN [at |-> at, depth |-> task[u].depth, links |-> links] ELSE task[v]]
    BY <2>1 DEF VisitInv
  <2> QED BY <2>1, <2>2 DEF InFlight
<1>2. /\ UNCHANGED <<pc, visited, pending, shutdown>>
      /\ counter \in Nat /\ (counter' = counter \/ counter' = counter + 1)
  BY DEF TaskStep, Paced, PacingCancelled, FetchFails, Fetched, PipelineDrops, Collect, ExtractFails, TaskReturns,
     PushLink, engine, shared, flags, history, TypeInv, ScalarTypes
<1>3. pc # "off"
  BY <1>1 DEF VisitInv
<1>4. /\ seen' \subseteq found'
      /\ found' \subseteq visited \cup UrlsOf(pending', queue')
  <2>1. CASE \E v \in Urls : PushLink(u, v)
    <3>1. PICK v \in Urls : PushLink(u, v)
      BY <2>1
    <3>2. seen' = seen \cup {v} /\ found' = found \cup {v}
      BY <3>1 DEF PushLink
    <3>3. UrlsOf(pending, queue) \cup ({v} \ seen) = UrlsOf(pending', queue')
      BY <3>1, PushFrontier
    <3> QED BY <1>3, <3>2, <3>3 DEF KnownInv
  <2>2. CASE UNCHANGED <<pending, queue, seen, found>>
    BY <1>3, <2>2 DEF KnownInv
  <2> QED BY <2>1, <2>2 DEF TaskStep, Paced, PacingCancelled, FetchFails, Fetched, PipelineDrops, Collect,
          ExtractFails, TaskReturns, engine, shared, history
<1>5. IsFull => IsFull'
  BY <1>2, LimitsAssumption DEF IsFull
<1> QED BY <1>1, <1>2, <1>3, <1>4, <1>5 DEF KnownInv

\* Every step keeps track of what is known.
LEMMA KnownStep ==
  ASSUME TypeInv, VisitInv, KnownInv, [Next]_vars
  PROVE  KnownInv'
<1>1. CASE Signal \/ CancelHandle \/ (\E l \in Levels : SetLevel(l)) \/ UNCHANGED vars
  <2>1. /\ UNCHANGED <<pc, cp, visited, pending, queue, seen, found, task, counter>>
        /\ (shutdown => shutdown')
    BY <1>1 DEF Signal, CancelHandle, SetLevel, vars, engine, shared, history
  <2>2. UrlsOf(pending', queue') = UrlsOf(pending, queue) /\ IsFull' = IsFull /\ InFlight' = InFlight
    BY <2>1 DEF UrlsOf, IsFull, InFlight
  <2> QED BY <2>1, <2>2 DEF KnownInv
<1> QED BY <1>1, KnownBegin, KnownTop, KnownDrain, KnownPersist, KnownSpawn, KnownSpawnDone, KnownJoin, KnownEnd, KnownTask
        DEF Next, EngineStep

\* A run that ends as complete has visited every URL it came to know: the seeds,
\* what its checkpoint held and what its tasks found, for every site, concurrency
\* and limit, and however the tasks and the loop interleave.
THEOREM CompleteVisitsAll == Spec => []CompleteMeansAllVisited
<1>1. Init => VisitInv /\ KnownInv
  BY DEF Init, VisitInv, KnownInv, InFlight, NoTasks, NoTask, NoCheckpoint
<1>2. TypeInv /\ VisitInv /\ KnownInv /\ [Next]_vars => (TypeInv /\ VisitInv /\ KnownInv)'
  BY TypeStep, VisitStep, KnownStep
<1>3. TypeInv /\ VisitInv /\ KnownInv => CompleteMeansAllVisited
  <2> SUFFICES ASSUME TypeInv, KnownInv, pc = "finish", CompletedFully
               PROVE  found \subseteq visited
    BY DEF CompleteMeansAllVisited
  <2>1. queue = {} /\ pending = <<>> /\ Len(pending) = 0
    BY DEF KnownInv, CompletedFully
  <2>2. UrlsOf(pending, queue) = {}
    BY <2>1 DEF UrlsOf
  <2> QED BY <2>2 DEF KnownInv
<1> QED BY <1>1, <1>2, <1>3, TypeInit, PTL DEF Spec

\* A step changes the file by a snapshot of what the run has at that moment, or
\* deletes it.
LEMMA FileSteps ==
  ASSUME TypeInv, [Next]_vars
  PROVE  \/ cp' = cp \/ cp' = NoCheckpoint
         \/ pc # "off" /\ \E count \in Nat : cp' = Snapshot(count, pending, queue)
<1>0. pages \in Nat /\ noted \in Nat
  BY DEF TypeInv, ScalarTypes
<1>1. CASE PersistCheckpoint
  BY <1>0, <1>1 DEF PersistCheckpoint, FileChanges, FileChangeFails
<1>2. CASE Finish
  BY <1>0, <1>2 DEF Finish, FileChanges, FileChangeFails
<1>3. CASE ~PersistCheckpoint /\ ~Finish
  BY <1>3 DEF Next, EngineStep, TaskStep, Begin, LoopTop, ProcessCompletedTasks, DrainDiscovered, SpawnTask, SpawnDone,
     WaitForTask, DrainTasks, AbortTasks, Paced, PacingCancelled, FetchFails, Fetched, PipelineDrops, Collect,
     ExtractFails, TaskReturns, PushLink, Signal, CancelHandle, Crash, SetLevel, vars
<1> QED BY <1>1, <1>2, <1>3

\* A checkpoint that is written records every URL the run knows, unless its list
\* is max_pages long: for every site and limit, however the tasks queue links
\* while it is built, and whatever happened to the checkpoints before.
THEOREM FrontierSaved == Spec => SaveKeepsFrontier
<1> DEFINE Kept == (cp'.exists /\ cp' # cp) => \/ found \subseteq cp'.visited \cup Range(cp'.queued)
                                              \/ Len(cp'.queued) = MaxPages
<1>1. Init => VisitInv /\ KnownInv
  BY DEF Init, VisitInv, KnownInv, InFlight, NoTasks, NoTask, NoCheckpoint
<1>2. TypeInv /\ VisitInv /\ KnownInv /\ [Next]_vars => (TypeInv /\ VisitInv /\ KnownInv)'
  BY TypeStep, VisitStep, KnownStep
<1>3. TypeInv /\ VisitInv /\ KnownInv /\ [Next]_vars => [Kept]_vars
  <2> SUFFICES ASSUME TypeInv, KnownInv, [Next]_vars, cp'.exists, cp' # cp
               PROVE  \/ found \subseteq cp'.visited \cup Range(cp'.queued)
                      \/ Len(cp'.queued) = MaxPages
    OBVIOUS
  <2>1. PICK count \in Nat : pc # "off" /\ cp' = Snapshot(count, pending, queue)
    BY FileSteps DEF NoCheckpoint
  <2>2. \/ UrlsOf(pending, queue) \subseteq Range(cp'.queued)
        \/ Len(cp'.queued) = MaxPages
    BY <2>1, SnapshotKeeps DEF TypeInv, ScalarTypes, FrontierTypes
  <2>3. cp'.visited = visited
    BY <2>1 DEF Snapshot
  <2>4. found \subseteq visited \cup UrlsOf(pending, queue)
    BY <2>1 DEF KnownInv
  <2> QED BY <2>2, <2>3, <2>4
<1> QED BY <1>1, <1>2, <1>3, TypeInit, PTL DEF Spec, SaveKeepsFrontier
-----------------------------------------------------------------------------
(* The depth limit.                                                        *)

\* The pages one link farther.
Farther(S) == S \cup ExtraSeeds \cup UNION {Links[u] : u \in S}

\* g computes the distances up to n.
Distances(g, n) ==
  \A i \in 0..n : g[i] = IF i = 0 THEN {Seed} ELSE Farther(g[i - 1])

\* A table of distances of any length exists.
LEMMA DistancesExist ==
  ASSUME NEW n \in Nat
  PROVE  \E g : Distances(g, n)
<1> DEFINE S == {i \in Nat : ~\E g : Distances(g, i)}
<1> SUFFICES ASSUME S # {} PROVE FALSE
  OBVIOUS
<1>1. Min(S) \in S /\ \A i \in S : Min(S) <= i
  <2>1. S \subseteq Nat
    OBVIOUS
  <2> HIDE DEF S
  <2> QED BY <2>1, LeastNat
<1>2. PICK m \in Nat : m \in S /\ \A i \in S : m <= i
  BY <1>1
<1>3. CASE m = 0
  <2> DEFINE h == [i \in 0..0 |-> {Seed}]
  <2>1. Distances(h, 0)
    BY DEF Distances
  <2> QED BY <1>2, <1>3, <2>1
<1>4. CASE m # 0
  <2>1. m - 1 \in Nat /\ ~(m <= m - 1)
    BY <1>4
  <2>2. m - 1 \notin S
    <3> HIDE DEF S
    <3> QED BY <1>2, <2>1
  <2>3. PICK g : Distances(g, m - 1)
    BY <2>1, <2>2
  <2> DEFINE h == [i \in 0..m |-> IF i = m THEN Farther(g[m - 1]) ELSE g[i]]
  <2>4. Distances(h, m)
    <3> SUFFICES ASSUME NEW i \in 0..m
                 PROVE  h[i] = IF i = 0 THEN {Seed} ELSE Farther(h[i - 1])
      BY DEF Distances
    <3>1. CASE i = m
      BY <1>4, <2>1, <3>1
    <3>2. CASE i # m
      <4>1. i \in 0..(m - 1) /\ (i = 0 \/ (i - 1 \in 0..m /\ i - 1 # m))
        BY <2>1, <3>2
      <4> QED BY <2>3, <3>2, <4>1 DEF Distances
    <3> QED BY <3>1, <3>2
  <2> HIDE DEF h
  <2> QED BY <1>2, <2>4
<1> QED BY <1>3, <1>4

\* The recursion that defines Within.
LEMMA WithinIs ==
  /\ DOMAIN Within = 0..MaxDepth
  /\ Within[0] = {Seed}
  /\ \A n \in 1..MaxDepth : n - 1 \in 0..MaxDepth /\ Within[n] = Farther(Within[n - 1])
<1> DEFINE Is(w) == w = [n \in 0..MaxDepth |-> IF n = 0 THEN {Seed} ELSE
                           w[n - 1] \cup ExtraSeeds \cup UNION {Links[u] : u \in w[n - 1]}]
<1>0. MaxDepth \in Nat
  BY LimitsAssumption
<1>1. \E w : Is(w)
  <2>1. PICK g : Distances(g, MaxDepth)
    BY <1>0, DistancesExist
  <2> DEFINE w == [n \in 0..MaxDepth |-> g[n]]
  <2>2. \A n \in 0..MaxDepth : n = 0 \/ n - 1 \in 0..MaxDepth
    BY <1>0
  <2>3. \A n \in 0..MaxDepth : g[n] = IF n = 0 THEN {Seed} ELSE
                           w[n - 1] \cup ExtraSeeds \cup UNION {Links[u] : u \in w[n - 1]}
    BY <2>1, <2>2 DEF Distances, Farther
  <2>4. Is(w)
    BY <2>3
  <2> HIDE DEF w, Is
  <2> QED BY <2>4
<1>2. Is(Within)
  <2>1. Within = CHOOSE w : Is(w)
    BY DEF Within
  <2> HIDE DEF Is
  <2> QED BY <1>1, <2>1
<1>3. DOMAIN Within = 0..MaxDepth
  BY <1>2
<1>4. \A n \in 0..MaxDepth : Within[n] = IF n = 0 THEN {Seed} ELSE
                           Within[n - 1] \cup ExtraSeeds \cup UNION {Links[u] : u \in Within[n - 1]}
  BY <1>2
<1>5. \A n \in 1..MaxDepth : n - 1 \in 0..MaxDepth /\ n \in 0..MaxDepth /\ n # 0
  BY <1>0
<1>6. 0 \in 0..MaxDepth
  BY <1>0
<1> QED BY <1>3, <1>4, <1>5, <1>6 DEF Farther

\* The distances grow.
LEMMA WithinGrows ==
  ASSUME NEW d \in 0..MaxDepth
  PROVE  Within[d] \subseteq Within[MaxDepth]
<1> DEFINE S == {n \in Nat : n \in d..MaxDepth /\ ~(Within[d] \subseteq Within[n])}
<1>0. MaxDepth \in Nat /\ MaxDepth \in d..MaxDepth
  BY LimitsAssumption
<1> SUFFICES ASSUME S # {} PROVE FALSE
  BY <1>0
<1>1. PICK m \in S : \A i \in S : m <= i
  <2>1. S \subseteq Nat
    OBVIOUS
  <2> HIDE DEF S
  <2> QED BY <2>1, LeastNat
<1>2. m # d
  BY <1>1
<1>3. m - 1 \in d..MaxDepth /\ m - 1 \in Nat /\ ~(m <= m - 1) /\ m \in 1..MaxDepth
  BY <1>0, <1>1, <1>2
<1>4. Within[d] \subseteq Within[m - 1]
  <2>1. m - 1 \notin S
    <3> HIDE DEF S
    <3> QED BY <1>1, <1>3
  <2> QED BY <1>3, <2>1
<1>5. Within[m] = Farther(Within[m - 1])
  BY <1>3, WithinIs
<1> QED BY <1>1, <1>4, <1>5 DEF Farther

\* A crawl nobody interrupts, with room for every page of the site: it is never
\* cut short, and so never resumed.  (A resumed run takes the frontier at depth
\* 0, whatever its depth was.)
Uninterrupted == Interrupts = {}
RoomForEveryPage == MaxPages > Cardinality(Urls)

\* No periodic checkpoint outlives the run: none is written, or every deletion
\* succeeds.
NothingLeftBehind == Interval = 0 \/ MaxSaveFaults = 0

\* With max_depth 0 the sitemap's leaves are still queued, at depth 1.
SitemapWithinDepth == MaxDepth > 0 \/ ExtraSeeds \subseteq {Seed}

\* Such a crawl counts no more pages than it visits, and leaves no checkpoint.
RunInv ==
  /\ pc = "off" => cp = NoCheckpoint /\ visited = {}
  /\ Interval = 0 => cp = NoCheckpoint /\ pc # "periodic"
  /\ budget["save"] <= MaxSaveFaults
  /\ ~shutdown /\ ~cancel
  /\ counter + Cardinality(Uncounted) <= Cardinality(visited)

\* It is never full.
LEMMA NeverFull ==
  ASSUME RoomForEveryPage, TypeInv, RunInv
  PROVE  ~IsFull
<1> DEFINE n == Cardinality(Uncounted)
           v == Cardinality(visited)
           a == Cardinality(Urls)
<1>1. visited \subseteq Urls /\ Uncounted \subseteq Urls /\ counter \in Nat
  BY DEF TypeInv, ScalarTypes, Uncounted
<1>2. n \in Nat /\ v \in Nat /\ a \in Nat /\ v <= a
  BY <1>1, TaskSetsFinite, UrlsAssumption, FS_Subset
<1>3. counter + n <= v /\ MaxPages > a
  BY DEF RunInv, RoomForEveryPage
<1> HIDE DEF n, v, a
<1> QED BY <1>1, <1>2, <1>3, LimitsAssumption DEF IsFull

\* A step that visits nothing and counts nothing.
LEMMA QuietRun ==
  ASSUME TypeInv, RunInv, UNCHANGED <<visited, counter, shutdown, cancel>>,
         Uncounted' \subseteq Uncounted, pc' # "off", budget'["save"] <= MaxSaveFaults,
         Interval = 0 => UNCHANGED cp /\ pc' # "periodic"
  PROVE  RunInv'
<1>1. Uncounted \subseteq Urls /\ counter \in Nat /\ visited \subseteq Urls
  BY DEF Uncounted, TypeInv, ScalarTypes
<1>2. Cardinality(Uncounted') <= Cardinality(Uncounted)
  BY <1>1, TaskSetsFinite, FS_Subset
<1>3. Cardinality(Uncounted) \in Nat /\ Cardinality(Uncounted') \in Nat /\ Cardinality(visited) \in Nat
  BY <1>1, TaskSetsFinite
<1>4. counter' + Cardinality(Uncounted') <= Cardinality(visited')
  BY <1>1, <1>2, <1>3 DEF RunInv
<1> QED BY <1>4 DEF RunInv

\* A spawn visits the page whose task it starts.
LEMMA SpawnRun ==
  ASSUME TypeInv, RunInv, SpawnTask
  PROVE  RunInv'
<1> DEFINE x == pending[NextUrl].url
           n == Cardinality(Uncounted)
           v == Cardinality(visited)
<1>1. /\ task' = [task EXCEPT ![x] = [at |-> "pacing", depth |-> pending[NextUrl].depth, links |-> {}]]
      /\ pc' = "spawn" /\ visited' = visited \cup {x} /\ UNCHANGED <<cp, budget, counter, shutdown, cancel>>
  BY DEF SpawnTask, shared, flags
<1>2. x \notin visited
  BY NextIsUnvisited DEF SpawnTask
<1>3. Uncounted' \subseteq Uncounted \cup {x} /\ Uncounted \subseteq Urls /\ visited \subseteq Urls /\ counter \in Nat
  <2> HIDE DEF x
  <2> QED BY <1>1 DEF TypeInv, ScalarTypes, Uncounted
<1> HIDE DEF x
<1>4. n \in Nat /\ v \in Nat /\ IsFiniteSet(Uncounted) /\ IsFiniteSet(visited)
  BY <1>3, TaskSetsFinite
<1>5. Cardinality(visited') = v + 1
  BY <1>1, <1>2, <1>4, FS_AddElement
<1>6. Cardinality(Uncounted') \in Nat /\ Cardinality(Uncounted') <= n + 1
  <2>1. IsFiniteSet(Uncounted \cup {x}) /\ Cardinality(Uncounted \cup {x}) \in {n, n + 1}
    BY <1>4, FS_AddElement
  <2>2. Cardinality(Uncounted') <= Cardinality(Uncounted \cup {x}) /\ IsFiniteSet(Uncounted')
    BY <1>3, <2>1, FS_Subset
  <2>3. Cardinality(Uncounted') \in Nat
    BY <2>2, FS_CardinalityType
  <2> HIDE DEF n
  <2> QED BY <1>4, <2>1, <2>2, <2>3
<1>7. counter + n <= v
  BY DEF RunInv
<1> HIDE DEF n, v
<1>8. counter' + Cardinality(Uncounted') <= Cardinality(visited')
  BY <1>1, <1>3, <1>4, <1>5, <1>6, <1>7
<1> QED BY <1>1, <1>8 DEF RunInv

\* A collected page was visited.
LEMMA CollectRun ==
  ASSUME TypeInv, RunInv, NEW u \in Urls, Collect(u), pc # "off"
  PROVE  RunInv'
<1> DEFINE n == Cardinality(Uncounted)
           v == Cardinality(visited)
<1>1. /\ task' = [task EXCEPT ![u] = [at |-> "links", depth |-> task[u].depth, links |-> LinksToFollow(u)]]
      /\ task[u].at = "fetched" /\ counter' = counter + 1
      /\ UNCHANGED <<cp, pc, budget, visited, shutdown, cancel>>
  BY DEF Collect, engine, flags
<1>2. Uncounted' = Uncounted \ {u} /\ u \in Uncounted
  BY <1>1 DEF TypeInv, Uncounted
<1>3. Uncounted \subseteq Urls /\ visited \subseteq Urls /\ counter \in Nat
  BY DEF Uncounted, TypeInv, ScalarTypes
<1>4. n \in Nat /\ v \in Nat /\ IsFiniteSet(Uncounted)
  BY <1>3, TaskSetsFinite
<1>5. Cardinality(Uncounted') = n - 1
  BY <1>2, <1>4, FS_RemoveElement
<1>6. counter + n <= v
  BY DEF RunInv
<1> HIDE DEF n
<1>7. counter' + Cardinality(Uncounted') <= Cardinality(visited')
  BY <1>1, <1>3, <1>4, <1>5, <1>6
<1> QED BY <1>1, <1>7 DEF RunInv

\* A step leaves what the environment may do, or uses up one of it.
LEMMA BudgetSteps ==
  ASSUME [Next]_vars
  PROVE  budget' = budget \/ \E b \in Budgets : Spend(b)
BY DEF Next, EngineStep, TaskStep, Begin, LoadCheckpoint, LoopTop, ProcessCompletedTasks, DrainDiscovered,
   PersistCheckpoint, FileChanges, FileChangeFails, SpawnTask, SpawnDone, WaitForTask, DrainTasks, AbortTasks, Finish,
   Paced, PacingCancelled, FetchFails, Fetched, PipelineDrops, Collect, ExtractFails, TaskReturns, PushLink, Signal,
   CancelHandle, Crash, SetLevel, vars, Budgets

\* Saves that fail only use up their bound.
LEMMA SaveBudget ==
  ASSUME TypeInv, budget["save"] <= MaxSaveFaults, [Next]_vars
  PROVE  budget'["save"] <= MaxSaveFaults
<1>1. budget \in [Budgets -> Nat] /\ MaxSaveFaults \in Nat /\ budget["save"] \in Nat
  BY LimitsAssumption DEF TypeInv, ScalarTypes, Budgets
<1>2. budget' = budget \/ \E b \in Budgets : Spend(b)
  BY BudgetSteps
<1>3. budget'["save"] \in {budget["save"], budget["save"] - 1}
  BY <1>1, <1>2 DEF Spend, Budgets
<1> QED BY <1>1, <1>3

\* Every step keeps the run whole.
LEMMA RunStep ==
  ASSUME Uninterrupted, NothingLeftBehind, RoomForEveryPage, TypeInv, VisitInv, KnownInv, RunInv, [Next]_vars
  PROVE  RunInv'
<1>0. ~IsFull /\ shutdown = FALSE /\ cancel = FALSE /\ task = [u \in Urls |-> task[u]]
  BY NeverFull DEF RunInv, VisitInv, TypeInv, ScalarTypes
<1>1. budget'["save"] <= MaxSaveFaults
  BY SaveBudget DEF RunInv
<1>2. CASE Begin
  <2>1. visited' = {} /\ visited = {} /\ UNCHANGED <<cp, task, counter, shutdown, cancel>> /\ pc' = "top"
    BY <1>2 DEF Begin, StartFrom, RunInv, NoCheckpoint, flags
  <2> QED BY <1>1, <2>1, QuietRun DEF Uncounted
<1>3. CASE LoopTop \/ DrainDiscovered \/ SpawnDone \/ (\E l \in Levels : SetLevel(l))
  <2>1. UNCHANGED <<cp, task, counter, visited, shutdown, cancel>> /\ pc' # "off"
    BY <1>0, <1>3 DEF LoopTop, DrainDiscovered, SpawnDone, SetLevel, engine, shared, flags
  <2>2. Interval = 0 => pc' # "periodic"
    BY <1>3 DEF LoopTop, DrainDiscovered, PeriodicSave, SpawnDone, SetLevel, RunInv
  <2> QED BY <1>1, <2>1, <2>2, QuietRun DEF Uncounted
<1>4. CASE PersistCheckpoint
  <2>1. UNCHANGED <<task, counter, visited, shutdown, cancel>> /\ pc' \in {"spawn", "closing"}
    BY <1>4 DEF PersistCheckpoint, shared, flags
  <2>2. Interval # 0
    BY <1>0, <1>4 DEF PersistCheckpoint, KnownInv, RunInv
  <2> QED BY <1>1, <2>1, <2>2, QuietRun DEF Uncounted
<1>5. CASE ProcessCompletedTasks \/ WaitForTask \/ DrainTasks \/ AbortTasks
  <2>1. UNCHANGED <<cp, counter, visited, shutdown, cancel>> /\ pc' \notin {"off", "periodic"}
    BY <1>0, <1>5 DEF ProcessCompletedTasks, WaitForTask, DrainTasks, AbortTasks, engine, shared, flags
  <2>2. Uncounted' \subseteq Uncounted
    BY <1>0, <1>5 DEF ProcessCompletedTasks, WaitForTask, DrainTasks, AbortTasks, NoTasks, NoTask, Finished, Uncounted
  <2> QED BY <1>1, <2>1, <2>2, QuietRun
<1>6. CASE SpawnTask
  BY <1>6, SpawnRun
<1>7. CASE Finish
  <2>1. pc = "finish" /\ ProcessEnds
    BY <1>7 DEF Finish
  <2>2. CompletedFully
    BY <1>0, <2>1 DEF CompletedFully, KnownInv
  <2>3. cp' = NoCheckpoint
    <3>1. CASE FileChangeFails
      <4>1. budget["save"] > 0 /\ UNCHANGED cp /\ budget["save"] \in Nat
        BY <3>1 DEF FileChangeFails, Spend, TypeInv, ScalarTypes, Budgets
      <4>2. Interval = 0
        BY <4>1 DEF NothingLeftBehind, RunInv
      <4> QED BY <4>1, <4>2 DEF RunInv
    <3> QED BY <1>7, <2>2, <3>1 DEF Finish, FileChanges
  <2>4. Uncounted' = {} /\ visited' = {} /\ counter' = 0 /\ ~shutdown' /\ ~cancel' /\ pc' = "off"
    BY <2>1 DEF ProcessEnds, Uncounted, NoTasks, NoTask
  <2>5. Cardinality(Uncounted') = 0 /\ Cardinality(visited') = 0
    BY <2>4, FS_EmptySet
  <2> QED BY <1>1, <2>4, <2>5, <2>3 DEF RunInv
<1>8. CASE Signal \/ CancelHandle \/ Crash
  BY <1>8 DEF Signal, CancelHandle, Crash, Uninterrupted
<1>9. ASSUME NEW u \in Urls, TaskStep(u) PROVE RunInv'
  <2>0. pc # "off"
    <3>1. task[u].at # "none"
      BY <1>9 DEF TaskStep, Paced, PacingCancelled, FetchFails, Fetched, PipelineDrops, Collect, ExtractFails,
         TaskReturns, PushLink
    <3> QED BY <3>1 DEF VisitInv, InFlight
  <2>1. CASE Collect(u)
    BY <2>0, <2>1, CollectRun
  <2>2. CASE ~Collect(u)
    <3>1. UNCHANGED <<cp, pc, counter, visited, shutdown, cancel>>
      BY <1>9, <2>2 DEF TaskStep, Paced, PacingCancelled, FetchFails, Fetched, PipelineDrops, ExtractFails,
         TaskReturns, PushLink, engine, shared, flags
    <3>2. \E at, links :
            /\ at \in {"fetching", "fetched"} => u \in Uncounted
            /\ at \in {"fetching", "fetched", "links", "done", "none"}
            /\ task' = [task EXCEPT ![u] = [at |-> at, depth |-> task[u].depth, links |-> links]]
      BY <1>0, <1>9, <2>2 DEF TaskStep, Paced, PacingCancelled, FetchFails, Fetched, PipelineDrops,
         ExtractFails, TaskReturns, PushLink, Move, Uncounted
    <3>3. Uncounted' \subseteq Uncounted
      <4>1. PICK at, links :
            /\ at \in {"fetching", "fetched"} => u \in Uncounted
            /\ at \in {"fetching", "fetched", "links", "done", "none"}
            /\ task' = [task EXCEPT ![u] = [at |-> at, depth |-> task[u].depth, links |-> links]]
        BY <3>2
      <4>2. \A v \in Urls : task'[v].at = IF v = u THEN at ELSE task[v].at
        BY <1>0, <4>1
      <4> QED BY <4>1, <4>2 DEF Uncounted
    <3> QED BY <1>1, <2>0, <3>1, <3>3, QuietRun DEF RunInv
  <2> QED BY <2>1, <2>2
<1>10. CASE UNCHANGED vars
  BY <1>10 DEF vars, RunInv, Uncounted
<1> QED BY <1>2, <1>3, <1>5, <1>6, <1>7, <1>8, <1>9, <1>10, <1>4 DEF Next, EngineStep

\* The depth a URL travels with is a number of links it can be reached by.
Near(u, d) == d \in 0..MaxDepth /\ u \in Within[d]

NearInv ==
  /\ \A i \in 1..Len(pending) : Near(pending[i].url, pending[i].depth)
  /\ \A item \in queue : Near(item.url, item.depth)
  /\ \A u \in InFlight : Near(u, task[u].depth) /\ task[u].links \subseteq LinksToFollow(u)
  /\ WithinDepth

\* A link of a page within reach, followed below max_depth, is within reach.
LEMMA NearLink ==
  ASSUME NEW u \in Urls, Near(u, task[u].depth), NEW v \in LinksToFollow(u)
  PROVE  Near(v, task[u].depth + 1) /\ v \in Links[u]
<1> DEFINE d == task[u].depth
<1>1. d \in 0..MaxDepth /\ d < MaxDepth /\ v \in Links[u] /\ u \in Within[d]
  BY DEF Near, LinksToFollow
<1>2. d + 1 \in 1..MaxDepth /\ d + 1 \in 0..MaxDepth /\ (d + 1) - 1 = d
  BY <1>1, LimitsAssumption
<1> HIDE DEF d
<1>3. Within[d + 1] = Farther(Within[d])
  BY <1>2, WithinIs
<1> QED BY <1>1, <1>2, <1>3 DEF Near, Farther, d

\* The items a run starts with.
LEMMA BeginItems ==
  ASSUME cp = NoCheckpoint, Begin
  PROVE  /\ Len(pending') = 1 /\ pending'[1] = Item(Seed, 0, "seed")
         /\ \A item \in queue' : \/ item = Item(Seed, 0, "seed")
                                 \/ \E u \in ExtraSeeds \ {Seed} : item = Item(u, 1, "sitemap")
<1>1. StartFrom(NoCheckpoint) /\ NoCheckpoint.queued = <<>>
  BY DEF Begin, NoCheckpoint
<1>2. pending' = [i \in 1..Len(NoCheckpoint.queued) |-> Item(NoCheckpoint.queued[i], 0, "restored")]
                   \o <<Item(Seed, 0, "seed")>>
  BY <1>1 DEF StartFrom
<1>3. [i \in 1..Len(NoCheckpoint.queued) |-> Item(NoCheckpoint.queued[i], 0, "restored")] = <<>>
  BY <1>1
<1>4. pending' = <<Item(Seed, 0, "seed")>>
  <2> DEFINE s == <<Item(Seed, 0, "seed")>>
  <2>1. s \in Seq({Item(Seed, 0, "seed")})
    OBVIOUS
  <2>2. <<>> \o s = s
    <3> HIDE DEF s
    <3> QED BY <2>1, ConcatEmptySeq
  <2> QED BY <1>2, <1>3, <2>2
<1> QED BY <1>1, <1>4 DEF StartFrom

\* Every step keeps the depths true.
LEMMA NearStep ==
  ASSUME Uninterrupted, NothingLeftBehind, RoomForEveryPage, SitemapWithinDepth,
         TypeInv, VisitInv, RunInv, NearInv, [Next]_vars
  PROVE  NearInv'
<1>0. task = [u \in Urls |-> task[u]] /\ MaxDepth \in Nat /\ 0 \in 0..MaxDepth
  BY LimitsAssumption DEF VisitInv
<1>1. CASE Begin
  <2>1. /\ cp = NoCheckpoint /\ visited' = {} /\ UNCHANGED task /\ InFlight = {}
    BY <1>1 DEF Begin, StartFrom, RunInv, VisitInv, NoCheckpoint
  <2>2. Near(Seed, 0) /\ \A u \in ExtraSeeds \ {Seed} : Near(u, 1)
    <3>1. Near(Seed, 0)
      BY <1>0, WithinIs DEF Near
    <3>2. ASSUME NEW u \in ExtraSeeds \ {Seed} PROVE Near(u, 1)
      <4>1. MaxDepth > 0
        BY <3>2 DEF SitemapWithinDepth
      <4>2. 1 \in 1..MaxDepth /\ 1 \in 0..MaxDepth /\ 1 - 1 = 0
        BY <1>0, <4>1
      <4>3. Within[1] = Farther(Within[0])
        BY <4>2, WithinIs
      <4> QED BY <3>2, <4>2, <4>3 DEF Near, Farther
    <3> QED BY <3>1, <3>2
  <2>3. \A i \in 1..Len(pending') : Near(pending'[i].url, pending'[i].depth)
    <3>1. Len(pending') = 1 /\ pending'[1] = Item(Seed, 0, "seed")
      BY <1>1, <2>1, BeginItems
    <3>2. pending'[1].url = Seed /\ pending'[1].depth = 0
      BY <3>1 DEF Item
    <3> QED BY <2>2, <3>1, <3>2
  <2>4. \A item \in queue' : Near(item.url, item.depth)
    <3> SUFFICES ASSUME NEW item \in queue' PROVE Near(item.url, item.depth)
      OBVIOUS
    <3>1. \/ item.url = Seed /\ item.depth = 0
          \/ item.url \in ExtraSeeds \ {Seed} /\ item.depth = 1
      BY <1>1, <2>1, BeginItems DEF Item
    <3> QED BY <2>2, <3>1
  <2>5. InFlight' = {}
    BY <2>1 DEF InFlight
  <2> QED BY <2>1, <2>3, <2>4, <2>5 DEF NearInv, WithinDepth
<1>2. CASE LoopTop \/ PersistCheckpoint \/ (\E l \in Levels : SetLevel(l)) \/ UNCHANGED vars
  <2>1. UNCHANGED <<task, visited, pending, queue>>
    BY <1>2 DEF LoopTop, PersistCheckpoint, SetLevel, vars, engine, shared
  <2> QED BY <2>1 DEF NearInv, InFlight, LinksToFollow, WithinDepth
<1>3. CASE ProcessCompletedTasks \/ WaitForTask \/ DrainTasks \/ AbortTasks
  <2>1. UNCHANGED <<visited, pending, queue>>
    BY <1>3 DEF ProcessCompletedTasks, WaitForTask, DrainTasks, AbortTasks, engine, shared
  <2>2. \A v \in Urls : task'[v] = task[v] \/ task'[v] = NoTask
    BY <1>0, <1>3 DEF ProcessCompletedTasks, WaitForTask, DrainTasks, AbortTasks, NoTasks, Finished
  <2>3. \A v \in InFlight' : v \in InFlight /\ task'[v] = task[v] /\ LinksToFollow(v)' = LinksToFollow(v)
    BY <2>2 DEF InFlight, NoTask, LinksToFollow
  <2>4. \A v \in InFlight' : Near(v, task'[v].depth) /\ task'[v].links \subseteq LinksToFollow(v)'
    BY <2>3 DEF NearInv
  <2> QED BY <2>1, <2>4 DEF NearInv, WithinDepth
<1>4. CASE DrainDiscovered
  <2>1. queue' = {} /\ UNCHANGED <<task, visited>>
    BY <1>4 DEF DrainDiscovered
  <2>2. ASSUME NEW i \in 1..Len(pending') PROVE Near(pending'[i].url, pending'[i].depth)
    <3> DEFINE n == Cardinality(queue)
               m == Len(pending)
               d == Drained(queue)
    <3>1. /\ Len(pending') = m + n /\ m \in Nat
          /\ pending'[i] = IF i <= m THEN pending[i] ELSE d[i - m]
      BY <1>4, <2>2, DrainFrontier, LenProperties DEF TypeInv, FrontierTypes
    <3>2. n \in Nat /\ d \in Seq(queue) /\ Len(d) = n
      BY QueueFinite, DrainedSorts DEF TypeInv, FrontierTypes
    <3> HIDE DEF d, n
    <3>3. CASE i <= m
      <4>1. i \in 1..m /\ pending'[i] = pending[i]
        BY <2>2, <3>1, <3>2, <3>3
      <4> QED BY <4>1 DEF NearInv
    <3>4. CASE ~(i <= m)
      <4>1. i - m \in 1..n /\ pending'[i] = d[i - m]
        BY <2>2, <3>1, <3>2, <3>4
      <4>2. pending'[i] \in queue
        BY <3>2, <4>1, ElementOfSeq
      <4> QED BY <4>2 DEF NearInv
    <3> QED BY <3>3, <3>4
  <2>3. InFlight' = InFlight /\ \A u \in InFlight : LinksToFollow(u)' = LinksToFollow(u)
    BY <2>1 DEF InFlight, LinksToFollow
  <2> QED BY <2>1, <2>2, <2>3 DEF NearInv, WithinDepth
<1>5. CASE SpawnTask
  <2> DEFINE k == NextUrl
             x == pending[k].url
             t == [at |-> "pacing", depth |-> pending[k].depth, links |-> {}]
  <2>1. visited' = visited \cup {x} /\ task' = [task EXCEPT ![x] = t] /\ UNCHANGED queue
    BY <1>5 DEF SpawnTask, shared
  <2>2. /\ k \in 1..Len(pending)
        /\ \A i \in 1..Len(pending') : i + k \in 1..Len(pending) /\ pending'[i] = pending[i + k]
    BY <1>5, SpawnFrontier
  <2>3. Near(x, pending[k].depth)
    BY <2>2 DEF NearInv
  <2>4. x \in Within[MaxDepth]
    BY <2>3, WithinGrows DEF Near
  <2>5. \A i \in 1..Len(pending') : Near(pending'[i].url, pending'[i].depth)
    BY <2>2 DEF NearInv
  <2>6. ASSUME NEW u \in InFlight' PROVE Near(u, task'[u].depth) /\ task'[u].links \subseteq LinksToFollow(u)'
    <3>1. u \in Urls /\ task'[u].at # "none"
      BY <2>6 DEF InFlight
    <3>2. CASE u = x
      <4>1. task'[u] = t
        BY <1>0, <2>1, <3>1, <3>2
      <4> QED BY <2>3, <3>2, <4>1
    <3>3. CASE u # x
      <4>1. task'[u] = task[u]
        BY <1>0, <2>1, <3>1, <3>3
      <4>2. u \in InFlight /\ LinksToFollow(u)' = LinksToFollow(u)
        BY <3>1, <4>1 DEF InFlight, LinksToFollow
      <4> QED BY <4>1, <4>2 DEF NearInv
    <3> QED BY <3>2, <3>3
  <2> HIDE DEF x, k, t
  <2> QED BY <2>1, <2>4, <2>5, <2>6 DEF NearInv, WithinDepth
<1>6. CASE SpawnDone
  <2>1. UNCHANGED <<visited, queue, task>> /\ (pending' = pending \/ pending' = <<>>)
    BY <1>6 DEF SpawnDone, shared
  <2>2. \A i \in 1..Len(pending') : Near(pending'[i].url, pending'[i].depth)
    BY <2>1 DEF NearInv
  <2> QED BY <2>1, <2>2 DEF NearInv, InFlight, LinksToFollow, WithinDepth
<1>7. CASE Finish
  <2>1. pending' = <<>> /\ Len(pending') = 0 /\ queue' = {} /\ visited' = {} /\ InFlight' = {}
    BY <1>7 DEF Finish, ProcessEnds, InFlight, NoTasks, NoTask
  <2>2. \A i \in 1..Len(pending') : Near(pending'[i].url, pending'[i].depth)
    BY <2>1
  <2> QED BY <2>1, <2>2 DEF NearInv, WithinDepth
<1>8. CASE Signal \/ CancelHandle \/ Crash
  BY <1>8 DEF Signal, CancelHandle, Crash, Uninterrupted
<1>9. ASSUME NEW u \in Urls, TaskStep(u) PROVE NearInv'
  <2>1. UNCHANGED <<visited, pending>>
    BY <1>9 DEF TaskStep, Paced, PacingCancelled, FetchFails, Fetched, PipelineDrops, Collect, ExtractFails,
       TaskReturns, PushLink, engine
  <2>2. /\ task[u].at # "none" /\ \A v \in Urls : v # u => task'[v] = task[v]
        /\ task'[u].depth = task[u].depth /\ task'[u].links \subseteq task[u].links \cup LinksToFollow(u)
    BY <1>0, <1>9 DEF TaskStep, Paced, PacingCancelled, FetchFails, Fetched, PipelineDrops, Collect, ExtractFails,
       TaskReturns, PushLink, Move
  <2>3. u \in InFlight
    BY <2>2 DEF InFlight
  <2>4. Near(u, task[u].depth) /\ task[u].links \subseteq LinksToFollow(u)
    BY <2>3 DEF NearInv
  <2>5. ASSUME NEW v \in InFlight' PROVE Near(v, task'[v].depth) /\ task'[v].links \subseteq LinksToFollow(v)'
    <3>1. v \in Urls /\ task'[v].at # "none"
      BY <2>5 DEF InFlight
    <3>2. LinksToFollow(v)' = LinksToFollow(v)
      BY <2>2, <3>1 DEF LinksToFollow
    <3>3. CASE v = u
      BY <2>2, <2>4, <3>2, <3>3
    <3>4. CASE v # u
      <4>1. task'[v] = task[v] /\ v \in InFlight
        BY <2>2, <3>1, <3>4 DEF InFlight
      <4> QED BY <3>2, <4>1 DEF NearInv
    <3> QED BY <3>3, <3>4
  <2>6. \A item \in queue' : Near(item.url, item.depth)
    <3>1. CASE \E v \in Urls : PushLink(u, v)
      <4>1. PICK v \in Urls : PushLink(u, v)
        BY <3>1
      <4>2. v \in LinksToFollow(u) /\ \A item \in queue' : item \in queue \/ item = Item(v, task[u].depth + 1, "link")
        BY <2>4, <4>1 DEF PushLink
      <4>3. Near(v, task[u].depth + 1)
        BY <2>4, <4>2, NearLink
      <4>4. \A item \in queue' : item \in queue \/ (item.url = v /\ item.depth = task[u].depth + 1)
        BY <4>2 DEF Item
      <4> QED BY <4>3, <4>4 DEF NearInv
    <3>2. CASE UNCHANGED queue
      BY <3>2 DEF NearInv
    <3> QED BY <1>9, <3>1, <3>2 DEF TaskStep, Paced, PacingCancelled, FetchFails, Fetched, PipelineDrops, Collect,
            ExtractFails, TaskReturns, shared
  <2> QED BY <2>1, <2>5, <2>6 DEF NearInv, WithinDepth
<1> QED BY <1>1, <1>2, <1>3, <1>4, <1>5, <1>6, <1>7, <1>8, <1>9 DEF Next, EngineStep

\* All that is known of an uninterrupted crawl.
WholeInv == TypeInv /\ VisitInv /\ KnownInv /\ RunInv

\* It holds at the start.
LEMMA WholeInit == Init => WholeInv /\ NearInv
<1> SUFFICES ASSUME Init PROVE WholeInv /\ NearInv
  OBVIOUS
<1>1. TypeInv /\ VisitInv /\ KnownInv
  BY TypeInit DEF Init, VisitInv, KnownInv, InFlight, NoTasks, NoTask, NoCheckpoint
<1>2. Uncounted = {} /\ visited = {} /\ counter = 0 /\ InFlight = {} /\ Len(pending) = 0 /\ queue = {}
  BY DEF Init, Uncounted, InFlight, NoTasks, NoTask
<1>3. RunInv
  <2>1. Cardinality(Uncounted) = 0 /\ Cardinality(visited) = 0
    BY <1>2, FS_EmptySet
  <2> QED BY <1>2, <2>1, LimitsAssumption DEF Init, RunInv
<1>4. NearInv
  BY <1>2 DEF NearInv, WithinDepth
<1> QED BY <1>1, <1>3, <1>4 DEF WholeInv

\* Every step keeps it.
LEMMA WholeStep ==
  ASSUME Uninterrupted, NothingLeftBehind, RoomForEveryPage, WholeInv, [Next]_vars
  PROVE  WholeInv'
BY TypeStep, VisitStep, KnownStep, RunStep DEF WholeInv

\* A crawl that is neither interrupted nor full visits no page farther than
\* max_depth links from the seed, for every site, depth and concurrency.
THEOREM NeverTooDeep ==
  ASSUME Uninterrupted, NothingLeftBehind, RoomForEveryPage, SitemapWithinDepth
  PROVE  Spec => []WithinDepth
<1>1. WholeInv /\ NearInv /\ [Next]_vars => (WholeInv /\ NearInv)'
  BY WholeStep, NearStep DEF WholeInv
<1>2. NearInv => WithinDepth
  BY DEF NearInv
<1> QED BY <1>1, <1>2, WholeInit, PTL DEF Spec
-----------------------------------------------------------------------------
(* One worker crawls breadth first and covers the site up to max_depth.    *)

OneWorker == Concurrency = 1

\* The frontier is in the order of depth and spans two levels at most: with one
\* task in flight, its own level and the next.
OrderInv ==
  /\ \A u, v \in InFlight : u = v
  /\ \A i, j \in 1..Len(pending) : i <= j => /\ pending[i].depth <= pending[j].depth
                                             /\ pending[j].depth <= pending[i].depth + 1
  /\ \A i \in 1..Len(pending) : \A item \in queue : /\ pending[i].depth <= item.depth
                                                    /\ item.depth <= pending[i].depth + 1
  /\ \A a, b \in queue : a.depth <= b.depth + 1 /\ (Before(a, b) => a.depth <= b.depth)
  /\ \A u \in InFlight :
       /\ \A i \in 1..Len(pending) : pending[i].depth \in {task[u].depth, task[u].depth + 1}
       /\ \A item \in queue : item.depth = task[u].depth + 1

\* The single worker is free when a task is started, and the queue is empty.
LEMMA SpawnAlone ==
  ASSUME OneWorker, TypeInv, KnownInv, SpawnTask
  PROVE  InFlight = {} /\ queue = {}
<1>1. level \in {"Normal", "Reduced", "Critical"}
  BY LevelsAssumption DEF TypeInv, ScalarTypes
<1>2. EffectiveConcurrency \in {0, 1}
  BY <1>1 DEF EffectiveConcurrency, OneWorker
<1>3. IsFiniteSet(InFlight) /\ Cardinality(InFlight) \in Nat
  BY TaskSetsFinite DEF InFlight
<1>4. Cardinality(InFlight) = 0
  BY <1>2, <1>3 DEF SpawnTask, CanSpawn
<1>5. InFlight = {}
  BY <1>3, <1>4, FS_EmptySet
<1> QED BY <1>5 DEF SpawnTask, KnownInv

\* The depths of the frontier are numbers.
LEMMA DepthsAreNat ==
  ASSUME TypeInv
  PROVE  /\ Len(pending) \in Nat /\ \A i \in 1..Len(pending) : pending[i].depth \in Nat
         /\ \A item \in queue : item.depth \in Nat
         /\ \A u \in Urls : task[u].depth \in Nat
<1>1. \A i \in 1..Len(pending) : pending[i] \in PendingItems
  BY ElementOfSeq DEF TypeInv, FrontierTypes
<1> QED BY <1>1, LenProperties DEF TypeInv, FrontierTypes, PendingItems, QueueItems, TaskRecords

\* The drain appends the next level in order.
LEMMA OrderDrain ==
  ASSUME TypeInv, OrderInv, DrainDiscovered
  PROVE  OrderInv'
<1> DEFINE n == Cardinality(queue)
           m == Len(pending)
           d == Drained(queue)
<1>1. queue' = {} /\ UNCHANGED task
  BY DEF DrainDiscovered
<1>2. /\ Len(pending') = m + n /\ m \in Nat
      /\ \A i \in 1..(m + n) : pending'[i] = IF i <= m THEN pending[i] ELSE d[i - m]
  BY DrainFrontier, DepthsAreNat
<1>3. /\ n \in Nat /\ d \in Seq(queue) /\ Len(d) = n
      /\ \A i, j \in 1..n : i < j => Before(d[i], d[j])
  BY QueueFinite, DrainedSorts DEF TypeInv, FrontierTypes
<1> HIDE DEF d, n
<1>4. \A i \in 1..n : d[i] \in queue
  BY <1>3, ElementOfSeq
<1>5. \A i \in 1..(m + n) : \/ i \in 1..m /\ pending'[i] = pending[i]
                            \/ i > m /\ i - m \in 1..n /\ pending'[i] = d[i - m] /\ pending'[i] \in queue
  <2> SUFFICES ASSUME NEW i \in 1..(m + n)
               PROVE  \/ i \in 1..m /\ pending'[i] = pending[i]
                      \/ i > m /\ i - m \in 1..n /\ pending'[i] = d[i - m] /\ pending'[i] \in queue
    OBVIOUS
  <2> HIDE DEF m
  <2>1. (i <= m /\ i \in 1..m) \/ (i > m /\ ~(i <= m) /\ i - m \in 1..n)
    BY <1>2, <1>3
  <2> QED BY <1>2, <1>4, <2>1
<1>6. \A i \in 1..m : pending[i].depth \in Nat
  BY DepthsAreNat
<1>7. \A item \in queue : item.depth \in Nat
  BY DepthsAreNat
<1>8. ASSUME NEW i \in 1..(m + n), NEW j \in 1..(m + n), i <= j
      PROVE  pending'[i].depth <= pending'[j].depth /\ pending'[j].depth <= pending'[i].depth + 1
  <2>1. CASE i \in 1..m /\ pending'[i] = pending[i] /\ j \in 1..m /\ pending'[j] = pending[j]
    BY <1>8, <2>1 DEF OrderInv
  <2>2. CASE i \in 1..m /\ pending'[i] = pending[i] /\ pending'[j] \in queue
    BY <1>8, <2>2 DEF OrderInv
  <2>3. CASE /\ i > m /\ i - m \in 1..n /\ pending'[i] = d[i - m] /\ pending'[i] \in queue
             /\ j > m /\ j - m \in 1..n /\ pending'[j] = d[j - m] /\ pending'[j] \in queue
    <3>1. pending'[j].depth <= pending'[i].depth + 1
      BY <2>3 DEF OrderInv
    <3>2. CASE i = j
      BY <1>7, <2>3, <3>1, <3>2
    <3>3. CASE i # j
      <4>1. i - m < j - m
        <5> HIDE DEF m
        <5> QED BY <1>2, <1>3, <1>8, <3>3
      <4>2. Before(pending'[i], pending'[j])
        BY <1>3, <2>3, <4>1
      <4> QED BY <2>3, <3>1, <4>2 DEF OrderInv
    <3> QED BY <3>2, <3>3
  <2>4. \/ i \in 1..m /\ pending'[i] = pending[i]
        \/ i > m /\ i - m \in 1..n /\ pending'[i] = d[i - m] /\ pending'[i] \in queue
    BY <1>5, <1>8
  <2>5. \/ j \in 1..m /\ pending'[j] = pending[j]
        \/ j > m /\ j - m \in 1..n /\ pending'[j] = d[j - m] /\ pending'[j] \in queue
    BY <1>5, <1>8
  <2>6. ~(i > m /\ j \in 1..m)
    <3> HIDE DEF m
    <3> QED BY <1>2, <1>3, <1>8
  <2> QED BY <2>1, <2>2, <2>3, <2>4, <2>5, <2>6
<1>9. InFlight' = InFlight
  BY <1>1 DEF InFlight
<1>10. \A u \in InFlight : \A i \in 1..(m + n) : pending'[i].depth \in {task'[u].depth, task'[u].depth + 1}
  BY <1>1, <1>5 DEF OrderInv
<1> QED BY <1>1, <1>2, <1>8, <1>9, <1>10 DEF OrderInv

\* A spawn leaves its own level and the next.
LEMMA OrderSpawn ==
  ASSUME OneWorker, TypeInv, KnownInv, OrderInv, SpawnTask
  PROVE  OrderInv'
<1> DEFINE k == NextUrl
           x == pending[k].url
           e == pending[k].depth
           t == [at |-> "pacing", depth |-> e, links |-> {}]
<1>1. InFlight = {} /\ queue = {} /\ queue' = {} /\ task' = [task EXCEPT ![x] = t]
  BY SpawnAlone DEF SpawnTask, shared
<1>2. /\ k \in 1..Len(pending) /\ Len(pending) \in Nat /\ Len(pending') = Len(pending) - k
      /\ \A i \in 1..Len(pending') : i + k \in 1..Len(pending) /\ pending'[i] = pending[i + k]
  BY SpawnFrontier, DepthsAreNat
<1>3. InFlight' \subseteq {x} /\ (x \in InFlight' => task'[x].depth = e)
  <2>1. \A v \in Urls : task'[v] = IF v = x THEN t ELSE task[v]
    <3> HIDE DEF x, t
    <3> QED BY <1>1 DEF TypeInv
  <2> QED BY <1>1, <2>1 DEF InFlight
<1>4. \A i \in 1..Len(pending) : pending[i].depth \in Nat
  BY DepthsAreNat
<1>5. ASSUME NEW i \in 1..Len(pending'), NEW j \in 1..Len(pending'), i <= j
      PROVE  pending'[i].depth <= pending'[j].depth /\ pending'[j].depth <= pending'[i].depth + 1
  <2>1. i + k <= j + k
    BY <1>2, <1>5
  <2> QED BY <1>2, <1>5, <2>1 DEF OrderInv
<1>6. ASSUME NEW i \in 1..Len(pending') PROVE pending'[i].depth \in {e, e + 1}
  <2>1. k <= i + k
    BY <1>2, <1>6
  <2>2. pending'[i].depth = pending[i + k].depth /\ pending[i + k].depth \in Nat /\ e \in Nat
    BY <1>2, <1>4, <1>6
  <2>3. e <= pending[i + k].depth /\ pending[i + k].depth <= e + 1
    BY <1>2, <1>6, <2>1 DEF OrderInv
  <2> HIDE DEF e
  <2> QED BY <2>2, <2>3
<1> HIDE DEF x, e
<1> QED BY <1>1, <1>3, <1>5, <1>6 DEF OrderInv

\* Every step keeps the order.
LEMMA OrderStep ==
  ASSUME Uninterrupted, NothingLeftBehind, RoomForEveryPage, OneWorker, WholeInv, NearInv, OrderInv, [Next]_vars
  PROVE  OrderInv'
<1>0. task = [u \in Urls |-> task[u]] /\ TypeInv /\ KnownInv
  BY DEF WholeInv, VisitInv
<1>1. CASE Begin
  <2>1. cp = NoCheckpoint /\ UNCHANGED task /\ InFlight = {}
    BY <1>1 DEF Begin, WholeInv, RunInv, VisitInv
  <2>2. /\ Len(pending') = 1 /\ pending'[1].depth = 0
        /\ \A item \in queue' : \/ item.depth = 0 /\ item.source = "seed"
                                \/ item.depth = 1 /\ item.source = "sitemap"
    <3>1. Len(pending') = 1 /\ pending'[1] = Item(Seed, 0, "seed")
      BY <1>1, <2>1, BeginItems
    <3>2. \A item \in queue' : \/ item = Item(Seed, 0, "seed")
                               \/ \E u \in ExtraSeeds \ {Seed} : item = Item(u, 1, "sitemap")
      BY <1>1, <2>1, BeginItems
    <3> QED BY <3>1, <3>2 DEF Item
  <2>3. \A a \in queue' : \/ a.depth = 0 /\ Priority(a) = 1000
                          \/ a.depth = 1 /\ Priority(a) = 490
    BY <2>2 DEF Priority
  <2>4. \A a, b \in queue' : a.depth <= b.depth + 1 /\ (Before(a, b) => a.depth <= b.depth)
    BY <2>3 DEF Before
  <2>5. InFlight' = {}
    BY <2>1 DEF InFlight
  <2> QED BY <2>2, <2>4, <2>5 DEF OrderInv
<1>2. CASE LoopTop \/ PersistCheckpoint \/ (\E l \in Levels : SetLevel(l)) \/ UNCHANGED vars
  <2>1. UNCHANGED <<task, pending, queue>>
    BY <1>2 DEF LoopTop, PersistCheckpoint, SetLevel, vars, engine, shared
  <2>2. InFlight' = InFlight
    BY <2>1 DEF InFlight
  <2> QED BY <2>1, <2>2 DEF OrderInv
<1>3. CASE ProcessCompletedTasks \/ WaitForTask \/ DrainTasks \/ AbortTasks
  <2>1. UNCHANGED <<pending, queue>>
    BY <1>3 DEF ProcessCompletedTasks, WaitForTask, DrainTasks, AbortTasks, engine, shared
  <2>2. \A v \in Urls : task'[v] = task[v] \/ task'[v] = NoTask
    BY <1>0, <1>3 DEF ProcessCompletedTasks, WaitForTask, DrainTasks, AbortTasks, NoTasks, Finished
  <2>3. \A v \in InFlight' : v \in InFlight /\ task'[v] = task[v]
    BY <2>2 DEF InFlight, NoTask
  <2> QED BY <2>1, <2>3 DEF OrderInv
<1>4. CASE DrainDiscovered
  BY <1>0, <1>4, OrderDrain
<1>5. CASE SpawnTask
  BY <1>0, <1>5, OrderSpawn
<1>6. CASE SpawnDone
  <2>1. UNCHANGED <<queue, task>> /\ (pending' = pending \/ pending' = <<>>)
    BY <1>6 DEF SpawnDone, shared
  <2>2. InFlight' = InFlight
    BY <2>1 DEF InFlight
  <2> QED BY <2>1, <2>2 DEF OrderInv
<1>7. CASE Finish
  <2>1. Len(pending') = 0 /\ queue' = {} /\ InFlight' = {}
    BY <1>7 DEF Finish, ProcessEnds, InFlight, NoTasks, NoTask
  <2> QED BY <2>1 DEF OrderInv
<1>8. CASE Signal \/ CancelHandle \/ Crash
  BY <1>8 DEF Signal, CancelHandle, Crash, Uninterrupted
<1>9. ASSUME NEW u \in Urls, TaskStep(u) PROVE OrderInv'
  <2>1. UNCHANGED pending
    BY <1>9 DEF TaskStep, Paced, PacingCancelled, FetchFails, Fetched, PipelineDrops, Collect, ExtractFails,
       TaskReturns, PushLink, engine
  <2>2. /\ task[u].at # "none" /\ \A v \in Urls : v # u => task'[v] = task[v]
        /\ task'[u].depth = task[u].depth
    BY <1>0, <1>9 DEF TaskStep, Paced, PacingCancelled, FetchFails, Fetched, PipelineDrops, Collect, ExtractFails,
       TaskReturns, PushLink, Move
  <2>3. InFlight = {u} /\ \A v \in InFlight' : v = u
    BY <2>2 DEF InFlight, OrderInv
  <2>4. \A i \in 1..Len(pending) : pending[i].depth \in {task[u].depth, task[u].depth + 1}
    BY <2>3 DEF OrderInv
  <2>5. \A item \in queue' : item.depth = task[u].depth + 1
    <3>1. \A item \in queue' : item \in queue \/ item.depth = task[u].depth + 1
      BY <1>9 DEF TaskStep, Paced, PacingCancelled, FetchFails, Fetched, PipelineDrops, Collect, ExtractFails,
         TaskReturns, PushLink, Item, shared
    <3> QED BY <2>3, <3>1 DEF OrderInv
  <2>6. task[u].depth \in Nat
    BY <1>0, DepthsAreNat
  <2>7. \A a, b \in queue' : a.depth <= b.depth + 1 /\ a.depth <= b.depth
    BY <2>5, <2>6
  <2>8. \A i \in 1..Len(pending) : \A item \in queue' : pending[i].depth <= item.depth /\ item.depth <= pending[i].depth + 1
    BY <2>4, <2>5, <2>6
  <2> QED BY <2>1, <2>2, <2>3, <2>4, <2>5, <2>7, <2>8 DEF OrderInv
<1> QED BY <1>1, <1>2, <1>3, <1>4, <1>5, <1>6, <1>7, <1>8, <1>9 DEF Next, EngineStep

\* No page has failed.
NoFailure == budget["failure"] = MaxFailures

\* A URL does not travel deeper than it is, and what is nearer was seen.
First(u, d) == \A n \in 0..MaxDepth : u \in Within[n] => d <= n
SeenBelow(d) == \A n \in 0..MaxDepth : n < d => Within[n] \subseteq seen

\* While a run goes on without failure, every page that was expanded and is
\* near enough has its links among the seen ones or on their way.
CoverInv ==
  (pc # "off" /\ NoFailure) =>
    /\ {Seed} \cup ExtraSeeds \subseteq seen
    /\ \A i \in 1..Len(pending) : First(pending[i].url, pending[i].depth) /\ SeenBelow(pending[i].depth)
    /\ \A item \in queue : First(item.url, item.depth) /\ SeenBelow(item.depth)
    /\ \A u \in InFlight : First(u, task[u].depth) /\ SeenBelow(task[u].depth + 1)
    /\ \A u \in Urls : task[u].at \in {"none", "done"} => task[u].links = {}
    /\ \A u \in visited : task[u].at \in {"none", "links", "done"}
         => \A n \in 0..MaxDepth : n < MaxDepth /\ u \in Within[n] => Links[u] \subseteq seen \cup task[u].links

\* When the worker turns to a page at depth e, every page that near was seen:
\* all the pages nearer than e are visited and expanded.
LEMMA LevelSeen ==
  ASSUME OneWorker, WholeInv, NearInv, OrderInv, CoverInv, SpawnTask, NoFailure
  PROVE  SeenBelow(pending[NextUrl].depth + 1)
<1> DEFINE k == NextUrl
           e == pending[k].depth
<1>0. TypeInv /\ KnownInv /\ pc = "spawn" /\ InFlight = {} /\ queue = {} /\ MaxDepth \in Nat
  BY SpawnAlone, LimitsAssumption DEF WholeInv, SpawnTask
<1>1. /\ k \in 1..Len(pending) /\ Len(pending) \in Nat
      /\ \A i \in 1..Len(pending) : pending[i].depth \in Nat
      /\ \A i \in 1..(k - 1) : pending[i].url \in visited
  <2>1. NextUrl # 0
    BY DEF SpawnTask
  <2>2. \A i \in 1..(NextUrl - 1) : pending[i].url \in visited
    BY <1>0, <2>1, NextIsFirst
  <2> QED BY <1>0, <2>2, SpawnFrontier, DepthsAreNat
<1>2. SeenBelow(e) /\ Near(pending[k].url, e) /\ e \in Nat
  BY <1>0, <1>1 DEF CoverInv, NearInv
<1>3. e \in 0..MaxDepth
  BY <1>2 DEF Near
<1> SUFFICES Within[e] \subseteq seen
  <2> HIDE DEF e
  <2>1. \A n \in 0..MaxDepth : n < e + 1 => n < e \/ n = e
    BY <1>2
  <2>2. SeenBelow(e + 1)
    BY <1>2, <2>1 DEF SeenBelow
  <2> QED BY <2>2 DEF e
<1>4. CASE e = 0
  BY <1>0, <1>4, WithinIs DEF CoverInv
<1>5. CASE e # 0
  <2>1. e \in 1..MaxDepth /\ e - 1 \in 0..MaxDepth /\ e - 1 < e /\ e - 1 < MaxDepth
    BY <1>0, <1>3, <1>5
  <2>2. Within[e] = Farther(Within[e - 1]) /\ Within[e - 1] \subseteq seen
    BY <1>2, <2>1, WithinIs DEF SeenBelow
  <2>3. ASSUME NEW w \in Within[e - 1] PROVE Links[w] \subseteq seen
    <3>1. w \in visited \cup UrlsOf(pending, queue)
      BY <1>0, <2>2, <2>3 DEF KnownInv
    <3>2. w \in visited
      <4> SUFFICES ASSUME w \notin visited PROVE FALSE
        OBVIOUS
      <4>1. PICK i \in 1..Len(pending) : w = pending[i].url
        BY <1>0, <3>1 DEF UrlsOf
      <4>2. i \notin 1..(k - 1)
        BY <1>1, <4>1
      <4>3. k <= i
        <5> HIDE DEF k
        <5> QED BY <1>1, <4>2
      <4>4. e <= pending[i].depth
        BY <1>1, <4>3 DEF OrderInv
      <4>5. pending[i].depth <= e - 1
        BY <1>0, <2>1, <2>3, <4>1 DEF CoverInv, First
      <4>6. pending[i].depth \in Nat
        BY <1>1
      <4> HIDE DEF e
      <4> QED BY <1>2, <4>4, <4>5, <4>6
    <3>3. w \in Urls /\ task[w].at = "none" /\ task[w].links = {}
      <4>1. w \in Urls
        BY <1>0, <3>2 DEF TypeInv, ScalarTypes
      <4>2. task[w].at = "none"
        BY <1>0, <4>1 DEF InFlight
      <4> QED BY <1>0, <4>1, <4>2 DEF CoverInv
    <3> QED BY <1>0, <2>1, <2>3, <3>2, <3>3 DEF CoverInv
  <2> QED BY <1>0, <2>2, <2>3 DEF Farther, CoverInv
<1> QED BY <1>4, <1>5

\* A spawn.
LEMMA CoverSpawn ==
  ASSUME OneWorker, WholeInv, NearInv, OrderInv, CoverInv, SpawnTask
  PROVE  CoverInv'
<1> DEFINE k == NextUrl
           x == pending[k].url
           e == pending[k].depth
           t == [at |-> "pacing", depth |-> e, links |-> {}]
<1>0. TypeInv /\ KnownInv /\ pc = "spawn" /\ InFlight = {} /\ queue = {}
  BY SpawnAlone DEF WholeInv, SpawnTask
<1>1. /\ visited' = visited \cup {x} /\ task' = [task EXCEPT ![x] = t] /\ UNCHANGED <<pc, queue, seen, budget>>
  BY DEF SpawnTask, shared
<1>2. /\ k \in 1..Len(pending)
      /\ \A i \in 1..Len(pending') : i + k \in 1..Len(pending) /\ pending'[i] = pending[i + k]
  BY <1>0, SpawnFrontier
<1>3. SUFFICES ASSUME NoFailure PROVE CoverInv'
  BY <1>1 DEF CoverInv, NoFailure
<1>4. SeenBelow(e + 1)
  BY <1>3, LevelSeen
<1>5. First(x, e)
  BY <1>0, <1>2, <1>3 DEF CoverInv
<1>6. \A v \in Urls : task'[v] = IF v = x THEN t ELSE task[v]
  <2> HIDE DEF x, t
  <2> QED BY <1>0, <1>1 DEF TypeInv
<1>7. /\ t.at = "pacing" /\ t.depth = e
  OBVIOUS
<1>8. \A d : SeenBelow(d)' <=> SeenBelow(d)
  BY <1>1 DEF SeenBelow
<1>9. \A i \in 1..Len(pending') : First(pending'[i].url, pending'[i].depth) /\ SeenBelow(pending'[i].depth)
  BY <1>0, <1>2, <1>3 DEF CoverInv
<1> HIDE DEF x, e, t, k
<1>10. \A u \in InFlight' : u = x /\ task'[u].depth = e
  BY <1>0, <1>6, <1>7 DEF InFlight
<1>11. \A i \in 1..Len(pending') : \A n \in 0..MaxDepth : n < pending'[i].depth => Within[n] \subseteq seen'
  BY <1>1, <1>9 DEF SeenBelow
<1>12. \A u \in InFlight' : \A n \in 0..MaxDepth : n < task'[u].depth + 1 => Within[n] \subseteq seen'
  BY <1>1, <1>4, <1>10 DEF SeenBelow
<1>13. \A u \in Urls : task'[u].at \in {"none", "done"} => task'[u].links = {}
  BY <1>0, <1>3, <1>6, <1>7 DEF CoverInv
<1>14. \A u \in visited' : task'[u].at \in {"none", "links", "done"}
         => \A n \in 0..MaxDepth : n < MaxDepth /\ u \in Within[n] => Links[u] \subseteq seen' \cup task'[u].links
  <2>1. x \in Urls => task'[x].at = "pacing"
    BY <1>6, <1>7
  <2>2. visited' \subseteq Urls
    <3>1. TypeInv'
      BY <1>0, TypeStep DEF Next, EngineStep
    <3> QED BY <3>1 DEF TypeInv, ScalarTypes
  <2>3. \A u \in visited' : task'[u].at \in {"none", "links", "done"} => u \in visited /\ task'[u] = task[u]
    BY <1>1, <1>6, <2>1, <2>2
  <2> QED BY <1>0, <1>1, <1>3, <2>3 DEF CoverInv
<1> QED BY <1>0, <1>1, <1>3, <1>5, <1>9, <1>10, <1>11, <1>12, <1>13, <1>14 DEF CoverInv, SeenBelow, First

\* A page pushed for the first time is exactly one level farther.
LEMMA CoverPush ==
  ASSUME WholeInv, NearInv, OrderInv, CoverInv, NEW u \in Urls, NEW v \in Urls, PushLink(u, v)
  PROVE  CoverInv'
<1> DEFINE d == task[u].depth
           Seen(e) == \A n \in 0..MaxDepth : n < e => Within[n] \subseteq seen'
<1>0. TypeInv /\ task \in [Urls -> TaskRecords] /\ task[u].at = "links" /\ u \in InFlight
  BY DEF WholeInv, TypeInv, PushLink, InFlight
<1>1. /\ task' = [task EXCEPT ![u] = [at |-> "links", depth |-> d, links |-> task[u].links \ {v}]]
      /\ seen' = seen \cup {v}
      /\ queue' = IF v \in seen THEN queue ELSE queue \cup {Item(v, d + 1, "link")}
      /\ UNCHANGED <<pc, pending, visited, budget>>
  BY <1>0 DEF PushLink, engine
<1>2. SUFFICES ASSUME pc # "off", NoFailure PROVE CoverInv'
  BY <1>1 DEF CoverInv, NoFailure
<1>3. SeenBelow(d + 1) /\ d \in Nat
  BY <1>0, <1>2, DepthsAreNat DEF CoverInv
<1>4. v \notin seen => First(v, d + 1)
  <2> SUFFICES ASSUME v \notin seen, NEW n \in 0..MaxDepth, v \in Within[n] PROVE d + 1 <= n
    BY DEF First
  <2>1. ~(n < d + 1)
    BY <1>3 DEF SeenBelow
  <2> HIDE DEF d
  <2> QED BY <1>3, <2>1
<1>5. \A w \in Urls : /\ task'[w].at = task[w].at /\ task'[w].depth = task[w].depth
                      /\ w # u => task'[w] = task[w]
  BY <1>0, <1>1
<1>6. task'[u].links = task[u].links \ {v}
  BY <1>0, <1>1
<1>7. \A item \in queue' : item \in queue \/ (v \notin seen /\ item.url = v /\ item.depth = d + 1)
  BY <1>1 DEF Item
<1> HIDE DEF d
<1>8. \A item \in queue' : First(item.url, item.depth) /\ SeenBelow(item.depth)
  BY <1>2, <1>3, <1>4, <1>7 DEF CoverInv
<1>9. InFlight' = InFlight
  BY <1>5 DEF InFlight
<1>10. \A w : SeenBelow(w) => Seen(w)
  BY <1>1 DEF SeenBelow
<1> HIDE DEF Seen
<1>11. \A w \in visited : task'[w].at \in {"none", "links", "done"}
         => \A n \in 0..MaxDepth : n < MaxDepth /\ w \in Within[n] => Links[w] \subseteq seen' \cup task'[w].links
  <2> SUFFICES ASSUME NEW w \in visited, task'[w].at \in {"none", "links", "done"},
                      NEW n \in 0..MaxDepth, n < MaxDepth, w \in Within[n]
               PROVE  Links[w] \subseteq seen' \cup task'[w].links
    OBVIOUS
  <2>1. w \in Urls
    BY <1>0 DEF TypeInv, ScalarTypes
  <2>2. Links[w] \subseteq seen \cup task[w].links
    BY <1>2, <1>5, <2>1 DEF CoverInv
  <2>3. task[w].links \subseteq task'[w].links \cup {v}
    BY <1>5, <1>6, <2>1
  <2> QED BY <1>1, <2>2, <2>3
<1>12. \A w \in Urls : task'[w].at \in {"none", "done"} => task'[w].links = {}
  BY <1>0, <1>2, <1>5 DEF CoverInv
<1>13. {Seed} \cup ExtraSeeds \subseteq seen'
  BY <1>1, <1>2 DEF CoverInv
<1>14. \A i \in 1..Len(pending') : First(pending'[i].url, pending'[i].depth) /\ Seen(pending'[i].depth)
  BY <1>1, <1>2, <1>10 DEF CoverInv
<1>15. \A item \in queue' : First(item.url, item.depth) /\ Seen(item.depth)
  BY <1>8, <1>10
<1>16. \A w \in InFlight' : First(w, task'[w].depth) /\ Seen(task'[w].depth + 1)
  <2>1. \A w \in InFlight : w \in Urls
    BY DEF InFlight
  <2> QED BY <1>2, <1>5, <1>9, <1>10, <2>1 DEF CoverInv
<1> QED BY <1>1, <1>11, <1>12, <1>13, <1>14, <1>15, <1>16 DEF CoverInv, SeenBelow, First, Seen

\* Failures only use up their bound, and a page without a task has no links left
\* to push.
IdleInv ==
  /\ budget["failure"] <= MaxFailures
  /\ \A u \in Urls : task[u].at = "none" => task[u].links = {}

\* Every step keeps that.
LEMMA IdleStep ==
  ASSUME TypeInv, IdleInv, [Next]_vars
  PROVE  IdleInv'
<1>0. /\ task \in [Urls -> TaskRecords] /\ MaxFailures \in Nat
      /\ budget \in [Budgets -> Nat] /\ budget["failure"] \in Nat
  BY LimitsAssumption DEF TypeInv, ScalarTypes, Budgets
<1>1. budget'["failure"] <= MaxFailures
  <2>1. budget' = budget \/ \E b \in Budgets : Spend(b)
    BY BudgetSteps
  <2>2. budget'["failure"] \in {budget["failure"], budget["failure"] - 1}
    BY <1>0, <2>1 DEF Spend, Budgets
  <2> QED BY <1>0, <2>2 DEF IdleInv
<1>2. \A u \in Urls : task'[u] = task[u] \/ task'[u] = NoTask \/ task'[u].at # "none"
  <2>1. CASE UNCHANGED task
    BY <2>1
  <2>2. CASE ProcessCompletedTasks \/ WaitForTask \/ DrainTasks \/ AbortTasks \/ ProcessEnds
    BY <1>0, <2>2 DEF ProcessCompletedTasks, WaitForTask, DrainTasks, AbortTasks, ProcessEnds, NoTasks, Finished
  <2>3. CASE SpawnTask
    <3> DEFINE x == pending[NextUrl].url
               t == [at |-> "pacing", depth |-> pending[NextUrl].depth, links |-> {}]
    <3>1. task' = [task EXCEPT ![x] = t] /\ t.at = "pacing"
      BY <2>3 DEF SpawnTask
    <3> HIDE DEF x, t
    <3> QED BY <1>0, <3>1
  <2>4. ASSUME NEW u \in Urls, TaskStep(u)
        PROVE  \A v \in Urls : task'[v] = task[v] \/ task'[v].at # "none"
    BY <1>0, <2>4 DEF TaskStep, Paced, PacingCancelled, FetchFails, Fetched, PipelineDrops, Collect, ExtractFails,
       TaskReturns, PushLink, Move
  <2> QED BY <2>1, <2>2, <2>3, <2>4 DEF Next, EngineStep, Begin, LoopTop, DrainDiscovered, PersistCheckpoint, SpawnDone,
          Finish, Signal, CancelHandle, Crash, SetLevel, vars
<1> QED BY <1>1, <1>2 DEF IdleInv, NoTask

\* The other steps of a task.  Where it is collected, a page at max_depth is not
\* nearer than that; a page that failed is not covered.
LEMMA CoverTask ==
  ASSUME WholeInv, IdleInv, NearInv, OrderInv, CoverInv, NEW u \in Urls, TaskStep(u)
  PROVE  CoverInv'
<1> DEFINE d == task[u].depth
<1>0. /\ TypeInv /\ task \in [Urls -> TaskRecords] /\ ~cancel /\ MaxFailures \in Nat
      /\ budget \in [Budgets -> Nat] /\ budget["failure"] \in Nat
  BY LimitsAssumption DEF WholeInv, TypeInv, ScalarTypes, RunInv, Budgets
<1>1. CASE \E v \in Urls : PushLink(u, v)
  BY <1>1, CoverPush
<1>2. CASE FetchFails(u) \/ PipelineDrops(u) \/ ExtractFails(u)
  <2>1. budget["failure"] > 0 /\ budget'["failure"] = budget["failure"] - 1
    BY <1>0, <1>2 DEF FetchFails, PipelineDrops, ExtractFails, Spend, Budgets
  <2>2. budget'["failure"] # MaxFailures
    BY <1>0, <2>1 DEF IdleInv
  <2> QED BY <2>2 DEF CoverInv, NoFailure
<1>3. CASE Paced(u) \/ Fetched(u) \/ TaskReturns(u) \/ Collect(u) \/ PacingCancelled(u)
  <2>1. UNCHANGED <<pc, visited, pending, queue, seen, budget>>
    BY <1>3 DEF Paced, PacingCancelled, Fetched, Collect, TaskReturns, engine, shared, history
  <2>2. SUFFICES ASSUME pc # "off", NoFailure PROVE CoverInv'
    BY <2>1 DEF CoverInv, NoFailure
  <2>3. \A v \in Urls : v # u => task'[v] = task[v]
    BY <1>0, <1>3 DEF Paced, PacingCancelled, Fetched, Collect, TaskReturns, Move
  <2>4. /\ task[u].at # "none" /\ task'[u].at # "none" /\ task'[u].depth = task[u].depth
        /\ \/ task'[u].at \in {"fetching", "fetched"}
           \/ task'[u].at = "done" /\ task'[u].links = {} /\ task[u].at = "links" /\ task[u].links = {}
           \/ task'[u].at = "links" /\ task'[u].links = LinksToFollow(u)
    BY <1>0, <1>3 DEF Paced, PacingCancelled, Fetched, Collect, TaskReturns, Move
  <2>5. InFlight' = InFlight /\ u \in InFlight
    BY <2>3, <2>4 DEF InFlight
  <2>6. \A v \in Urls : task'[v].at \in {"none", "done"} => task'[v].links = {}
    BY <2>2, <2>3, <2>4 DEF CoverInv
  <2>7. \A v \in InFlight : First(v, task'[v].depth) /\ SeenBelow(task'[v].depth + 1)
    <3>1. \A v \in InFlight : task'[v].depth = task[v].depth
      BY <2>3, <2>4 DEF InFlight
    <3> QED BY <2>2, <3>1 DEF CoverInv
  <2>8. ASSUME NEW v \in visited, task'[v].at \in {"none", "links", "done"},
               NEW n \in 0..MaxDepth, n < MaxDepth, v \in Within[n]
        PROVE  Links[v] \subseteq seen \cup task'[v].links
    <3>0. v \in Urls
      BY <1>0, <2>8 DEF TypeInv, ScalarTypes
    <3>1. CASE v # u
      BY <2>2, <2>3, <2>8, <3>0, <3>1 DEF CoverInv
    <3>2. CASE v = u /\ task'[u].at = "done"
      BY <2>2, <2>4, <2>8, <3>2 DEF CoverInv
    <3>3. CASE v = u /\ task'[u].at = "links" /\ task'[u].links = LinksToFollow(u)
      <4>1. d <= n /\ d \in Nat
        BY <1>0, <2>2, <2>5, <2>8, <3>3, DepthsAreNat DEF CoverInv, First
      <4>2. d < MaxDepth
        BY <2>8, <4>1, LimitsAssumption
      <4> QED BY <3>3, <4>2 DEF LinksToFollow
    <3> QED BY <2>4, <2>8, <3>1, <3>2, <3>3
  <2> QED BY <2>1, <2>2, <2>5, <2>6, <2>7, <2>8 DEF CoverInv, SeenBelow, First
<1> QED BY <1>1, <1>2, <1>3 DEF TaskStep

\* Every step keeps the coverage.
LEMMA CoverStep ==
  ASSUME Uninterrupted, NothingLeftBehind, RoomForEveryPage, OneWorker,
         WholeInv, IdleInv, NearInv, OrderInv, CoverInv, [Next]_vars
  PROVE  CoverInv'
<1>0. TypeInv /\ VisitInv /\ KnownInv /\ RunInv /\ task = [u \in Urls |-> task[u]] /\ ~IsFull /\ ~shutdown
  BY NeverFull DEF WholeInv, VisitInv, RunInv
<1>1. CASE Begin
  <2>1. /\ pc = "off" /\ cp = NoCheckpoint /\ visited' = {} /\ UNCHANGED task /\ InFlight = {}
        /\ seen' = {Seed} \cup ExtraSeeds
    BY <1>0, <1>1 DEF Begin, StartFrom, RunInv, VisitInv, NoCheckpoint
  <2>2. 0 \in 0..MaxDepth /\ Within[0] = {Seed} /\ MaxDepth \in Nat
    BY WithinIs, LimitsAssumption
  <2>3. /\ First(Seed, 0) /\ \A u \in ExtraSeeds \ {Seed} : First(u, 1)
    <3>1. \A n \in 0..MaxDepth : n = 0 \/ 1 <= n
      BY <2>2
    <3>2. \A n \in 0..MaxDepth : 0 <= n
      BY <2>2
    <3> QED BY <2>2, <3>1, <3>2 DEF First
  <2>4. SeenBelow(0)' /\ SeenBelow(1)'
    <3>1. \A n \in 0..MaxDepth : ~(n < 0) /\ (n < 1 => n = 0)
      BY <2>2
    <3> QED BY <2>1, <2>2, <3>1 DEF SeenBelow
  <2>5. \A i \in 1..Len(pending') : pending'[i].url = Seed /\ pending'[i].depth = 0
    <3>1. Len(pending') = 1 /\ pending'[1] = Item(Seed, 0, "seed")
      BY <1>1, <2>1, BeginItems
    <3>2. pending'[1].url = Seed /\ pending'[1].depth = 0
      BY <3>1 DEF Item
    <3> QED BY <3>1, <3>2
  <2>6. \A item \in queue' : \/ item.url = Seed /\ item.depth = 0
                             \/ item.url \in ExtraSeeds \ {Seed} /\ item.depth = 1
    BY <1>1, <2>1, BeginItems DEF Item
  <2>7. InFlight' = {} /\ \A u \in Urls : task'[u].links = {}
    BY <2>1 DEF InFlight, IdleInv
  <2> QED BY <2>1, <2>3, <2>4, <2>5, <2>6, <2>7 DEF CoverInv, SeenBelow, First
<1>2. CASE LoopTop \/ PersistCheckpoint \/ (\E l \in Levels : SetLevel(l)) \/ UNCHANGED vars
  <2>1. UNCHANGED <<task, visited, pending, queue, seen>> /\ (pc' # "off" => pc # "off")
    BY <1>2 DEF LoopTop, PersistCheckpoint, SetLevel, vars, engine, shared
  <2>2. budget'["failure"] = budget["failure"]
    <3>1. budget' = budget \/ Spend("save")
      BY <1>2 DEF LoopTop, PersistCheckpoint, FileChanges, FileChangeFails, SetLevel, vars
    <3>2. budget \in [Budgets -> Nat]
      BY <1>0 DEF TypeInv, ScalarTypes
    <3> QED BY <3>1, <3>2 DEF Spend, Budgets
  <2>3. InFlight' = InFlight
    BY <2>1 DEF InFlight
  <2> QED BY <2>1, <2>3, <2>2 DEF CoverInv, NoFailure, SeenBelow, First
<1>3. CASE ProcessCompletedTasks \/ WaitForTask \/ DrainTasks \/ AbortTasks
  <2>1. UNCHANGED <<visited, pending, queue, seen, budget>> /\ pc # "off"
    BY <1>3 DEF ProcessCompletedTasks, WaitForTask, DrainTasks, AbortTasks, engine, shared
  <2>2. \A v \in Urls : task'[v] = task[v] \/ (task'[v] = NoTask /\ task[v].at \in {"none", "done"})
    <3>1. CASE ProcessCompletedTasks \/ WaitForTask
      BY <1>0, <3>1 DEF ProcessCompletedTasks, WaitForTask, Finished
    <3>2. CASE DrainTasks \/ AbortTasks
      <4>1. InFlight = {} /\ task' = NoTasks
        BY <1>0, <3>2 DEF DrainTasks, AbortTasks, KnownInv
      <4> QED BY <4>1 DEF InFlight, NoTasks
    <3> QED BY <1>3, <3>1, <3>2
  <2>3. \A v \in InFlight' : v \in InFlight /\ task'[v] = task[v]
    BY <2>2 DEF InFlight, NoTask
  <2>4. SUFFICES ASSUME NoFailure PROVE CoverInv'
    BY <2>1 DEF CoverInv, NoFailure
  <2>5. \A v \in Urls : task'[v].at \in {"none", "done"} => task'[v].links = {}
    BY <2>1, <2>2, <2>4 DEF CoverInv, NoTask
  <2>6. visited \subseteq Urls
    BY <1>0 DEF TypeInv, ScalarTypes
  <2>7. \A v \in visited : task'[v].at \in {"none", "links", "done"}
          => task[v].at \in {"none", "links", "done"} /\ task[v].links \subseteq task'[v].links
    BY <2>1, <2>2, <2>4, <2>6 DEF CoverInv
  <2>8. \A u \in visited : task'[u].at \in {"none", "links", "done"}
         => \A n \in 0..MaxDepth : n < MaxDepth /\ u \in Within[n] => Links[u] \subseteq seen \cup task'[u].links
    BY <2>1, <2>4, <2>7 DEF CoverInv
  <2> QED BY <2>1, <2>3, <2>4, <2>5, <2>8 DEF CoverInv, SeenBelow, First
<1>4. CASE DrainDiscovered
  <2>1. queue' = {} /\ UNCHANGED <<task, visited, seen, budget>> /\ pc # "off"
    BY <1>4 DEF DrainDiscovered
  <2>2. ASSUME NEW i \in 1..Len(pending')
        PROVE  (\E j \in 1..Len(pending) : pending'[i] = pending[j]) \/ pending'[i] \in queue
    <3> DEFINE n == Cardinality(queue)
               m == Len(pending)
               d == Drained(queue)
    <3>1. /\ Len(pending') = m + n /\ m \in Nat
          /\ pending'[i] = IF i <= m THEN pending[i] ELSE d[i - m]
      BY <1>0, <1>4, <2>2, DrainFrontier, DepthsAreNat
    <3>2. n \in Nat /\ d \in Seq(queue) /\ Len(d) = n
      BY <1>0, QueueFinite, DrainedSorts DEF TypeInv, FrontierTypes
    <3> HIDE DEF d, n, m
    <3>3. i \in 1..m \/ (~(i <= m) /\ i - m \in 1..n)
      BY <2>2, <3>1, <3>2
    <3>4. CASE i \in 1..m
      <4>1. i <= m
        BY <3>1, <3>4
      <4>2. pending'[i] = pending[i]
        BY <3>1, <4>1
      <4> QED BY <3>4, <4>2 DEF m
    <3>5. CASE ~(i <= m) /\ i - m \in 1..n
      BY <3>1, <3>2, <3>5, ElementOfSeq
    <3> QED BY <3>3, <3>4, <3>5
  <2>3. InFlight' = InFlight
    BY <2>1 DEF InFlight
  <2>4. SUFFICES ASSUME NoFailure PROVE CoverInv'
    BY <2>1 DEF CoverInv, NoFailure
  <2>5. \A i \in 1..Len(pending') : First(pending'[i].url, pending'[i].depth) /\ SeenBelow(pending'[i].depth)
    BY <2>1, <2>2, <2>4 DEF CoverInv
  <2> QED BY <2>1, <2>3, <2>4, <2>5 DEF CoverInv, SeenBelow, First
<1>5. CASE SpawnTask
  BY <1>5, CoverSpawn
<1>6. CASE SpawnDone
  <2>1. /\ UNCHANGED <<visited, queue, task, seen, budget>> /\ pc # "off"
        /\ (pending' = pending \/ pending' = <<>>)
    BY <1>6 DEF SpawnDone, shared
  <2>2. InFlight' = InFlight
    BY <2>1 DEF InFlight
  <2>3. SUFFICES ASSUME NoFailure PROVE CoverInv'
    BY <2>1 DEF CoverInv, NoFailure
  <2>4. \A i \in 1..Len(pending') : First(pending'[i].url, pending'[i].depth) /\ SeenBelow(pending'[i].depth)
    BY <2>1, <2>3 DEF CoverInv
  <2> QED BY <2>1, <2>2, <2>3, <2>4 DEF CoverInv, SeenBelow, First
<1>7. CASE Finish
  BY <1>7 DEF Finish, ProcessEnds, CoverInv
<1>8. CASE Signal \/ CancelHandle \/ Crash
  BY <1>8 DEF Signal, CancelHandle, Crash, Uninterrupted
<1>9. ASSUME NEW u \in Urls, TaskStep(u) PROVE CoverInv'
  BY <1>9, CoverTask
<1> QED BY <1>1, <1>2, <1>3, <1>4, <1>5, <1>6, <1>7, <1>8, <1>9 DEF Next, EngineStep

\* At the end of a complete crawl everything seen is visited and expanded, so the
\* visited pages are closed under links up to max_depth.
LEMMA CoverAtEnd ==
  ASSUME WholeInv, CoverInv, pc = "finish", CompletedFully, NoFailure
  PROVE  Within[MaxDepth] \subseteq visited
<1>0. TypeInv /\ KnownInv /\ visited \subseteq Urls /\ MaxDepth \in Nat
  BY LimitsAssumption DEF WholeInv, TypeInv, ScalarTypes
<1>1. InFlight = {} /\ queue = {} /\ pending = <<>> /\ Len(pending) = 0
  BY <1>0 DEF KnownInv, CompletedFully
<1>2. seen \subseteq visited
  <2>1. UrlsOf(pending, queue) = {}
    BY <1>1 DEF UrlsOf
  <2> QED BY <1>0, <2>1 DEF KnownInv
<1>3. \A u \in visited : task[u].at = "none" /\ task[u].links = {}
  <2>1. \A u \in visited : task[u].at = "none"
    BY <1>0, <1>1 DEF InFlight
  <2> QED BY <1>0, <2>1 DEF CoverInv
<1> DEFINE S == {n \in Nat : n \in 0..MaxDepth /\ ~(Within[n] \subseteq visited)}
<1> SUFFICES ASSUME S # {} PROVE FALSE
  BY <1>0
<1>4. PICK m \in S : \A i \in S : m <= i
  <2>1. S \subseteq Nat
    OBVIOUS
  <2> HIDE DEF S
  <2> QED BY <2>1, LeastNat
<1>5. {Seed} \cup ExtraSeeds \subseteq visited
  BY <1>2 DEF CoverInv
<1>6. m # 0
  BY <1>4, <1>5, WithinIs
<1>7. m - 1 \in 0..MaxDepth /\ m - 1 \in Nat /\ ~(m <= m - 1) /\ m \in 1..MaxDepth /\ m - 1 < MaxDepth
  BY <1>0, <1>4, <1>6
<1>8. Within[m - 1] \subseteq visited
  <2>1. m - 1 \notin S
    <3> HIDE DEF S
    <3> QED BY <1>4, <1>7
  <2> QED BY <1>7, <2>1
<1>9. Within[m] = Farther(Within[m - 1])
  BY <1>7, WithinIs
<1>10. ASSUME NEW w \in Within[m - 1] PROVE Links[w] \subseteq visited
  BY <1>2, <1>3, <1>7, <1>8, <1>10 DEF CoverInv
<1>11. Within[m] \subseteq visited
  BY <1>5, <1>8, <1>9, <1>10 DEF Farther
<1> QED BY <1>4, <1>11

\* A crawl with one worker that is neither interrupted nor full, and in which no
\* page failed, ends having visited every page up to max_depth links from the
\* seed, whatever the site: a page is never met first by a longer way.
THEOREM OneWorkerCovers ==
  ASSUME Uninterrupted, NothingLeftBehind, RoomForEveryPage, SitemapWithinDepth, OneWorker
  PROVE  Spec => []CoversDepth
<1> DEFINE I == WholeInv /\ IdleInv /\ NearInv /\ OrderInv /\ CoverInv
<1>1. Init => I
  <2> SUFFICES ASSUME Init PROVE I
    OBVIOUS
  <2>1. WholeInv /\ NearInv
    BY WholeInit
  <2>2. IdleInv
    BY LimitsAssumption DEF Init, IdleInv, NoTasks, NoTask
  <2>3. InFlight = {} /\ Len(pending) = 0 /\ queue = {} /\ pc = "off"
    BY DEF Init, InFlight, NoTasks, NoTask
  <2>4. OrderInv /\ CoverInv
    BY <2>3 DEF OrderInv, CoverInv
  <2> QED BY <2>1, <2>2, <2>4
<1>2. I /\ [Next]_vars => I'
  BY WholeStep, IdleStep, NearStep, OrderStep, CoverStep DEF WholeInv
<1>3. I => CoversDepth
  BY CoverAtEnd DEF CoversDepth, NoFailure
<1> QED BY <1>1, <1>2, <1>3, PTL DEF Spec
=============================================================================
