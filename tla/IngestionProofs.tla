---------------------------- MODULE IngestionProofs ----------------------------
(***************************************************************************)
(* Elastic ingestion for any number of pages, bodies, sinks, runs, crashes *)
(* and failing writes.                                                     *)
(***************************************************************************)
EXTENDS Ingestion, FoldSums

\* What the await a task is at says of its locals.
PlaceOK(u) ==
  /\ pc[u] \in Running \ {"headers"} => hash[u] \in Hashes
  /\ pc[u] = "permits" => got[u] < Len(Blocks[hash[u]])
  /\ pc[u] # "chunk" => saved[u] = 0

PlaceInv == \A u \in Pages : PlaceOK(u)

\* The driver spawns in order.
FreshInv == phase = "running" => \A u \in Pages : pc[u] = "none" <=> u >= next

Inv == TypeOK /\ PlaceInv /\ FreshInv

TaskStep(u) ==
  \/ Headers(u) \/ BlockArrives(u) \/ StreamFails(u) \/ AcquirePermits(u) \/ Inanition(u)
  \/ Downloaded(u) \/ Dedup(u) \/ Clean(u)
  \/ ResourceExists(u) \/ ResourceInsert(u) \/ SaveChunk(u) \/ Persisted(u)

-----------------------------------------------------------------------------
(* Types.                                                                  *)

\* The parts of TypeOK a task writes.
FlowOK ==
  /\ pc \in [Pages -> Running \cup {"none", "over", "reaped"}]
  /\ outcome \in [Pages -> {"none", "ok", "error", "panic"}]
  /\ avail \in Nat
  /\ held \in [Pages -> Nat]

LocalsOK ==
  /\ got \in [Pages -> Nat]
  /\ hash \in [Pages -> Hashes \cup {NoHash}]
  /\ saved \in [Pages -> Nat]

StoreOK ==
  /\ resources \in [Pages -> Hashes \cup {NoHash}]
  /\ rows \subseteq Hashes \X Nat /\ lines \subseteq Hashes \X Nat
  /\ faults \in Nat

\* A task that ends returns its permits.
LEMMA OverFlow ==
  ASSUME FlowOK, NEW u \in Pages, NEW o \in {"ok", "error", "panic"}, Over(u, o)
  PROVE  FlowOK'
  BY DEF FlowOK, Over, Release

\* A step within a task keeps its permits.
LEMMA GotoFlow ==
  ASSUME FlowOK, NEW u \in Pages, NEW s \in Running, Goto(u, s), UNCHANGED <<avail, held>>
  PROVE  FlowOK'
  BY DEF FlowOK, Goto

\* The steps of a task keep places and permits well typed.
LEMMA TaskFlow ==
  ASSUME FlowOK, LocalsOK, PlaceInv, NEW u \in Pages, TaskStep(u)
  PROVE  FlowOK'
<1>1. CASE \E o \in {"ok", "error", "panic"} : Over(u, o)
  BY <1>1, OverFlow
<1>2. CASE UNCHANGED <<pc, outcome, avail, held>>
  BY <1>2 DEF FlowOK
<1>3. ASSUME ResourceFails(u) PROVE FlowOK'
  BY <1>1, <1>3, GotoFlow DEF ResourceFails, Running
<1>4. CASE Headers(u) \/ BlockArrives(u) \/ StreamFails(u) \/ Inanition(u)
  BY <1>1, <1>2, <1>4, GotoFlow DEF Headers, BlockArrives, StreamFails, Inanition, Running
<1>5. CASE AcquirePermits(u)
  <2>1. hash[u] \in Hashes /\ got[u] \in Nat /\ got[u] + 1 \in 1..Len(Blocks[hash[u]])
    BY <1>5, BlocksAssumption DEF AcquirePermits, PlaceInv, PlaceOK, LocalsOK, Running
  <2>2. NextBlock(u) \in Nat
    BY <2>1, BlocksAssumption DEF NextBlock
  <2> QED
    BY <1>5, <2>2 DEF AcquirePermits, Goto, FlowOK, Running
<1>6. CASE Downloaded(u)
  BY <1>6 DEF Downloaded, Release, Goto, FlowOK, Running
<1>7. CASE Dedup(u) \/ Clean(u)
  BY <1>1, <1>7, GotoFlow DEF Dedup, Clean, CleaningFails, Running
<1>8. CASE ResourceExists(u) \/ ResourceInsert(u)
  BY <1>3, <1>8, GotoFlow DEF ResourceExists, ResourceInsert, Running
<1>9. CASE SaveChunk(u) \/ Persisted(u)
  BY <1>1, <1>2, <1>9 DEF SaveChunk, Persisted
<1> QED
  BY <1>4, <1>5, <1>6, <1>7, <1>8, <1>9 DEF TaskStep

\* The steps of a task keep its locals (hash, content, sinks to do) well typed.
LEMMA TaskLocals ==
  ASSUME LocalsOK, NEW u \in Pages, TaskStep(u)
  PROVE  LocalsOK'
<1>1. CASE Headers(u)
  BY <1>1, HashesAssumption DEF Headers, LocalsOK
<1>2. CASE ~Headers(u)
  <2>1. UNCHANGED hash
    BY <1>2 DEF TaskStep, BlockArrives, StreamFails, AcquirePermits, Inanition, Downloaded, Dedup, Clean,
       ResourceExists, ResourceInsert, SaveChunk, Persisted
  <2>2. got' = got \/ got' = [got EXCEPT ![u] = 0] \/ got' = [got EXCEPT ![u] = @ + 1]
    BY <1>2 DEF TaskStep, BlockArrives, StreamFails, AcquirePermits, Inanition, Downloaded, Dedup, Clean,
       ResourceExists, ResourceInsert, SaveChunk, Persisted
  <2>3. saved' = saved \/ saved' = [saved EXCEPT ![u] = 0] \/ saved' = [saved EXCEPT ![u] = @ + 1]
    BY <1>2 DEF TaskStep, BlockArrives, StreamFails, AcquirePermits, Inanition, Downloaded, Dedup, Clean,
       ResourceExists, ResourceInsert, SaveChunk, Persisted
  <2> QED
    BY <2>1, <2>2, <2>3 DEF LocalsOK
<1> QED
  BY <1>1, <1>2

\* At most the two sinks are configured.
LEMMA SinkSetFinite == sinks \in SinkSets => IsFiniteSet(sinks)
<1>1. IsFiniteSet({"sqlite"}) /\ {"sqlite"} \cup {"stream"} = {"sqlite", "stream"}
  BY FS_Singleton
<1>2. IsFiniteSet({"sqlite", "stream"})
  BY <1>1, FS_AddElement
<1> QED
  BY <1>2, SinkSetsAssumption, FS_Subset

\* The steps of a task write well-typed rows, chunks and lines, and leave the run alone.
LEMMA TaskStore ==
  ASSUME StoreOK, LocalsOK, PlaceInv, sinks \in SinkSets, NEW u \in Pages, TaskStep(u)
  PROVE  StoreOK' /\ UNCHANGED <<config, phase, next, gaps, runs, crashes>>
<1>1. UNCHANGED <<config, phase, next, gaps, runs, crashes>>
  BY DEF TaskStep, Headers, BlockArrives, StreamFails, AcquirePermits, Inanition, Downloaded, Dedup, Clean,
     ResourceExists, ResourceInsert, SaveChunk, Persisted, bounds
<1>2. CASE ResourceExists(u)
  BY <1>2 DEF ResourceExists, db, StoreOK
<1>3. CASE ResourceInsert(u)
  <2>1. hash[u] \in Hashes
    BY <1>3 DEF ResourceInsert, PlaceInv, PlaceOK, Running
  <2> QED
    BY <1>3, <2>1 DEF ResourceInsert, StoreOK
<1>4. CASE SaveChunk(u)
  <2>1. NextChunk(u) \in Hashes \X Nat
    BY <1>4 DEF SaveChunk, PlaceInv, PlaceOK, Running, LocalsOK, NextChunk
  <2>2. PICK broken \in SUBSET sinks : faults' = faults + Cardinality(broken)
    BY <1>4 DEF SaveChunk
  <2>3. Cardinality(broken) \in Nat
    BY SinkSetFinite, FS_Subset, FS_CardinalityType
  <2>4. rows' \subseteq rows \cup {NextChunk(u)} /\ lines' \subseteq lines \cup {NextChunk(u)}
    BY <1>4 DEF SaveChunk, Streamed
  <2> QED
    BY <1>4, <2>1, <2>2, <2>3, <2>4 DEF SaveChunk, StoreOK
<1>5. CASE ~(ResourceExists(u) \/ ResourceInsert(u) \/ SaveChunk(u))
  BY <1>5 DEF TaskStep, Headers, BlockArrives, StreamFails, AcquirePermits, Inanition, Downloaded, Dedup, Clean,
     Persisted, bounds, db, StoreOK
<1> QED
  BY <1>1, <1>2, <1>3, <1>4, <1>5
\* A task's step touches the entries of its own page.
Own(u) ==
  \A v \in Pages \ {u} :
    /\ pc'[v] = pc[v] /\ outcome'[v] = outcome[v] /\ hash'[v] = hash[v]
    /\ got'[v] = got[v] /\ saved'[v] = saved[v]

\* A task changes no other task.
LEMMA TaskOwn ==
  ASSUME FlowOK, LocalsOK, NEW u \in Pages, TaskStep(u)
  PROVE  Own(u)
<1>1. \A v \in Pages \ {u} : pc'[v] = pc[v] /\ outcome'[v] = outcome[v]
  BY DEF TaskStep, Headers, BlockArrives, StreamFails, AcquirePermits, Inanition, Downloaded, Dedup, Clean,
     CleaningFails, ResourceExists, ResourceInsert, ResourceFails, SaveChunk, Persisted, Over, Goto, FlowOK
<1>2. \A v \in Pages \ {u} : hash'[v] = hash[v] /\ got'[v] = got[v]
  BY DEF TaskStep, Headers, BlockArrives, StreamFails, AcquirePermits, Inanition, Downloaded, Dedup, Clean,
     ResourceExists, ResourceInsert, SaveChunk, Persisted, LocalsOK
<1>3. \A v \in Pages \ {u} : saved'[v] = saved[v]
  BY DEF TaskStep, Headers, BlockArrives, StreamFails, AcquirePermits, Inanition, Downloaded, Dedup, Clean,
     ResourceExists, ResourceInsert, SaveChunk, Persisted, LocalsOK
<1> QED
  BY <1>1, <1>2, <1>3 DEF Own

\* A task is at a step that fits what it has read and written.
LEMMA TaskPlace ==
  ASSUME FlowOK, LocalsOK, PlaceInv, NEW u \in Pages, TaskStep(u)
  PROVE  PlaceInv'
<1> SUFFICES PlaceOK(u)'
  BY TaskOwn DEF Own, PlaceInv, PlaceOK
<1>0. PlaceOK(u) /\ saved[u] \in Nat
  BY DEF PlaceInv, LocalsOK
<1>1. ASSUME NEW o, Over(u, o), saved'[u] = 0 PROVE PlaceOK(u)'
  BY <1>1 DEF Over, PlaceOK, FlowOK, Running
<1>2. ASSUME NEW s \in Running \ {"headers", "permits"}, Goto(u, s), hash'[u] \in Hashes, saved'[u] = 0
      PROVE  PlaceOK(u)'
  BY <1>2 DEF Goto, PlaceOK, FlowOK
<1>3. CASE Headers(u)
  <2>1. saved'[u] = 0
    BY <1>0, <1>3 DEF Headers, PlaceOK
  <2>2. \A h \in Served[u] : h \in Hashes
    BY HashesAssumption
  <2> QED
    BY <1>1, <1>2, <1>3, <2>1, <2>2 DEF Headers, LocalsOK, Running
<1>4. CASE BlockArrives(u)
  <2>1. pc[u] = "stream" /\ hash'[u] \in Hashes /\ saved'[u] = 0
    BY <1>0, <1>4 DEF BlockArrives, PlaceOK, Running
  <2>2. CASE Over(u, "error")
    BY <1>1, <2>1, <2>2
  <2>3. CASE UNCHANGED pc
    BY <2>1, <2>3 DEF PlaceOK
  <2>4. CASE Goto(u, "permits") /\ UNCHANGED got
    <3>1. pc'[u] = "permits" /\ got'[u] < Len(Blocks[hash'[u]])
      BY <1>4, <2>4 DEF BlockArrives, Goto, FlowOK
    <3> QED
      BY <2>1, <3>1 DEF PlaceOK
  <2> QED
    BY <1>4, <2>2, <2>3, <2>4 DEF BlockArrives
<1>5. CASE StreamFails(u) \/ Inanition(u)
  BY <1>0, <1>1, <1>5 DEF StreamFails, Inanition, PlaceOK
<1>6. CASE AcquirePermits(u) \/ Downloaded(u) \/ Dedup(u) \/ Clean(u) \/ ResourceExists(u) \/ ResourceInsert(u)
  <2>1. saved'[u] = 0 /\ hash'[u] \in Hashes
    BY <1>0, <1>6 DEF AcquirePermits, Downloaded, Dedup, Clean, ResourceExists, ResourceInsert, PlaceOK, Running
  <2> QED
    BY <1>1, <1>2, <1>6, <2>1 DEF AcquirePermits, Downloaded, Dedup, Clean, CleaningFails, ResourceExists,
       ResourceInsert, ResourceFails, Running
<1>7. CASE SaveChunk(u)
  <2>1. CASE Over(u, "error") /\ saved' = [saved EXCEPT ![u] = 0]
    BY <1>1, <2>1 DEF LocalsOK
  <2>2. CASE UNCHANGED pc
    BY <1>0, <1>7, <2>2 DEF SaveChunk, PlaceOK, Running
  <2> QED
    BY <1>7, <2>1, <2>2 DEF SaveChunk
<1>8. CASE Persisted(u)
  BY <1>1, <1>8 DEF Persisted, LocalsOK
<1> QED
  BY <1>3, <1>4, <1>5, <1>6, <1>7, <1>8 DEF TaskStep

\* A task that steps is running, and ends or goes on.
LEMMA TaskFresh ==
  ASSUME FlowOK, NEW u \in Pages, TaskStep(u)
  PROVE  pc[u] \in Running /\ pc'[u] \in Running \cup {"over"}
<1>1. pc[u] \in Running
  BY DEF TaskStep, Headers, BlockArrives, StreamFails, AcquirePermits, Inanition, Downloaded, Dedup, Clean,
     ResourceExists, ResourceInsert, SaveChunk, Persisted, Running
<1>2. pc'[u] = pc[u] \/ (\E o : Over(u, o)) \/ (\E s \in Running : Goto(u, s))
  BY DEF TaskStep, Headers, BlockArrives, StreamFails, AcquirePermits, Inanition, Downloaded, Dedup, Clean,
     CleaningFails, ResourceExists, ResourceInsert, ResourceFails, SaveChunk, Persisted, Running
<1> QED
  BY <1>1, <1>2 DEF Over, Goto, FlowOK

-----------------------------------------------------------------------------
(* The permits.                                                            *)

\* There are finitely many pages.
LEMMA PagesFinite == IsFiniteSet(Pages)
  BY PageCountAssumption, FS_Interval DEF Pages

\* FoldFunction adds up the guards of all pages.
LEMMA HeldIsSum ==
  ASSUME held \in [Pages -> Nat]
  PROVE  HeldPermits = Sum(held, Pages) /\ HeldPermits \in Nat
<1>1. DOMAIN held = Pages /\ \A u \in Pages : held[u] \in Nat
  OBVIOUS
<1>2. HeldPermits = Sum(held, Pages)
  BY <1>1 DEF HeldPermits, FoldFunction, Sum
<1>3. Sum(held, Pages) \in Nat
  BY <1>1, PagesFinite, SumBasics
<1> QED BY <1>2, <1>3

\* PermitsConserved, with the guards' permits as a sum over the pages.
PermitSum == avail + Sum(held, Pages) = Budget

\* The two say the same.
LEMMA PermitSumMeans ==
  ASSUME held \in [Pages -> Nat]
  PROVE  PermitSum <=> PermitsConserved
  BY HeldIsSum DEF PermitsConserved, PermitSum

\* What an abort or a death leaves is typed.
LEMMA AbortInv ==
  ASSUME Inv, AbortAll
  PROVE  FlowOK' /\ LocalsOK' /\ PlaceInv' /\ resources' \in [Pages -> Hashes \cup {NoHash}] /\ rows' \subseteq Hashes \X Nat
<1>1. FlowOK' /\ LocalsOK' /\ PlaceInv'
  BY LimitsAssumption, HeldIsSum DEF AbortAll, Inv, TypeOK, FlowOK, LocalsOK, PlaceInv, PlaceOK, Running
<1>2. PICK W \in SUBSET Writing : Landed(W)
  BY DEF AbortAll
<1>3. \A u \in W : u \in Pages /\ (pc[u] = "chunk" => NextChunk(u) \in Hashes \X Nat)
  BY DEF Writing, NextChunk, Inv, TypeOK, PlaceInv, PlaceOK, Running
<1> QED
  BY <1>1, <1>2, <1>3 DEF Landed, Inv, TypeOK

\* Every step of the driver, of a task and of the environment keeps the invariant.
LEMMA StepInv ==
  ASSUME Inv, [Next]_vars
  PROVE  Inv'
<1>0. FlowOK /\ LocalsOK /\ StoreOK /\ PlaceInv
  BY DEF Inv, TypeOK, FlowOK, LocalsOK, StoreOK
<1>1. CASE StartRun
  <2>1. PlaceInv' /\ FlowOK' /\ LocalsOK'
    BY <1>1, LimitsAssumption DEF StartRun, FlowOK, LocalsOK, PlaceInv, PlaceOK, Running
  <2>2. next' \in 1..(PageCount + 1) /\ runs' \in Nat /\ gaps' \subseteq Hashes
    BY <1>1, PageCountAssumption DEF StartRun, Inv, TypeOK
  <2>3. FreshInv'
    BY <1>1 DEF StartRun, FreshInv, Pages
  <2> QED
    BY <1>1, <2>1, <2>2, <2>3 DEF StartRun, Inv, TypeOK, FlowOK, LocalsOK, config, db
<1>2. CASE Spawn
  <2>1. next \in Pages /\ next' \in 1..(PageCount + 1)
    BY <1>2, PageCountAssumption DEF Spawn, Inv, TypeOK, Pages
  <2>2. pc' \in [Pages -> Running \cup {"none", "over", "reaped"}]
    BY <1>2, <2>1 DEF Spawn, Inv, TypeOK, Running
  <2>3. PlaceInv'
    <3>1. UNCHANGED <<hash, got, saved>> /\ \A u \in Pages : pc'[u] = IF u = next THEN "headers" ELSE pc[u]
      BY <1>2, <2>1 DEF Spawn, Inv, TypeOK
    <3>2. pc[next] # "chunk"
      BY <1>2, <2>1 DEF Spawn, Inv, FreshInv, TypeOK
    <3> QED
      BY <1>0, <3>1, <3>2 DEF PlaceInv, PlaceOK, Running
  <2>4. FreshInv'
    BY <1>2, <2>1, PageCountAssumption DEF Spawn, Inv, TypeOK, FreshInv, Pages
  <2> QED
    BY <1>2, <2>1, <2>2, <2>3, <2>4 DEF Spawn, Inv, TypeOK, config, db, bounds
<1>3. ASSUME NEW u \in Pages, Reap(u) PROVE Inv'
  <2>1. CASE AbortAll
    <3>1. phase' # "running" => FreshInv'
      BY DEF FreshInv
    <3>2. phase' \in {"running", "failed"} /\ (phase' = "running" => FreshInv')
      BY <1>3 DEF Reap, Inv, TypeOK, FreshInv
    <3> QED
      BY <1>3, <2>1, <3>1, <3>2, AbortInv DEF Reap, Inv, TypeOK, FlowOK, LocalsOK, config, bounds
  <2>2. CASE ~AbortAll
    <3>1. PlaceInv'
      BY <1>3, <2>2 DEF Reap, Inv, TypeOK, PlaceInv, PlaceOK, Running
    <3>2. FreshInv'
      BY <1>3, <2>2 DEF Reap, Inv, TypeOK, FreshInv
    <3> QED
      BY <1>3, <2>2, <3>1, <3>2 DEF Reap, Inv, TypeOK, config, db, bounds
  <2> QED
    BY <2>1, <2>2
<1>4. CASE Finish
  BY <1>4 DEF Finish, FreshInv, Inv, TypeOK, PlaceInv, PlaceOK, config, task, db, bounds
<1>5. CASE Crash
  BY <1>5, AbortInv DEF Crash, FreshInv, Inv, TypeOK, FlowOK, LocalsOK, config
<1>6. ASSUME NEW u \in Pages, Task(u) PROVE Inv'
  <2>1. TaskStep(u)
    BY <1>6 DEF Task, TaskStep
  <2>2. FlowOK' /\ LocalsOK' /\ StoreOK' /\ PlaceInv' /\ UNCHANGED <<config, phase, next, gaps, runs, crashes>>
    BY <1>0, <2>1, TaskFlow, TaskLocals, TaskStore, TaskPlace DEF Inv, TypeOK
  <2>3. FreshInv'
    BY <1>0, <1>6, <2>1, <2>2, TaskFresh, TaskOwn DEF Own, Inv, FreshInv, Running
  <2> QED
    BY <2>2, <2>3 DEF Inv, TypeOK, FlowOK, LocalsOK, StoreOK, config
<1>7. CASE UNCHANGED vars
  BY <1>7 DEF vars, FreshInv, Inv, TypeOK, PlaceInv, PlaceOK, config, task, db, bounds
<1> QED
  BY <1>1, <1>2, <1>3, <1>4, <1>5, <1>6, <1>7 DEF Next, Driver, Quit

\* The state of the ingestion is well typed, a task's place fits its locals, and
\* pages not yet pulled from the stream are untouched, in every run and after a
\* crash (ElasticIngestion::run).
THEOREM Invariant == Spec => []Inv
<1>1. Init => Inv
  BY PageCountAssumption, LimitsAssumption DEF Init, FreshInv, Inv, TypeOK, PlaceInv, PlaceOK, Running
<1> QED
  BY <1>1, StepInv, PTL DEF Spec

\* The ingestion's state is well typed: no download takes a permit that is
\* not there, and only chunks of hashed bodies are stored.
THEOREM TypeCorrect == Spec => []TypeOK
<1>1. Inv => TypeOK
  BY DEF Inv
<1> QED
  BY <1>1, Invariant, PTL
-----------------------------------------------------------------------------
(* No chunk without the resource of its content.                           *)

\* A task whose database is the only sink saves chunks after its resource.
OrphanInv ==
  /\ NoOrphanChunk
  /\ sinks = {"sqlite"} => \A u \in Pages : pc[u] = "chunk" => HasRow(hash[u])

\* The database only grows: a row keeps its hash, and a new chunk comes from a
\* task that is saving chunks.
Grows ==
  /\ \A u \in Pages : resources[u] # NoHash => resources'[u] = resources[u]
  /\ rows \subseteq rows'
  /\ \A id \in rows' : id \in rows \/ \E u \in Pages : pc[u] = "chunk" /\ id[1] = hash[u]

\* A stored row stays.
LEMMA RowKept ==
  ASSUME Grows, NEW h, h # NoHash, HasRow(h)
  PROVE  HasRow(h)'
  BY DEF Grows, HasRow

\* No step of a task removes a row, a chunk or a line.
LEMMA TaskGrows ==
  ASSUME Inv, NEW u \in Pages, TaskStep(u)
  PROVE  Grows /\ lines \subseteq lines'
<1>1. CASE ResourceInsert(u)
  BY <1>1 DEF ResourceInsert, Grows, Inv, TypeOK
<1>2. CASE SaveChunk(u)
  <2>1. /\ rows' = rows \/ rows' = rows \cup {NextChunk(u)}
        /\ lines' = lines \/ lines' = lines \cup {NextChunk(u)}
        /\ pc[u] = "chunk" /\ UNCHANGED resources
    BY <1>2 DEF SaveChunk, Streamed
  <2>2. NextChunk(u)[1] = hash[u]
    BY DEF NextChunk
  <2> QED
    BY <2>1, <2>2 DEF Grows
<1>3. CASE ~(ResourceInsert(u) \/ SaveChunk(u))
  <2>1. UNCHANGED <<resources, rows, lines>>
    BY <1>3 DEF TaskStep, Headers, BlockArrives, StreamFails, AcquirePermits, Inanition, Downloaded, Dedup, Clean,
       ResourceExists, Persisted, db
  <2> QED
    BY <2>1 DEF Grows
<1> QED
  BY <1>1, <1>2, <1>3

\* A statement that is under way at an abort lands or does not; none removes a row.
LEMMA AbortGrows ==
  ASSUME Inv, AbortAll
  PROVE  Grows
<1>1. PICK W \in SUBSET Writing : Landed(W)
  BY DEF AbortAll
<1>2. \A u \in Pages : resources[u] # NoHash => resources'[u] = resources[u]
  BY <1>1 DEF Landed, Writing, Inv, TypeOK
<1>3. \A id \in rows' : id \in rows \/ \E u \in Pages : pc[u] = "chunk" /\ id = NextChunk(u)
  BY <1>1 DEF Landed, Writing
<1>4. \A u \in Pages : NextChunk(u)[1] = hash[u]
  BY DEF NextChunk
<1> QED
  BY <1>1, <1>2, <1>3, <1>4 DEF Grows, Landed

\* Under Grows it is enough that a task enters "chunk" with a row in place.
LEMMA OrphanStep ==
  ASSUME Inv, OrphanInv, Grows, UNCHANGED sinks,
         sinks = {"sqlite"} => \A u \in Pages : pc'[u] = "chunk" =>
           (pc[u] = "chunk" /\ hash'[u] = hash[u]) \/ HasRow(hash[u])'
  PROVE  OrphanInv'
<1>1. \A u \in Pages : pc[u] = "chunk" => hash[u] # NoHash
  BY HashesAssumption DEF Inv, PlaceInv, PlaceOK, Running
<1>2. \A id \in rows : id[1] # NoHash
  BY HashesAssumption DEF Inv, TypeOK
<1>3. NoOrphanChunk'
  BY <1>1, <1>2, RowKept DEF OrphanInv, NoOrphanChunk, Grows
<1> QED
  BY <1>1, <1>3, RowKept DEF OrphanInv

\* A task writes a chunk only after the row of its hash is there.
LEMMA TaskOrphan ==
  ASSUME Inv, OrphanInv, NEW u \in Pages, TaskStep(u)
  PROVE  OrphanInv'
<1>0. FlowOK /\ LocalsOK /\ UNCHANGED sinks
  BY TaskStore DEF Inv, TypeOK, FlowOK, LocalsOK, StoreOK, config
<1>1. ASSUME sinks = {"sqlite"}, pc'[u] = "chunk", pc[u] # "chunk"
      PROVE  HasRow(hash[u])'
  <2>1. CASE ResourceExists(u)
    BY <1>0, <1>1, <2>1 DEF ResourceExists, ResourceFails, Over, Goto, FlowOK, HasRow, db
  <2>2. CASE ResourceInsert(u)
    <3>1. CASE resources' = [resources EXCEPT ![u] = hash[u]] /\ UNCHANGED hash
      BY <3>1 DEF HasRow, Inv, TypeOK
    <3>2. CASE ResourceFails(u)
      BY <1>0, <1>1, <3>2 DEF ResourceFails, Over, FlowOK
    <3> QED
      BY <2>2, <3>1, <3>2 DEF ResourceInsert
  <2>3. CASE ~(ResourceExists(u) \/ ResourceInsert(u))
    BY <1>0, <1>1, <2>3 DEF TaskStep, Headers, BlockArrives, StreamFails, AcquirePermits, Inanition, Downloaded, Dedup,
       Clean, CleaningFails, SaveChunk, Persisted, Over, Goto, FlowOK
  <2> QED
    BY <2>1, <2>2, <2>3
<1>2. pc[u] = "chunk" => hash'[u] = hash[u]
  BY DEF TaskStep, Headers, BlockArrives, StreamFails, AcquirePermits, Inanition, Downloaded, Dedup, Clean,
     ResourceExists, ResourceInsert, SaveChunk, Persisted
<1> QED
  BY <1>0, <1>1, <1>2, TaskGrows, TaskOwn, OrphanStep DEF Own

\* The statements that land after an abort are the ones that were under way.
LEMMA AbortOrphan ==
  ASSUME Inv, OrphanInv, AbortAll, UNCHANGED sinks
  PROVE  OrphanInv'
<1>1. \A u \in Pages : pc'[u] # "chunk"
  BY DEF AbortAll
<1> QED
  BY <1>1, AbortGrows, OrphanStep

\* Where the database is the only sink, every chunk in it has a row for its content,
\* and a task saves chunks only once that row is there, its own or the one of the
\* page with the same content (save_resource before save_chunk).
THEOREM OrphanInvariant == Spec => []OrphanInv
<1>1. Init => OrphanInv
  BY DEF Init, OrphanInv, NoOrphanChunk
<1>2. ASSUME Inv, OrphanInv, [Next]_vars
      PROVE  OrphanInv'
  <2>1. ASSUME UNCHANGED <<sinks, resources, rows>>,
               \A u \in Pages : pc'[u] = "chunk" => pc[u] = "chunk" /\ hash'[u] = hash[u]
        PROVE  OrphanInv'
    BY <1>2, <2>1, OrphanStep DEF Grows
  <2>2. CASE StartRun
    BY <2>1, <2>2 DEF StartRun, config, db
  <2>3. CASE Spawn
    BY <1>2, <2>1, <2>3 DEF Spawn, config, db, Inv, TypeOK
  <2>4. ASSUME NEW u \in Pages, Reap(u) PROVE OrphanInv'
    <3>1. CASE AbortAll
      BY <1>2, <2>4, <3>1, AbortOrphan DEF Reap, config
    <3>2. CASE ~AbortAll
      BY <1>2, <2>1, <2>4, <3>2 DEF Reap, config, db, Inv, TypeOK
    <3> QED
      BY <3>1, <3>2
  <2>5. CASE Finish \/ UNCHANGED vars
    BY <2>1, <2>5 DEF Finish, vars, config, task, db
  <2>6. CASE Crash
    BY <1>2, <2>6, AbortOrphan DEF Crash, config
  <2>7. ASSUME NEW u \in Pages, Task(u) PROVE OrphanInv'
    BY <1>2, <2>7, TaskOrphan DEF Task, TaskStep
  <2> QED
    BY <1>2, <2>2, <2>3, <2>4, <2>5, <2>6, <2>7 DEF Next, Driver, Quit
<1> QED
  BY <1>1, <1>2, Invariant, PTL DEF Spec

\* In a database that is the only sink no chunk lacks the resource of its
\* content, whatever tasks race and whatever writes fail, abort or crash.
THEOREM ChunksHaveTheirResource == Spec => []NoOrphanChunk
<1>1. OrphanInv => NoOrphanChunk
  BY DEF OrphanInv
<1> QED
  BY <1>1, OrphanInvariant, PTL
-----------------------------------------------------------------------------
(* A run that reports success has stored every page.                       *)

Counted == embeds \/ sinks = {"sqlite"}

\* The chunks a task has handed over are in a sink.
SavedOK(u) ==
  pc[u] = "chunk" =>
    saved[u] <= Chunks[hash[u]] /\ \A i \in 1..saved[u] : <<hash[u], i>> \in rows \cup lines

\* A task that is still saving the content, or that will fail the run.
Owes(u) == pc[u] = "chunk" \/ (pc[u] = "over" /\ IsFailure(u))

Settled(h) == Stored(h) \/ h \in gaps

\* Content a page may count on: stored, or owed by some task.
Claim(h) == Settled(h) \/ \E v \in Pages : hash[v] = h /\ Owes(v)

\* A row or a task that went well vouches for its content.
ClaimInv ==
  Counted /\ phase = "running" =>
    /\ \A u \in Pages : SavedOK(u)
    /\ "sqlite" \in sinks => \A h \in Hashes : HasRow(h) => Claim(h)
    /\ \A u \in Pages : pc[u] = "reaped" \/ (pc[u] = "over" /\ ~IsFailure(u)) => Claim(hash[u])

StoredInv == ClaimInv /\ OkRunIsStored

\* What the step of the task of page u does, as far as storing is concerned.
LEMMA TaskSaved ==
  ASSUME Inv, Counted, \A v \in Pages : SavedOK(v), NEW u \in Pages, TaskStep(u)
  PROVE  \A v \in Pages : SavedOK(v)'
<1>0. FlowOK /\ LocalsOK /\ Grows /\ lines \subseteq lines' /\ Own(u)
  BY TaskGrows, TaskOwn DEF Inv, TypeOK, FlowOK, LocalsOK
<1>1. ASSUME NEW v \in Pages, v # u PROVE SavedOK(v)'
  BY <1>0, <1>1 DEF Grows, Own, SavedOK
<1>2. CASE pc[u] # "chunk"
  <2>1. saved'[u] = 0
    BY <1>2 DEF TaskStep, Headers, BlockArrives, StreamFails, AcquirePermits, Inanition, Downloaded, Dedup, Clean,
       ResourceExists, ResourceInsert, SaveChunk, Persisted, Inv, PlaceInv, PlaceOK
  <2>2. pc'[u] = "chunk" => hash'[u] \in Hashes
    BY <1>0, TaskPlace DEF Inv, PlaceInv, PlaceOK, Running
  <2>3. SavedOK(u)'
    BY <2>1, <2>2, ChunksAssumption DEF SavedOK
  <2> QED
    BY <1>1, <2>3
<1>3. CASE Persisted(u)
  <2>1. pc'[u] = "over"
    BY <1>0, <1>3 DEF Persisted, Over, FlowOK
  <2>2. SavedOK(u)'
    BY <2>1 DEF SavedOK
  <2> QED
    BY <1>1, <2>2
<1>4. CASE SaveChunk(u)
  <2>1. CASE Over(u, "error")
    <3>1. pc'[u] = "over"
      BY <1>0, <2>1 DEF Over, FlowOK
    <3>2. SavedOK(u)'
      BY <3>1 DEF SavedOK
    <3> QED
      BY <1>1, <3>2
  <2>2. CASE ~Over(u, "error")
    <3>1. /\ pc[u] = "chunk" /\ saved[u] < Chunks[hash[u]] /\ UNCHANGED hash
          /\ saved' = [saved EXCEPT ![u] = @ + 1]
      BY <1>4, <2>2 DEF SaveChunk
    <3>2. saved[u] \in Nat /\ saved'[u] = saved[u] + 1 /\ Chunks[hash[u]] \in Nat
      BY <1>0, <3>1, ChunksAssumption DEF LocalsOK, Inv, PlaceInv, PlaceOK, Running
    <3>3. NextChunk(u) \in rows' \cup lines'
      <4>1. sinks # {} /\ sinks \subseteq {"sqlite", "stream"}
        BY SinkSetsAssumption DEF Inv, TypeOK
      <4>2. PICK failing \in SUBSET sinks :
              /\ rows' = IF "sqlite" \in sinks \ failing THEN rows \cup {NextChunk(u)} ELSE rows
              /\ lines' = IF "stream" \in sinks \ failing THEN Streamed(u) ELSE lines
              /\ failing # sinks
        <5>1. PICK broken \in SUBSET sinks :
                LET failing == broken \cup {s \in sinks : s = "sqlite" /\ ~Accepts(u)}
                IN /\ rows' = IF "sqlite" \in sinks \ failing THEN rows \cup {NextChunk(u)} ELSE rows
                   /\ lines' = IF "stream" \in sinks \ failing THEN Streamed(u) ELSE lines
                   /\ failing # sinks
          BY <1>4, <2>2 DEF SaveChunk
        <5>2. broken \cup {s \in sinks : s = "sqlite" /\ ~Accepts(u)} \in SUBSET sinks
          OBVIOUS
        <5> QED
          BY <5>1, <5>2
      <4>3. PICK s \in sinks : s \notin failing
        BY <4>2
      <4> QED
        BY <4>1, <4>2, <4>3 DEF Streamed, Counted
    <3>4. \A i \in 1..saved'[u] : i \in 1..saved[u] \/ i = saved[u] + 1
      BY <3>2
    <3>5. \A i \in 1..saved'[u] : <<hash[u], i>> \in rows' \cup lines'
      BY <1>0, <3>1, <3>3, <3>4 DEF SavedOK, Grows, NextChunk
    <3>6. SavedOK(u)'
      BY <3>1, <3>2, <3>5 DEF SavedOK
    <3> QED
      BY <1>1, <3>6
  <2> QED
    BY <2>1, <2>2
<1> QED
  BY <1>2, <1>3, <1>4 DEF TaskStep, Headers, BlockArrives, StreamFails, AcquirePermits, Inanition, Downloaded, Dedup,
     Clean, ResourceExists, ResourceInsert

\* All of a task's chunks saved means its content is stored.
LEMMA PersistedStored ==
  ASSUME Inv, NEW u \in Pages, SavedOK(u), Persisted(u)
  PROVE  Stored(hash[u])
<1>1. pc[u] = "chunk" /\ saved[u] = Chunks[hash[u]]
  BY DEF Persisted
<1> QED
  BY <1>1 DEF SavedOK, Stored, ChunkIds

\* Claims are never withdrawn while the run goes on.
LEMMA TaskClaim ==
  ASSUME Inv, NEW u \in Pages, SavedOK(u), TaskStep(u), NEW h, Claim(h)
  PROVE  \/ Stored(h)' \/ h \in gaps'
         \/ \E v \in Pages : hash'[v] = h /\ Owes(v)'
<1>0. FlowOK /\ LocalsOK /\ Grows /\ lines \subseteq lines' /\ Own(u) /\ UNCHANGED gaps
  BY TaskGrows, TaskOwn, TaskStore DEF Inv, TypeOK, FlowOK, LocalsOK, StoreOK
<1>1. CASE Settled(h)
  BY <1>0, <1>1 DEF Settled, Stored, Grows
<1>2. ASSUME NEW v \in Pages, hash[v] = h, Owes(v), v # u
      PROVE  hash'[v] = h /\ Owes(v)'
  BY <1>0, <1>2 DEF Own, Owes, IsFailure
<1>3. CASE hash[u] = h /\ Owes(u)
  <2>1. pc[u] = "chunk"
    BY <1>0, <1>3, TaskFresh DEF Owes, Running
  <2>2. CASE SaveChunk(u)
    <3>1. pc'[u] = "chunk" \/ (pc'[u] = "over" /\ outcome'[u] = "error")
      BY <1>0, <2>1, <2>2 DEF SaveChunk, Over, FlowOK
    <3>2. Owes(u)' /\ hash'[u] = h
      BY <1>3, <2>2, <3>1 DEF Owes, IsFailure, SaveChunk
    <3> QED
      BY <3>2
  <2>3. CASE Persisted(u)
    <3>1. Stored(h)
      BY <1>3, <2>3, PersistedStored
    <3> QED
      BY <1>0, <3>1 DEF Stored, Grows
  <2> QED
    BY <2>1, <2>2, <2>3 DEF TaskStep, Headers, BlockArrives, StreamFails, AcquirePermits, Inanition, Downloaded,
       Dedup, Clean, ResourceExists, ResourceInsert
<1> QED
  BY <1>1, <1>2, <1>3 DEF Claim

\* A task stores what it claims, or still owes it, or leaves a known gap.
LEMMA TaskClaimInv ==
  ASSUME Inv, ClaimInv, phase = "running", NEW u \in Pages, TaskStep(u)
  PROVE  ClaimInv'
<1>0. /\ FlowOK /\ LocalsOK /\ Grows /\ lines \subseteq lines' /\ Own(u)
      /\ UNCHANGED <<sinks, embeds, phase, gaps>>
  BY TaskGrows, TaskOwn, TaskStore DEF Inv, TypeOK, FlowOK, LocalsOK, StoreOK, config
<1> SUFFICES ASSUME Counted PROVE ClaimInv'
  BY <1>0 DEF ClaimInv, Counted
<1>1. /\ \A v \in Pages : SavedOK(v)
      /\ "sqlite" \in sinks => \A h \in Hashes : HasRow(h) => Claim(h)
      /\ \A v \in Pages : pc[v] = "reaped" \/ (pc[v] = "over" /\ ~IsFailure(v)) => Claim(hash[v])
  BY DEF ClaimInv
<1>2. \A v \in Pages : SavedOK(v)'
  BY <1>1, TaskSaved
<1>3. \A h : Claim(h) => Claim(h)'
  BY <1>1, TaskClaim DEF Claim, Settled
<1>4. ASSUME NEW h \in Hashes, HasRow(h)', "sqlite" \in sinks
      PROVE  Claim(h)'
  <2>1. CASE HasRow(h)
    BY <1>1, <1>3, <1>4, <2>1
  <2>2. CASE ~HasRow(h)
    <3>1. PICK v \in Pages : resources'[v] = h /\ resources[v] # h
      BY <1>4, <2>2 DEF HasRow
    <3>2. ResourceInsert(u)
      BY <3>1 DEF TaskStep, Headers, BlockArrives, StreamFails, AcquirePermits, Inanition, Downloaded, Dedup, Clean,
         ResourceExists, SaveChunk, Persisted, db
    <3>3. v = u /\ h = hash[u] /\ UNCHANGED hash /\ Goto(u, "chunk")
      BY <3>1, <3>2 DEF ResourceInsert, Inv, TypeOK
    <3>4. Owes(u)' /\ hash'[u] = h
      BY <1>0, <3>3 DEF Goto, Owes, FlowOK
    <3> QED
      BY <3>4 DEF Claim
  <2> QED
    BY <2>1, <2>2
<1>5. ASSUME NEW v \in Pages, pc'[v] = "reaped" \/ (pc'[v] = "over" /\ ~IsFailure(v)')
      PROVE  Claim(hash[v])'
  <2>1. CASE v # u
    <3>1. Claim(hash[v]) /\ hash'[v] = hash[v]
      BY <1>0, <1>1, <1>5, <2>1 DEF Own, IsFailure
    <3>2. \A h : h = hash[v] => (\/ Stored(h)' \/ h \in gaps'
                                 \/ \E w \in Pages : hash'[w] = h /\ Owes(w)')
      BY <1>1, <3>1, TaskClaim
    <3> QED
      BY <3>1, <3>2 DEF Claim, Settled, Stored, ChunkIds
  <2>2. CASE v = u
    <3>1. pc'[u] = "over" /\ outcome'[u] \notin {"error", "panic"}
      BY <1>0, <1>5, <2>2, TaskFresh DEF IsFailure, Running
    <3>2. Dedup(u) \/ Persisted(u)
      BY <1>0, <3>1 DEF TaskStep, Headers, BlockArrives, StreamFails, AcquirePermits, Inanition, Downloaded, Clean,
         CleaningFails, ResourceExists, ResourceInsert, ResourceFails, SaveChunk, Over, Goto, FlowOK
    <3>3. hash' = hash
      BY <3>2 DEF Dedup, Persisted
    <3>4. Claim(hash[u])
      <4>1. CASE Dedup(u)
        <5>1. hash[u] \in Hashes
          BY <4>1 DEF Dedup, Inv, PlaceInv, PlaceOK, Running
        <5>2. RowsOf(hash[u]) # {}
          BY <1>0, <3>1, <4>1 DEF Dedup, Over, Goto, FlowOK
        <5> QED
          BY <1>1, <5>1, <5>2 DEF RowsOf, HasRow
      <4>2. CASE Persisted(u)
        BY <1>1, <4>2, PersistedStored DEF Claim, Settled
      <4> QED
        BY <3>2, <4>1, <4>2
    <3>5. \A h : h = hash[u] => (\/ Stored(h)' \/ h \in gaps'
                                 \/ \E w \in Pages : hash'[w] = h /\ Owes(w)')
      BY <1>1, <3>4, TaskClaim
    <3> QED
      BY <2>2, <3>3, <3>5 DEF Claim, Settled, Stored, ChunkIds
  <2> QED
    BY <2>1, <2>2
<1> QED
  BY <1>0, <1>2, <1>4, <1>5 DEF ClaimInv
\* Every step keeps the claims, and a run that ends well has none open.
LEMMA StoredStep ==
  ASSUME Inv, StoredInv, [Next]_vars
  PROVE  StoredInv'
<1>1. CASE StartRun
  <2>1. /\ phase' = "running" /\ \A u \in Pages : pc'[u] = "none"
        /\ UNCHANGED <<resources, rows>>
        /\ gaps' = {h \in Hashes : HasRow(h) /\ ~(ChunkIds(h) \subseteq rows)}
    BY <1>1 DEF StartRun, db
  <2>2. \A h \in Hashes : HasRow(h)' => Claim(h)'
    BY <2>1 DEF HasRow, Claim, Settled, Stored, ChunkIds
  <2> QED
    BY <2>1, <2>2 DEF StoredInv, ClaimInv, SavedOK, OkRunIsStored
<1>2. CASE Spawn
  <2>1. /\ phase = "running" /\ next \in Pages /\ pc[next] = "none"
        /\ UNCHANGED <<sinks, embeds, phase, outcome, hash, saved, resources, rows, lines, gaps>>
        /\ pc' = [pc EXCEPT ![next] = "headers"]
    BY <1>2, PageCountAssumption DEF Spawn, config, db, Inv, TypeOK, FreshInv, Pages
  <2>2. \A u \in Pages : pc'[u] = IF u = next THEN "headers" ELSE pc[u]
    BY <2>1 DEF Inv, TypeOK
  <2>3. \A u \in Pages : Owes(u) => Owes(u)'
    BY <2>1, <2>2 DEF Owes, IsFailure
  <2>4. \A h : Claim(h) => Claim(h)'
    BY <2>1, <2>3 DEF Claim, Settled, Stored
  <2>5. Counted => \A u \in Pages : SavedOK(u)'
    BY <2>1, <2>2 DEF StoredInv, ClaimInv, SavedOK
  <2>6. Counted /\ "sqlite" \in sinks => \A h \in Hashes : HasRow(h)' => Claim(h)'
    BY <2>1, <2>4 DEF StoredInv, ClaimInv, HasRow
  <2>7. Counted => \A u \in Pages : pc'[u] = "reaped" \/ (pc'[u] = "over" /\ ~IsFailure(u)') => Claim(hash[u])'
    BY <2>1, <2>2, <2>4 DEF StoredInv, ClaimInv, IsFailure, Claim, Settled, Stored, Owes
  <2> QED
    BY <2>1, <2>5, <2>6, <2>7 DEF StoredInv, ClaimInv, OkRunIsStored, Counted
<1>3. ASSUME NEW v \in Pages, Reap(v) PROVE StoredInv'
  <2>1. CASE IsFailure(v)
    BY <1>3, <2>1 DEF Reap, StoredInv, ClaimInv, OkRunIsStored
  <2>2. CASE ~IsFailure(v)
    <3>1. /\ phase = "running" /\ pc[v] = "over"
          /\ UNCHANGED <<sinks, embeds, phase, outcome, hash, saved, resources, rows, lines, gaps>>
          /\ pc' = [pc EXCEPT ![v] = "reaped"]
      BY <1>3, <2>2 DEF Reap, config, db
    <3>2. \A u \in Pages : pc'[u] = IF u = v THEN "reaped" ELSE pc[u]
      BY <3>1 DEF Inv, TypeOK
    <3>3. \A u \in Pages : Owes(u) => Owes(u)'
      BY <2>2, <3>1, <3>2 DEF Owes, IsFailure
    <3>4. \A h : Claim(h) => Claim(h)'
      BY <3>1, <3>3 DEF Claim, Settled, Stored
    <3>5. Counted => \A u \in Pages : SavedOK(u)'
      BY <3>1, <3>2 DEF StoredInv, ClaimInv, SavedOK
    <3>6. Counted /\ "sqlite" \in sinks => \A h \in Hashes : HasRow(h)' => Claim(h)'
      BY <3>1, <3>4 DEF StoredInv, ClaimInv, HasRow
    <3>7. Counted => \A u \in Pages : pc'[u] = "reaped" \/ (pc'[u] = "over" /\ ~IsFailure(u)') => Claim(hash[u])'
      BY <2>2, <3>1, <3>2, <3>4 DEF StoredInv, ClaimInv, IsFailure, Claim, Settled, Stored, Owes
    <3> QED
      BY <3>1, <3>5, <3>6, <3>7 DEF StoredInv, ClaimInv, OkRunIsStored, Counted
  <2> QED
    BY <2>1, <2>2
<1>4. CASE Finish
  <2>1. /\ phase = "running" /\ phase' = "ok" /\ next > PageCount /\ InFlight = {}
        /\ UNCHANGED <<sinks, embeds, pc, hash, rows, lines, gaps>>
    BY <1>4 DEF Finish, config, task, db
  <2>2. \A u \in Pages : pc[u] # "none"
    BY <2>1, PageCountAssumption DEF Inv, FreshInv, TypeOK, Pages
  <2>3. \A u \in Pages : pc[u] = "reaped" /\ ~Owes(u)
    BY <2>1, <2>2 DEF InFlight, Inv, TypeOK, Owes
  <2>4. Counted => \A u \in Pages : Settled(hash[u])
    BY <2>1, <2>3 DEF StoredInv, ClaimInv, Claim
  <2>5. OkRunIsStored'
    BY <2>1, <2>4 DEF OkRunIsStored, Counted, Settled, Stored
  <2> QED
    BY <2>1, <2>5 DEF StoredInv, ClaimInv
<1>5. CASE Crash
  BY <1>5 DEF Crash, StoredInv, ClaimInv, OkRunIsStored
<1>6. ASSUME NEW u \in Pages, Task(u) PROVE StoredInv'
  <2>1. TaskStep(u) /\ phase = "running"
    BY <1>6 DEF Task, TaskStep
  <2>2. phase' = "running"
    BY <2>1, TaskStore DEF Inv, TypeOK, LocalsOK, StoreOK
  <2> QED
    BY <2>1, <2>2, TaskClaimInv DEF StoredInv, OkRunIsStored
<1>7. CASE UNCHANGED vars
  <2>1. UNCHANGED <<sinks, embeds, phase, pc, outcome, hash, saved, resources, rows, lines, gaps>>
    BY <1>7 DEF vars, config, task, db
  <2>2. ClaimInv'
    BY <2>1 DEF StoredInv, ClaimInv, Counted, SavedOK, HasRow, Claim, Settled, Stored, Owes, IsFailure
  <2>3. OkRunIsStored'
    BY <2>1 DEF StoredInv, OkRunIsStored, Stored
  <2> QED
    BY <2>2, <2>3 DEF StoredInv
<1> QED
  BY <1>1, <1>2, <1>3, <1>4, <1>5, <1>6, <1>7 DEF Next, Driver, Quit

\* A run that reports success has every chunk of every page in a sink, unless
\* an earlier run left that content's row without its chunks.
THEOREM OkMeansStored == Spec => []OkRunIsStored
<1>1. Init => StoredInv
  BY DEF Init, StoredInv, ClaimInv, OkRunIsStored
<1>2. StoredInv => OkRunIsStored
  BY DEF StoredInv
<1> QED
  BY <1>1, <1>2, StoredStep, Invariant, PTL DEF Spec

-----------------------------------------------------------------------------
(* The permits, step by step.                                              *)

\* Permits move between the semaphore and the guard of one page.
LEMMA PermitsMove ==
  ASSUME FlowOK, PermitSum, NEW u \in Pages, NEW n \in Nat,
         held' = [held EXCEPT ![u] = n], avail' = avail + held[u] - n
  PROVE  PermitSum'
<1>1. held \in [Pages -> Nat] /\ avail \in Nat /\ Budget \in Nat /\ held[u] \in Nat
  BY LimitsAssumption DEF FlowOK
<1>2. Sum(held', Pages) = Sum(held, Pages) - held[u] + n /\ Sum(held, Pages) \in Nat
  <2> DEFINE f == held
             g == held'
  <2>1. f \in [Pages -> Nat] /\ g \in [Pages -> Nat] /\ g[u] = n /\ \A x \in Pages \ {u} : g[x] = f[x]
    BY <1>1
  <2> HIDE DEF f, g
  <2>2. Sum(g, Pages) = Sum(f, Pages) - f[u] + n /\ Sum(f, Pages) \in Nat
    BY <2>1, PagesFinite, SumUpdate
  <2> QED BY <2>2 DEF f, g
<1> QED BY <1>1, <1>2 DEF PermitSum

\* Without a guard every permit is in the semaphore.
LEMMA PermitsFree == (avail = Budget /\ held = [u \in Pages |-> 0]) => PermitSum
<1> SUFFICES ASSUME avail = Budget, held = [u \in Pages |-> 0] PROVE PermitSum
  OBVIOUS
<1>1. \A u \in Pages : held[u] = 0
  OBVIOUS
<1>2. Sum(held, Pages) = 0
  BY <1>1, PagesFinite, SumZeros
<1> QED BY <1>2, LimitsAssumption DEF PermitSum

\* A step of a task leaves the permits alone, returns those of its guard, or
\* takes the next block's.
LEMMA TaskPermits ==
  ASSUME FlowOK, LocalsOK, PlaceInv, NEW u \in Pages, TaskStep(u)
  PROVE  \/ UNCHANGED <<avail, held>>
         \/ \E n \in Nat : held' = [held EXCEPT ![u] = n] /\ avail' = avail + held[u] - n
<1>0. avail \in Nat /\ held[u] \in Nat
  BY DEF FlowOK
<1>1. ASSUME NEW o, Release(u, o)
      PROVE  \E n \in Nat : held' = [held EXCEPT ![u] = n] /\ avail' = avail + held[u] - n
  <2>1. avail' = avail + held[u] - 0 /\ held' = [held EXCEPT ![u] = 0]
    BY <1>0, <1>1 DEF Release
  <2> QED BY <2>1
<1>2. CASE AcquirePermits(u)
  <2>1. hash[u] \in Hashes /\ got[u] \in Nat /\ got[u] + 1 \in 1..Len(Blocks[hash[u]])
    BY <1>2, BlocksAssumption DEF AcquirePermits, PlaceInv, PlaceOK, LocalsOK, Running
  <2>2. NextBlock(u) \in Nat
    BY <2>1, BlocksAssumption DEF NextBlock
  <2> DEFINE n == held[u] + NextBlock(u)
  <2>3. held' = [held EXCEPT ![u] = n] /\ avail' = avail - NextBlock(u)
    BY <1>2 DEF AcquirePermits
  <2>4. avail - NextBlock(u) = avail + held[u] - n /\ n \in Nat
    BY <1>0, <2>2
  <2> HIDE DEF n
  <2> QED BY <2>3, <2>4
<1>3. ASSUME NEW o, Over(u, o)
      PROVE  \E n \in Nat : held' = [held EXCEPT ![u] = n] /\ avail' = avail + held[u] - n
  BY <1>1, <1>3 DEF Over
<1>4. ASSUME ResourceFails(u)
      PROVE  UNCHANGED <<avail, held>> \/ \E o : Over(u, o)
  BY <1>4 DEF ResourceFails
<1>5. CASE Headers(u) \/ BlockArrives(u) \/ StreamFails(u) \/ Inanition(u)
  BY <1>3, <1>5 DEF Headers, BlockArrives, StreamFails, Inanition
<1>6. CASE Downloaded(u)
  BY <1>1, <1>6 DEF Downloaded
<1>7. CASE Dedup(u) \/ Clean(u)
  BY <1>3, <1>7 DEF Dedup, Clean, CleaningFails
<1>8. CASE ResourceExists(u) \/ ResourceInsert(u)
  BY <1>3, <1>4, <1>8 DEF ResourceExists, ResourceInsert
<1>9. CASE SaveChunk(u) \/ Persisted(u)
  BY <1>3, <1>9 DEF SaveChunk, Persisted
<1> QED
  BY <1>2, <1>5, <1>6, <1>7, <1>8, <1>9 DEF TaskStep

\* PermitsConserved holds of every run: a permit that was forgotten after
\* acquire_many is in exactly one PermitGuard, and every way out of download,
\* the abort of the task and the death of the process included, gives back all
\* the guard holds and no more.
THEOREM PermitsAddUp == Spec => []PermitsConserved
<1>1. Init => PermitSum
  BY PermitsFree DEF Init
<1>2. ASSUME Inv, PermitSum, [Next]_vars PROVE PermitSum'
  <2>0. FlowOK /\ LocalsOK /\ PlaceInv
    BY <1>2 DEF Inv, TypeOK, FlowOK, LocalsOK
  <2>1. CASE UNCHANGED <<avail, held>>
    BY <1>2, <2>1 DEF PermitSum
  <2>2. CASE avail' = Budget /\ held' = [u \in Pages |-> 0]
    <3>1. (avail = Budget /\ held = [u \in Pages |-> 0])' => PermitSum'
      BY PermitsFree, PTL
    <3> QED BY <2>2, <3>1
  <2>3. ASSUME NEW u \in Pages, TaskStep(u) PROVE PermitSum'
    BY <1>2, <2>0, <2>1, <2>3, TaskPermits, PermitsMove
  <2>7. ASSUME AbortAll PROVE PermitSum'
    <3>1. avail + HeldPermits = Budget
      BY <1>2, <2>0, PermitSumMeans DEF FlowOK, PermitsConserved
    <3> QED BY <2>2, <2>7, <3>1 DEF AbortAll
  <2>4. CASE StartRun \/ Crash
    BY <2>2, <2>4, <2>7 DEF StartRun, Crash
  <2>5. CASE Driver
    BY <2>1, <2>5, <2>7 DEF Driver, Spawn, Reap, Finish, task
  <2>6. CASE Quit \/ UNCHANGED vars
    BY <2>1, <2>6 DEF Quit, vars, task
  <2> QED
    BY <1>2, <2>3, <2>4, <2>5, <2>6 DEF Next, Task, TaskStep
<1>3. Inv /\ PermitSum => PermitsConserved
  BY PermitSumMeans DEF Inv, TypeOK
<1> QED
  BY <1>1, <1>2, <1>3, Invariant, PTL DEF Spec
=============================================================================
