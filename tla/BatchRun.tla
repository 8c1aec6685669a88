------------------------------- MODULE BatchRun -------------------------------
(***************************************************************************)
(* run_batch_crawl: one job with a crawl task per entry, dispatched in     *)
(* order under a semaphore, joined, and then the sink is closed and flushed.*)
(* The tasks' capture() calls and the writer are ContentSink's.            *)
(*                                                                         *)
(* A task is a crawl of its own (CrawlEngine with one page); here it may   *)
(* return with or without a captured page, and succeed or fail in both.    *)
(* A panic of a task counts as a failure, as in the code.                  *)
(***************************************************************************)
EXTENDS ContentSink

CONSTANTS MaxConcurrent  \* the semaphore's permits

ASSUME ConcurrencyAssumption == MaxConcurrent \in Nat \ {0}

VARIABLES
  bpc,        \* run_batch_crawl: the step it is at
  next,       \* the entry the dispatch loop is at
  cancelled,  \* the run's token
  succeeded,  \* progress.completed
  failed,     \* progress.failed
  outcome     \* what run_batch_crawl returns

batch == <<bpc, next, cancelled, succeeded, failed, outcome>>
vars == <<sink, batch>>

Init ==
  /\ SinkInit
  /\ bpc = "start" /\ next = 1 /\ cancelled = FALSE
  /\ succeeded = 0 /\ failed = 0 /\ outcome = "none"

\* Tasks that hold a permit: from their dispatch to their return.
Running == {u \in Urls : stage[u] \in {"fetching", "fetched"} \cup HoldsSender}
-----------------------------------------------------------------------------
(* The batch: one thread of control.                                       *)

\* process_all_cancellable: from_urls makes one job, or none without entries, and
\* a job is skipped after a cancellation.
Start ==
  /\ bpc = "start"
  /\ bpc' = IF cancelled \/ Urls = {} THEN "close" ELSE "check"
  /\ UNCHANGED <<sink, next, cancelled, succeeded, failed, outcome>>

\* The head of the dispatch loop.
CheckCancel ==
  /\ bpc = "check"
  /\ bpc' = IF next > UrlCount \/ cancelled THEN "collect" ELSE "acquire"
  /\ UNCHANGED <<sink, next, cancelled, succeeded, failed, outcome>>

\* acquire_owned and spawn: the token is not looked at while waiting.
Dispatch ==
  /\ bpc = "acquire"
  /\ Cardinality(Running) < MaxConcurrent
  /\ To(next, "fetching")
  /\ next' = next + 1 /\ bpc' = "check"
  /\ UNCHANGED <<open, queues, sinkCancel, writer, counts, cancelled, succeeded,
                 failed, outcome>>

\* join_next: one returned task.
JoinNext(u) ==
  /\ bpc = "collect"
  /\ stage[u] \in {"ok", "err"}
  /\ To(u, "joined")
  /\ IF stage[u] = "ok" THEN succeeded' = succeeded + 1 /\ UNCHANGED failed
                        ELSE failed' = failed + 1 /\ UNCHANGED succeeded
  /\ UNCHANGED <<open, queues, sinkCancel, writer, counts, bpc, next, cancelled, outcome>>

\* The JoinSet is empty.
JoinedAll ==
  /\ bpc = "collect"
  /\ \A u \in Urls : stage[u] \in {"queued", "joined"}
  /\ bpc' = "close"
  /\ UNCHANGED <<sink, next, cancelled, succeeded, failed, outcome>>

\* After the summary: a cancelled run cancels the sink.
Close ==
  /\ bpc = "close"
  /\ bpc' = "finish"
  /\ IF cancelled THEN CancelSink ELSE UNCHANGED sink
  /\ UNCHANGED <<next, cancelled, succeeded, failed, outcome>>

\* flush_batch_sink: finish() closes the channel and waits for the writer.
Finish ==
  /\ bpc = "finish"
  /\ TakeSender
  /\ bpc' = "await"
  /\ UNCHANGED <<next, cancelled, succeeded, failed, outcome>>

FlushBatchSink ==
  /\ bpc = "await"
  /\ WriterEnded
  /\ outcome' = CASE wpc = "failed" -> "io_error"
                  [] wpc = "done" /\ Written = {} -> "no_content"
                  [] OTHER -> "exported"
  /\ bpc' = "ended"
  /\ UNCHANGED <<sink, next, cancelled, succeeded, failed>>

\* process_single_url returns; its permit goes with it.
TaskReturns(u) ==
  /\ stage[u] \in {"fetching", "fetched"}
  /\ \E r \in {"ok", "err"} : To(u, r)
  /\ UNCHANGED <<open, queues, sinkCancel, writer, counts, batch>>

\* Ctrl-C
Cancel ==
  /\ ~cancelled /\ bpc # "ended"
  /\ cancelled' = TRUE
  /\ UNCHANGED <<sink, bpc, next, succeeded, failed, outcome>>
-----------------------------------------------------------------------------
BatchStep == \/ Start \/ CheckCancel \/ Dispatch \/ JoinedAll
             \/ \E u \in Urls : JoinNext(u)
             \/ Close \/ Finish \/ FlushBatchSink

CaptureStep(u) == Capture(u) /\ UNCHANGED batch
TaskStep(u) == TaskReturns(u) \/ (CurrentSender(u) /\ UNCHANGED batch)
SpoolStep == WriterStep /\ UNCHANGED batch

Next == \/ BatchStep
        \/ \E u \in Urls : TaskStep(u) \/ CaptureStep(u)
        \/ SpoolStep
        \/ (WriteFails /\ UNCHANGED batch)
        \/ Cancel

Spec == Init /\ [][Next]_vars

\* capture() has no await, so a call that began goes on, and the runtime polls the
\* writer; its writes return.  Neither a fetch nor the batch is assumed to.
SinkFairSpec == /\ Spec
                /\ WF_vars(SpoolStep)
                /\ \A u \in Urls : WF_vars(CaptureStep(u))
-----------------------------------------------------------------------------
(* Properties.                                                             *)

TypeOK ==
  /\ SinkTypeOK
  /\ bpc \in {"start", "check", "acquire", "collect", "close", "finish", "await", "ended"}
  /\ next \in 1..(UrlCount + 1)
  /\ Cardinality(Running) <= MaxConcurrent
  /\ cancelled \in BOOLEAN
  /\ succeeded \in Nat /\ failed \in Nat
  /\ outcome \in {"none", "io_error", "no_content", "exported"}

\* A run that reports no I/O error has accounted for every body a task offered:
\* counted as captured or as dropped, and, unless it was cancelled, the spool holds
\* each captured page exactly once and no other (issues #631, #653).
NoSilentLoss ==
  outcome \in {"exported", "no_content"} =>
    /\ offered = accepted \cup refused
    /\ ~sinkCancel => \A u \in Urls : spool[u] = IF u \in accepted THEN 1 ELSE 0

\* A run ends, if its tasks return and the batch is scheduled, also when a write
\* fails, pages are refused or it is cancelled.
BatchReturns ==
  (WF_vars(BatchStep) /\ \A u \in Urls : WF_vars(TaskReturns(u)))
     => <>(bpc = "ended")
=============================================================================
