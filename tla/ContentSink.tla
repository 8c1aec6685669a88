----------------------------- MODULE ContentSink -----------------------------
(***************************************************************************)
(* BoundedFileSink: the crawl's tasks hand it page bodies, a bounded       *)
(* channel and a byte-bounded backlog hold them, and one writer task       *)
(* appends them to the spool file.                                         *)
(*                                                                         *)
(* capture() runs on the task's thread without a lock around it: it clones *)
(* the sender, tries to send, and, if the channel is full, admits the page *)
(* to the backlog and then wakes the writer.  stage[u] is the place of that*)
(* call, wpc the place of the writer.  A page is the entry u of the batch  *)
(* whose body it is.  The order inside the channel and the backlog is left *)
(* open: the writer may take any page they hold.                           *)
(*                                                                         *)
(* Left out: the spool's encoding, the one-time warning (saturated), and a *)
(* panic inside the writer, which finish() reports like a failed write.    *)
(***************************************************************************)
EXTENDS Integers, FiniteSets, FiniteSetsExt

CONSTANTS
  UrlCount,     \* entries of the batch
  Size,         \* [1..UrlCount -> Nat]: bytes of url and body
  BufferSize,   \* buffer_size
  MaxBytes,     \* max_backlog_bytes
  MaxFaults     \* bound: failing writes

Urls == 1..UrlCount

ASSUME UrlCountAssumption == UrlCount \in Nat
ASSUME SizeAssumption == Size \in [Urls -> Nat]
ASSUME SinkAssumption == BufferSize \in Nat /\ MaxBytes \in Nat /\ MaxFaults \in Nat

VARIABLES
  stage,      \* per entry: its crawl task, and its capture() call
  open,       \* BoundedFileSink.tx is Some
  chan,       \* pages in the mpsc channel
  backlog,    \* BacklogState.pages
  bytes,      \* BacklogState.bytes
  permit,     \* Backlog.notify holds a permit
  sinkCancel, \* BoundedFileSink.cancel
  wpc,        \* spool_writer: the step it is at
  taken,      \* pages the writer holds
  spool,      \* how often each page is in the file
  accepted,   \* the pages BoundedFileSink.captured counts
  refused,    \* the pages BoundedFileSink.dropped counts
  offered,    \* history: pages capture() was called with
  faults      \* failing writes so far

queues == <<chan, backlog, bytes, permit>>
counts == <<accepted, refused, offered>>
writer == <<wpc, taken, spool, faults>>
sink == <<stage, open, chan, backlog, bytes, permit, sinkCancel, wpc, taken, spool,
          accepted, refused, offered, faults>>

\* buffer_size.max(1)
Capacity == IF BufferSize = 0 THEN 1 ELSE BufferSize

\* capture() holds a clone of the sender until it returns.
HoldsSender == {"sending", "full", "notify"}

\* rx.is_closed(): the sink's sender and all clones are gone.
Closed == ~open /\ \A u \in Urls : stage[u] \notin HoldsSender

\* The writer returned and its receiver is gone: try_send answers Closed.
WriterEnded == wpc \in {"done", "failed"}

SinkInit ==
  /\ stage = [u \in Urls |-> "queued"]
  /\ open = TRUE
  /\ chan = {} /\ backlog = {} /\ bytes = 0 /\ permit = FALSE
  /\ sinkCancel = FALSE
  /\ wpc = "recv" /\ taken = {} /\ spool = [u \in Urls |-> 0]
  /\ accepted = {} /\ refused = {} /\ offered = {}
  /\ faults = 0
-----------------------------------------------------------------------------
(* capture(), on the thread of the task of u.                              *)

To(u, s) == stage' = [stage EXCEPT ![u] = s]

\* current_sender: a page offered after finish() is discarded.
CurrentSender(u) ==
  /\ stage[u] = "fetching"
  /\ To(u, IF open THEN "sending" ELSE "fetched")
  /\ offered' = offered \cup {u}
  /\ UNCHANGED <<open, queues, sinkCancel, writer, accepted, refused>>

\* try_send: Ok, Full or Closed.
TrySend(u) ==
  /\ stage[u] = "sending"
  /\ IF WriterEnded
     THEN To(u, "fetched") /\ UNCHANGED <<chan, accepted>>
     ELSE IF Cardinality(chan) < Capacity
     THEN To(u, "fetched") /\ chan' = chan \cup {u} /\ accepted' = accepted \cup {u}
     ELSE To(u, "full") /\ UNCHANGED <<chan, accepted>>
  /\ UNCHANGED <<open, backlog, bytes, permit, sinkCancel, writer, refused, offered>>

\* Fault to seed in Fits: the incoming page is not counted.
FitsWithout(u) == bytes <= MaxBytes

\* Backlog::admit under its lock: the check and the push.
Fits(u) == bytes + Size[u] <= MaxBytes

Admit(u) ==
  /\ stage[u] = "full"
  /\ IF Fits(u)
     THEN /\ To(u, "notify")
          /\ backlog' = backlog \cup {u} /\ bytes' = bytes + Size[u]
          /\ accepted' = accepted \cup {u}
          /\ UNCHANGED refused
     ELSE /\ To(u, "fetched")
          /\ refused' = refused \cup {u}
          /\ UNCHANGED <<backlog, bytes, accepted>>
  /\ UNCHANGED <<open, chan, permit, sinkCancel, writer, offered>>

\* Fault to seed in NotifyOne: nobody wakes the writer.
NotifyNobody(u) ==
  /\ stage[u] = "notify"
  /\ To(u, "fetched")
  /\ UNCHANGED <<open, queues, sinkCancel, writer, counts>>

\* notify_one after the lock is released; capture() returns and drops its sender.
NotifyOne(u) ==
  /\ stage[u] = "notify"
  /\ To(u, "fetched")
  /\ permit' = TRUE
  /\ UNCHANGED <<open, chan, backlog, bytes, sinkCancel, writer, counts>>

Capture(u) == TrySend(u) \/ Admit(u) \/ NotifyOne(u)
-----------------------------------------------------------------------------
(* spool_writer.                                                           *)

Goto(s) == wpc' = s /\ UNCHANGED <<taken, spool, faults>>

Take(u, s) ==
  /\ chan' = chan \ {u}
  /\ taken' = {u}
  /\ wpc' = s
  /\ UNCHANGED <<backlog, bytes, permit, spool, faults>>

callers == <<stage, open, sinkCancel, counts>>

\* try_recv, until the channel is empty.
TryRecv ==
  /\ wpc = "recv"
  /\ \/ \E u \in chan : Take(u, "write_recv")
     \/ chan = {} /\ Goto("drain") /\ UNCHANGED queues
  /\ UNCHANGED callers

\* Fault to seed in Drain: the byte account is not reset.
DrainKeepsBytes ==
  /\ wpc = "drain"
  /\ taken' = backlog /\ backlog' = {}
  /\ wpc' = "write_drained"
  /\ UNCHANGED <<chan, bytes, permit, spool, faults, callers>>

\* Backlog::drain
Drain ==
  /\ wpc = "drain"
  /\ taken' = backlog /\ backlog' = {} /\ bytes' = 0
  /\ wpc' = "write_drained"
  /\ UNCHANGED <<chan, permit, spool, faults, callers>>

\* write_page, for each page the writer holds; then back to the channel or on to
\* the exit condition.
WritePage ==
  /\ wpc \in {"write_recv", "write_drained"}
  /\ \/ \E u \in taken : /\ taken' = taken \ {u}
                         /\ spool' = [spool EXCEPT ![u] = @ + 1]
                         /\ UNCHANGED <<wpc, faults>>
     \/ taken = {} /\ Goto(IF wpc = "write_recv" THEN "recv" ELSE "check_closed")
  /\ UNCHANGED <<queues, callers>>

\* The file refuses a write: the task returns the error and drops the receiver.
WriteFails ==
  /\ wpc \in {"write_recv", "write_drained", "flush"}
  /\ faults < MaxFaults
  /\ wpc = "flush" \/ taken # {}
  /\ wpc' = "failed" /\ faults' = faults + 1
  /\ UNCHANGED <<taken, spool, queues, callers>>

\* Fault to seed in CheckClosed: a closed channel is taken for an empty one.
CheckClosedOnly ==
  /\ wpc = "check_closed"
  /\ Goto(IF Closed THEN "flush" ELSE "poll_recv")
  /\ UNCHANGED <<queues, callers>>

\* rx.is_closed() && rx.is_empty() && backlog.is_empty(), in this order.
CheckClosed ==
  /\ wpc = "check_closed"
  /\ Goto(IF Closed THEN "check_chan" ELSE "poll_recv")
  /\ UNCHANGED <<queues, callers>>

CheckChan ==
  /\ wpc = "check_chan"
  /\ Goto(IF chan = {} THEN "check_backlog" ELSE "poll_recv")
  /\ UNCHANGED <<queues, callers>>

CheckBacklog ==
  /\ wpc = "check_backlog"
  /\ Goto(IF backlog = {} THEN "flush" ELSE "poll_recv")
  /\ UNCHANGED <<queues, callers>>

\* The biased select polls recv(), notified() and cancelled() in this order, and
\* other threads go on between two polls.
PollRecv ==
  /\ wpc = "poll_recv"
  /\ \/ \E u \in chan : Take(u, "write_recv")
     \/ chan = {} /\ Goto(IF Closed THEN "recv" ELSE "poll_notified") /\ UNCHANGED queues
  /\ UNCHANGED callers

PollNotified ==
  /\ wpc = "poll_notified"
  /\ permit' = FALSE
  /\ Goto(IF permit THEN "recv" ELSE "poll_cancelled")
  /\ UNCHANGED <<chan, backlog, bytes, callers>>

PollCancelled ==
  /\ wpc = "poll_cancelled"
  /\ Goto(IF sinkCancel THEN "flush" ELSE "parked")
  /\ UNCHANGED <<queues, callers>>

\* Any of the three wakes the writer, and all are polled again.
Wake ==
  /\ wpc = "parked"
  /\ chan # {} \/ Closed \/ permit \/ sinkCancel
  /\ Goto("poll_recv")
  /\ UNCHANGED <<queues, callers>>

\* flush and sync_all
Flush ==
  /\ wpc = "flush"
  /\ Goto("done")
  /\ UNCHANGED <<queues, callers>>

WriterStep == \/ TryRecv \/ Drain \/ WritePage
              \/ CheckClosed \/ CheckChan \/ CheckBacklog
              \/ PollRecv \/ PollNotified \/ PollCancelled \/ Wake \/ Flush
-----------------------------------------------------------------------------
(* Closing.                                                                *)

\* BoundedFileSink::cancel
CancelSink ==
  /\ sinkCancel' = TRUE
  /\ UNCHANGED <<stage, open, queues, writer, counts>>

\* Fault to seed in TakeSender: finish() looks at the sender and leaves it.
LeaveSender == open /\ UNCHANGED sink

\* finish(): the sender is taken out of its slot.
TakeSender ==
  /\ open
  /\ open' = FALSE
  /\ UNCHANGED <<stage, queues, sinkCancel, writer, counts>>

\* What the writer's Ok result counts.
Written == {u \in Urls : spool[u] > 0}
-----------------------------------------------------------------------------
SinkTypeOK ==
  /\ stage \in [Urls -> {"queued", "fetching", "sending", "full", "notify",
                         "fetched", "ok", "err", "joined"}]
  /\ open \in BOOLEAN /\ permit \in BOOLEAN /\ sinkCancel \in BOOLEAN
  /\ chan \in SUBSET Urls /\ backlog \in SUBSET Urls /\ taken \in SUBSET Urls
  /\ Cardinality(chan) <= Capacity
  /\ bytes \in 0..MaxBytes
  /\ wpc \in {"recv", "write_recv", "drain", "write_drained", "check_closed",
              "check_chan", "check_backlog", "poll_recv", "poll_notified",
              "poll_cancelled", "parked", "flush", "done", "failed"}
  /\ spool \in [Urls -> Nat]
  /\ accepted \in SUBSET Urls /\ refused \in SUBSET Urls /\ offered \in SUBSET Urls
  /\ faults \in 0..MaxFaults

BytesOf(pages) == MapThenSumSet(LAMBDA u : Size[u], pages)
Largest == IF Urls = {} THEN 0 ELSE Max({Size[u] : u \in Urls})

\* The backlog's byte account is what the backlog holds, and the bodies in memory
\* outside the channel, the ones the writer has taken out included, stay within
\* twice max_backlog_bytes (or that and one large page).
HeldBounded ==
  /\ bytes = BytesOf(backlog)
  /\ BytesOf(backlog) + BytesOf(taken) <= MaxBytes + Max({MaxBytes, Largest})

\* A page admitted to the backlog is written although no other page comes and
\* nobody closes the sink, unless a write fails or the sink is cancelled.
DeferredIsSpooled ==
  \A u \in Urls : (u \in backlog) ~> (spool[u] > 0 \/ wpc = "failed" \/ sinkCancel)
=============================================================================
