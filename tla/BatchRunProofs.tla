---------------------------- MODULE BatchRunProofs ----------------------------
(***************************************************************************)
(* A batch never loses an offered page without a count or an error, for    *)
(* any number of entries, any sizes and any bounds; it keeps to its        *)
(* capacities, and the bytes it holds outside the channel are bounded.     *)
(***************************************************************************)
EXTENDS BatchRun, FoldSums

\* Stages of an entry; writer steps between two pages; batch steps after the join.
Stages == {"queued", "fetching", "sending", "full", "notify", "fetched", "ok", "err",
           "joined"}
Idle == {"recv", "drain", "check_closed", "check_chan", "check_backlog", "poll_recv",
         "poll_notified", "poll_cancelled", "parked", "flush", "done"}
Closing == {"close", "finish", "await", "ended"}

\* The types the argument needs.
Types ==
  /\ stage \in [Urls -> Stages]
  /\ open \in BOOLEAN /\ sinkCancel \in BOOLEAN
  /\ chan \subseteq Urls /\ backlog \subseteq Urls /\ taken \subseteq Urls
  /\ accepted \subseteq Urls /\ refused \subseteq Urls /\ offered \subseteq Urls
  /\ spool \in [Urls -> Nat]
  /\ wpc \in Idle \cup {"write_recv", "write_drained", "failed"}
  /\ bpc \in {"start", "check", "acquire", "collect"} \cup Closing
  /\ next \in Nat

\* What capture() has done with the page of u.
Offering(u) ==
  /\ stage[u] \in {"queued", "fetching"} => u \notin offered
  /\ stage[u] \in HoldsSender => u \in offered
  /\ stage[u] \in {"sending", "full"} => u \notin accepted \cup refused
  /\ (u \in offered /\ stage[u] \notin {"sending", "full"} /\ wpc # "failed")
        => u \in accepted \cup refused

CaptureInv ==
  /\ accepted \subseteq offered /\ refused \subseteq offered
  /\ \A u \in Urls : Offering(u)

\* A page is in one place at a time.
InOnePlace(u) ==
  \/ u \notin accepted \cup chan \cup backlog \cup taken /\ spool[u] = 0
  \/ u \in accepted /\ u \in chan /\ u \notin backlog \cup taken /\ spool[u] = 0
  \/ u \in accepted /\ u \in backlog /\ u \notin chan \cup taken /\ spool[u] = 0
  \/ u \in accepted /\ u \in taken /\ u \notin chan \cup backlog /\ spool[u] = 0
  \/ u \in accepted /\ u \notin chan \cup backlog \cup taken /\ spool[u] = 1

\* The writer holds nothing between two rounds, and once it has found the channel
\* closed and the queues empty, they stay so.
WriterInv ==
  /\ \A u \in Urls : InOnePlace(u)
  /\ wpc \in Idle => taken = {}
  /\ wpc \in {"check_chan", "check_backlog"} => ~open
  /\ wpc \in {"flush", "done"} => ~open \/ sinkCancel
  /\ wpc = "check_backlog" => chan = {}
  /\ (wpc \in {"flush", "done"} /\ ~sinkCancel) => chan = {} /\ backlog = {}

\* The sink is closed, and cancelled, only after every task was joined.
BatchInv ==
  /\ bpc = "start" => \A u \in Urls : stage[u] = "queued"
  /\ bpc \in Closing => \A u \in Urls : stage[u] \in {"queued", "joined"}
  /\ ~open => bpc \in {"await", "ended"}
  /\ sinkCancel => bpc \in {"finish", "await", "ended"}
  /\ \A u \in Urls : u >= next => stage[u] = "queued"
  /\ next >= 1
  /\ bpc = "acquire" => next \in Urls
  /\ outcome \in {"exported", "no_content"} => bpc = "ended" /\ wpc = "done"

LossInv == Types /\ CaptureInv /\ WriterInv /\ BatchInv

\* Nothing is offered, queued or written before the batch starts.
LEMMA InitLossInv == Init => LossInv
<1> SUFFICES ASSUME Init PROVE LossInv
  OBVIOUS
<1> USE DEF Init, SinkInit
<1>1. Types
  BY DEF Types, Stages, Idle
<1>2. CaptureInv
  BY DEF CaptureInv, Offering, HoldsSender
<1>3. WriterInv
  BY DEF WriterInv, InOnePlace, Idle
<1>4. BatchInv
  BY DEF BatchInv, Closing
<1> QED
  BY <1>1, <1>2, <1>3, <1>4 DEF LossInv

\* The invariant gives NoSilentLoss when the run is over.
LEMMA LossInvImplies == LossInv => NoSilentLoss
BY DEF LossInv, Types, CaptureInv, WriterInv, BatchInv, NoSilentLoss, Offering,
   InOnePlace, Idle, Closing, HoldsSender

\* Every step of the batch, of a task and of the writer keeps the invariant.
LEMMA StepLossInv == LossInv /\ [Next]_vars => LossInv'
<1> SUFFICES ASSUME LossInv, [Next]_vars PROVE LossInv'
  OBVIOUS
<1> USE DEF LossInv
<1>1. CASE Start
  BY <1>1 DEF Start, sink, Types, CaptureInv, WriterInv, BatchInv, Offering, InOnePlace,
     Closing
<1>2. CASE CheckCancel
  BY <1>2, UrlCountAssumption DEF CheckCancel, sink, Types, CaptureInv, WriterInv,
     BatchInv, Offering, InOnePlace, Closing, Urls
<1>3. CASE Dispatch
  BY <1>3, UrlCountAssumption DEF Dispatch, To, queues, writer, counts, Types, CaptureInv,
     WriterInv, BatchInv, Offering, InOnePlace, Stages, Closing, Urls, HoldsSender
<1>4. ASSUME NEW u \in Urls, JoinNext(u) PROVE LossInv'
  BY <1>4 DEF JoinNext, To, queues, writer, counts, Types, CaptureInv, WriterInv, BatchInv,
     Offering, InOnePlace, Stages, Closing, HoldsSender
<1>5. CASE JoinedAll
  BY <1>5 DEF JoinedAll, sink, Types, CaptureInv, WriterInv, BatchInv, Offering,
     InOnePlace, Closing
<1>6. CASE Close
  <2>1. /\ UNCHANGED <<stage, open, chan, backlog, wpc, taken, spool, accepted, refused, offered,
                       next, outcome>>
        /\ sinkCancel' \in {sinkCancel, TRUE} /\ bpc = "close" /\ bpc' = "finish"
    BY <1>6 DEF Close, CancelSink, sink, queues, writer, counts
  <2>2. Types'
    BY <2>1 DEF Types, Closing
  <2>3. CaptureInv'
    BY <2>1 DEF CaptureInv, Offering
  <2>4. WriterInv'
    BY <2>1 DEF WriterInv, InOnePlace
  <2>5. BatchInv'
    BY <2>1 DEF BatchInv, Closing
  <2> QED BY <2>2, <2>3, <2>4, <2>5
<1>7. CASE Finish
  BY <1>7 DEF Finish, TakeSender, queues, writer, counts, Types, CaptureInv, WriterInv,
     BatchInv, Offering, InOnePlace, Closing
<1>8. CASE FlushBatchSink
  BY <1>8 DEF FlushBatchSink, WriterEnded, sink, Types, CaptureInv, WriterInv, BatchInv,
     Offering, InOnePlace, Closing
<1>9. ASSUME NEW u \in Urls, TaskReturns(u) PROVE LossInv'
  BY <1>9 DEF TaskReturns, To, batch, queues, writer, counts, Types, CaptureInv, WriterInv,
     BatchInv, Offering, InOnePlace, Stages, Closing, HoldsSender
<1>10. ASSUME NEW u \in Urls, CurrentSender(u), UNCHANGED batch PROVE LossInv'
  BY <1>10 DEF CurrentSender, To, batch, queues, writer, Types, CaptureInv, WriterInv,
     BatchInv, Offering, InOnePlace, Stages, Closing, HoldsSender
<1>11. ASSUME NEW u \in Urls, TrySend(u), UNCHANGED batch PROVE LossInv'
  BY <1>11 DEF TrySend, WriterEnded, To, batch, writer, Types, CaptureInv, WriterInv,
     BatchInv, Offering, InOnePlace, Stages, Closing, HoldsSender
<1>12. ASSUME NEW u \in Urls, Admit(u), UNCHANGED batch PROVE LossInv'
  BY <1>12 DEF Admit, To, batch, writer, Types, CaptureInv, WriterInv,
     BatchInv, Offering, InOnePlace, Stages, Closing, HoldsSender
<1>13. ASSUME NEW u \in Urls, NotifyOne(u), UNCHANGED batch PROVE LossInv'
  BY <1>13 DEF NotifyOne, To, batch, writer, counts, Types, CaptureInv, WriterInv,
     BatchInv, Offering, InOnePlace, Stages, Closing, HoldsSender
<1>14. ASSUME SpoolStep PROVE LossInv'
  <2> USE DEF callers, queues, counts, batch
  <2>1. CASE TryRecv \/ PollRecv
    BY <1>14, <2>1 DEF TryRecv, PollRecv, SpoolStep, Take, Goto, Closed, Types, CaptureInv,
       WriterInv, BatchInv, Offering, InOnePlace, Idle
  <2>2. CASE Drain
    BY <1>14, <2>2 DEF Drain, SpoolStep, Types, CaptureInv, WriterInv, BatchInv, Offering,
       InOnePlace, Idle
  <2>3. CASE WritePage
    BY <1>14, <2>3 DEF WritePage, SpoolStep, Goto, Types, CaptureInv, WriterInv, BatchInv,
       Offering, InOnePlace, Idle
  <2>4. CASE CheckClosed \/ CheckChan \/ CheckBacklog
    BY <1>14, <2>4 DEF CheckClosed, CheckChan, CheckBacklog, SpoolStep, Goto, Closed, Types,
       CaptureInv, WriterInv, BatchInv, Offering, InOnePlace, Idle
  <2>5. CASE PollNotified \/ PollCancelled \/ Wake \/ Flush
    BY <1>14, <2>5 DEF PollNotified, PollCancelled, Wake, Flush, SpoolStep, Goto, Types,
       CaptureInv, WriterInv, BatchInv, Offering, InOnePlace, Idle
  <2> QED
    BY <1>14, <2>1, <2>2, <2>3, <2>4, <2>5 DEF SpoolStep, WriterStep
<1>15. CASE WriteFails /\ UNCHANGED batch
  BY <1>15 DEF WriteFails, callers, queues, counts, batch, Types, CaptureInv, WriterInv,
     BatchInv, Offering, InOnePlace, Idle
<1>16. CASE Cancel
  BY <1>16 DEF Cancel, sink, Types, CaptureInv, WriterInv, BatchInv, Offering, InOnePlace
<1>17. CASE UNCHANGED vars
  BY <1>17 DEF vars, sink, batch, Types, CaptureInv, WriterInv, BatchInv, Offering, InOnePlace
<1> QED
  BY <1>1, <1>2, <1>3, <1>4, <1>5, <1>6, <1>7, <1>8, <1>9, <1>10, <1>11, <1>12, <1>13,
     <1>14, <1>15, <1>16, <1>17 DEF Next, BatchStep, TaskStep, CaptureStep, Capture

\* NoSilentLoss holds of every batch: process_batch_cancellable joins every task
\* before the sink is closed, the writer looks at the queues only after it found
\* the channel closed, and notices every page that was admitted before.
THEOREM BatchLosesNothing == Spec => []NoSilentLoss
<1>1. Spec => []LossInv
  BY InitLossInv, StepLossInv, PTL DEF Spec
<1> QED
  BY <1>1, LossInvImplies, PTL
-----------------------------------------------------------------------------
(* The bounds: channel, backlog and permits.                               *)

\* What TypeOK says beyond Types: the capacities, the byte account and the results.
Bounds ==
  /\ Cardinality(chan) <= Capacity
  /\ Cardinality(Running) <= MaxConcurrent
  /\ bytes \in 0..MaxBytes /\ permit \in BOOLEAN
  /\ next <= UrlCount + 1
  /\ cancelled \in BOOLEAN
  /\ succeeded \in Nat /\ failed \in Nat
  /\ outcome \in {"none", "io_error", "no_content", "exported"}
  /\ faults \in 0..MaxFaults

\* Sets of entries are finite, a part is no larger, and one more entry counts one.
LEMMA EntrySets ==
  ASSUME NEW S, S \subseteq Urls, NEW T
  PROVE  /\ Cardinality(S) \in Nat
         /\ T \subseteq S => Cardinality(T) <= Cardinality(S)
         /\ \A u \in Urls : T \subseteq S \cup {u} => Cardinality(T) <= Cardinality(S) + 1
<1>1. IsFiniteSet(Urls)
  BY FS_Interval, UrlCountAssumption DEF Urls
<1>2. IsFiniteSet(S)
  BY <1>1, FS_Subset
<1>3. ASSUME NEW u \in Urls, T \subseteq S \cup {u} PROVE Cardinality(T) <= Cardinality(S) + 1
  <2>1. IsFiniteSet(S \cup {u}) /\ Cardinality(S \cup {u}) <= Cardinality(S) + 1
    <3>1. Cardinality(S) \in Nat
      BY <1>2, FS_CardinalityType
    <3>2. CASE u \in S
      <4>1. S \cup {u} = S
        BY <3>2
      <4> QED BY <1>2, <3>1, <4>1
    <3>3. CASE u \notin S
      BY <1>2, <3>1, <3>3, FS_AddElement
    <3> QED BY <3>2, <3>3
  <2>2. Cardinality(T) <= Cardinality(S \cup {u}) /\ Cardinality(T) \in Nat
    BY <2>1, <1>3, FS_Subset, FS_CardinalityType
  <2> QED BY <2>1, <2>2, <1>2, FS_CardinalityType
<1> QED BY <1>2, <1>3, FS_Subset, FS_CardinalityType

\* The capacities hold after a step that neither fills the channel nor spawns.
LEMMA SmallerSets ==
  ASSUME LossInv, Bounds, chan' \subseteq chan, Running' \subseteq Running
  PROVE  Cardinality(chan') <= Capacity /\ Cardinality(Running') <= MaxConcurrent
<1>1. chan \subseteq Urls /\ Running \subseteq Urls
  BY DEF LossInv, Types, Running
<1>2. Cardinality(chan') <= Cardinality(chan) /\ Cardinality(chan') \in Nat /\ Cardinality(chan) \in Nat
  <2>1. chan' \subseteq Urls
    BY <1>1
  <2> QED BY <1>1, <2>1, EntrySets
<1>3. /\ Cardinality(Running') <= Cardinality(Running)
      /\ Cardinality(Running') \in Nat /\ Cardinality(Running) \in Nat
  <2> DEFINE R == Running
             Q == Running'
  <2>1. Q \subseteq R /\ R \subseteq Urls /\ Q \subseteq Urls
    BY <1>1
  <2> HIDE DEF R, Q
  <2>2. Cardinality(Q) <= Cardinality(R) /\ Cardinality(Q) \in Nat /\ Cardinality(R) \in Nat
    BY <2>1, EntrySets
  <2> QED BY <2>2 DEF R, Q
<1> QED BY <1>2, <1>3, SinkAssumption, ConcurrencyAssumption DEF Bounds, Capacity

\* Before the first dispatch the queues and the permits are free.
LEMMA InitBounds == Init => Bounds
<1> SUFFICES ASSUME Init PROVE Bounds
  OBVIOUS
<1>1. Running = {} /\ chan = {}
  BY DEF Init, SinkInit, Running, HoldsSender
<1>2. Cardinality(Running) = 0 /\ Cardinality(chan) = 0
  BY <1>1, FS_EmptySet
<1>3. Cardinality(chan) <= Capacity /\ Cardinality(Running) <= MaxConcurrent
  BY <1>2, SinkAssumption, ConcurrencyAssumption DEF Capacity
<1>4. bytes \in 0..MaxBytes /\ faults \in 0..MaxFaults /\ next <= UrlCount + 1
  BY SinkAssumption, UrlCountAssumption DEF Init, SinkInit
<1> QED BY <1>3, <1>4 DEF Init, SinkInit, Bounds

\* Only acquire_owned, try_send and admit can fill a bound, and each looks first.
LEMMA StepBounds == LossInv /\ Bounds /\ [Next]_vars => Bounds'
<1> SUFFICES ASSUME LossInv, Bounds, [Next]_vars PROVE Bounds'
  OBVIOUS
<1> USE DEF Running, HoldsSender
<1>1. CASE Dispatch
  <2>1. next \in Urls /\ Cardinality(Running) < MaxConcurrent /\ chan' = chan
    BY <1>1 DEF Dispatch, LossInv, BatchInv, queues
  <2>2. Running' \subseteq Running \cup {next} /\ Running \subseteq Urls
    BY <1>1, <2>1 DEF Dispatch, To, LossInv, Types
  <2>3. Cardinality(Running') <= MaxConcurrent
    <3> DEFINE R == Running
               Q == Running'
    <3>1. Q \subseteq R \cup {next} /\ R \subseteq Urls /\ Q \subseteq Urls /\ next \in Urls
      BY <2>1, <2>2
    <3>2. Cardinality(R) < MaxConcurrent
      BY <2>1
    <3> HIDE DEF R, Q
    <3>3. Cardinality(Q) <= Cardinality(R) + 1 /\ Cardinality(Q) \in Nat /\ Cardinality(R) \in Nat
      BY <3>1, EntrySets
    <3>4. Cardinality(Q) <= MaxConcurrent
      BY <3>2, <3>3, ConcurrencyAssumption
    <3> QED BY <3>4 DEF Q
  <2>4. next' <= UrlCount + 1
    BY <1>1, <2>1, UrlCountAssumption DEF Dispatch, Urls
  <2> QED BY <1>1, <2>1, <2>3, <2>4 DEF Dispatch, Bounds, queues, writer
<1>2. ASSUME NEW u \in Urls, TrySend(u), UNCHANGED batch PROVE Bounds'
  <2>1. Running' \subseteq Running
    BY <1>2 DEF TrySend, To, LossInv, Types
  <2>2. CASE chan' = chan
    <3>1. Cardinality(Running') <= MaxConcurrent
      BY <2>1, <2>2, SmallerSets
    <3> QED BY <1>2, <2>2, <3>1 DEF TrySend, Bounds, batch, writer
  <2>3. CASE chan' # chan
    <3>1. chan' = chan \cup {u} /\ Cardinality(chan) < Capacity
      BY <1>2, <2>3 DEF TrySend
    <3>2. /\ Cardinality(chan') <= Cardinality(chan) + 1
          /\ Cardinality(chan') \in Nat /\ Cardinality(chan) \in Nat
      <4>1. chan \subseteq Urls /\ chan' \subseteq Urls
        BY <3>1 DEF LossInv, Types
      <4> QED BY <3>1, <4>1, EntrySets
    <3>3. Cardinality(chan') <= Capacity
      BY <3>1, <3>2, SinkAssumption DEF Capacity
    <3>4. Cardinality(Running') <= MaxConcurrent
      <4> DEFINE R == Running
                 Q == Running'
      <4>1. Q \subseteq R /\ R \subseteq Urls /\ Q \subseteq Urls
        BY <2>1
      <4>2. Cardinality(R) <= MaxConcurrent
        BY DEF Bounds
      <4> HIDE DEF R, Q
      <4>3. Cardinality(Q) <= Cardinality(R) /\ Cardinality(Q) \in Nat /\ Cardinality(R) \in Nat
        BY <4>1, EntrySets
      <4>4. Cardinality(Q) <= MaxConcurrent
        BY <4>2, <4>3, ConcurrencyAssumption
      <4> QED BY <4>4 DEF Q
    <3> QED BY <1>2, <3>3, <3>4 DEF TrySend, Bounds, batch, writer
  <2> QED BY <2>2, <2>3
<1>3. ASSUME NEW u \in Urls, Admit(u), UNCHANGED batch PROVE Bounds'
  <2>1. chan' \subseteq chan /\ Running' \subseteq Running
    BY <1>3 DEF Admit, To, LossInv, Types
  <2>2. bytes' \in 0..MaxBytes
    BY <1>3, SizeAssumption, SinkAssumption DEF Admit, Fits, Bounds
  <2> QED BY <1>3, <2>1, <2>2, SmallerSets DEF Admit, Bounds, batch, writer
<1>4. CASE Start \/ CheckCancel \/ JoinedAll \/ Close \/ Finish \/ FlushBatchSink \/ Cancel
  <2>1. /\ chan' \subseteq chan /\ Running' \subseteq Running
        /\ UNCHANGED <<bytes, permit, next, succeeded, failed, faults>>
        /\ cancelled' \in BOOLEAN
        /\ outcome' \in {"none", "io_error", "no_content", "exported"}
    BY <1>4 DEF Start, CheckCancel, JoinedAll, Close, Finish, FlushBatchSink, Cancel, CancelSink,
       TakeSender, sink, queues, writer, counts, Bounds
  <2> QED BY <2>1, SmallerSets DEF Bounds
<1>5. ASSUME NEW u \in Urls,
             JoinNext(u) \/ TaskReturns(u) \/ ((CurrentSender(u) \/ NotifyOne(u)) /\ UNCHANGED batch)
      PROVE  Bounds'
  <2>1. chan' \subseteq chan /\ UNCHANGED <<bytes, next, cancelled, outcome, faults>>
    BY <1>5 DEF JoinNext, TaskReturns, CurrentSender, NotifyOne, queues, writer, counts, batch
  <2>2. permit' \in BOOLEAN
    BY <1>5 DEF JoinNext, TaskReturns, CurrentSender, NotifyOne, queues, Bounds
  <2>3. succeeded' \in Nat /\ failed' \in Nat
    BY <1>5 DEF JoinNext, TaskReturns, CurrentSender, NotifyOne, batch, Bounds
  <2>4. Running' \subseteq Running
    BY <1>5 DEF JoinNext, TaskReturns, CurrentSender, NotifyOne, To, LossInv, Types
  <2> QED BY <2>1, <2>2, <2>3, <2>4, SmallerSets DEF Bounds
<1>6. CASE SpoolStep \/ (WriteFails /\ UNCHANGED batch)
  <2>1. UNCHANGED batch /\ UNCHANGED stage
    BY <1>6 DEF SpoolStep, WriterStep, TryRecv, Drain, WritePage, CheckClosed, CheckChan,
       CheckBacklog, PollRecv, PollNotified, PollCancelled, Wake, Flush, WriteFails, callers
  <2>2. chan' \subseteq chan /\ (bytes' = bytes \/ bytes' = 0) /\ permit' \in BOOLEAN
    BY <1>6 DEF SpoolStep, WriterStep, TryRecv, Drain, WritePage, CheckClosed, CheckChan,
       CheckBacklog, PollRecv, PollNotified, PollCancelled, Wake, Flush, WriteFails, Take,
       queues, Bounds
  <2>3. faults' \in 0..MaxFaults
    BY <1>6, SinkAssumption DEF SpoolStep, WriterStep, TryRecv, Drain, WritePage, CheckClosed,
       CheckChan, CheckBacklog, PollRecv, PollNotified, PollCancelled, Wake, Flush, WriteFails,
       Take, Goto, Bounds
  <2>4. Running' \subseteq Running
    BY <2>1
  <2> QED BY <2>1, <2>2, <2>3, <2>4, SmallerSets, SinkAssumption DEF Bounds, batch
<1>7. CASE UNCHANGED vars
  <2>1. chan' \subseteq chan /\ Running' \subseteq Running
    BY <1>7 DEF vars, sink
  <2> QED BY <1>7, <2>1, SmallerSets DEF vars, sink, batch, Bounds
<1> QED BY <1>1, <1>2, <1>3, <1>4, <1>5, <1>6, <1>7
        DEF Next, BatchStep, TaskStep, CaptureStep, Capture

\* A batch of any size keeps to its bounds: at most max_concurrent tasks hold a
\* permit, the channel holds at most buffer_size pages, and the backlog's account
\* never passes max_backlog_bytes (acquire_owned, try_send, Backlog::admit).
THEOREM BatchKeepsItsBounds == Spec => []TypeOK
<1>1. Spec => [](LossInv /\ Bounds)
  BY InitLossInv, StepLossInv, InitBounds, StepBounds, PTL DEF Spec
<1>2. LossInv /\ Bounds => TypeOK
  BY UrlCountAssumption DEF LossInv, Types, BatchInv, Bounds, TypeOK, SinkTypeOK, Stages, Idle,
     Closing
<1> QED BY <1>1, <1>2, PTL

-----------------------------------------------------------------------------
(* The bytes held in memory.                                               *)

\* What the writer has taken out is a drained backlog or one page.
HeldInv ==
  /\ bytes = Sum(Size, backlog)
  /\ Sum(Size, taken) <= Max({MaxBytes, Largest})

\* The fold over pages is the sum of their sizes.
LEMMA BytesAreSum == \A P : BytesOf(P) = Sum(Size, P)
  BY DEF BytesOf, MapThenSumSet, Sum, FoldFunctionOnSet

\* The sizes of some pages.
LEMMA PageBytes ==
  ASSUME NEW P \in SUBSET Urls
  PROVE  /\ IsFiniteSet(P) /\ \A u \in P : Size[u] \in Nat
         /\ Sum(Size, P) \in Nat
         /\ P = {} => Sum(Size, P) = 0
         /\ \A T \in SUBSET P : Sum(Size, T) <= Sum(Size, P)
<1>1. IsFiniteSet(Urls)
  BY FS_Interval, UrlCountAssumption DEF Urls
<1>2. IsFiniteSet(P) /\ \A u \in P : Size[u] \in Nat
  BY <1>1, FS_Subset, SizeAssumption
<1> QED BY <1>2, SumBasics

\* One more page counts its size.
LEMMA OneMorePage ==
  ASSUME NEW P \in SUBSET Urls, NEW u \in Urls, u \notin P
  PROVE  Sum(Size, P \cup {u}) = Sum(Size, P) + Size[u]
<1>1. IsFiniteSet(P) /\ \A v \in P \cup {u} : Size[v] \in Nat
  BY PageBytes, SizeAssumption
<1> QED BY <1>1, SumAdd

\* A set of numbers under a bound has a greatest one.
LEMMA GreatestNumber ==
  ASSUME NEW A, A \subseteq Nat, A # {}, NEW b \in Nat, \A y \in A : y <= b
  PROVE  Max(A) \in A /\ \A y \in A : y <= Max(A)
<1> DEFINE B == {k \in Nat : \A y \in A : y <= k}
<1>1. B \subseteq Nat /\ B # {}
  OBVIOUS
<1>2. PICK n \in B : \A k \in B : n <= k
  <2> HIDE DEF B
  <2> QED BY <1>1, LeastNumber
<1>3. n \in A
  <2> SUFFICES ASSUME n \notin A PROVE FALSE
    OBVIOUS
  <2>1. \A y \in A : y \in Nat /\ y < n
    BY <1>2
  <2>2. n \in Nat /\ n # 0
    <3>1. PICK y : y \in A
      OBVIOUS
    <3> QED BY <1>2, <2>1, <3>1
  <2>3. n - 1 \in B
    BY <2>1, <2>2
  <2> QED BY <1>2, <2>2, <2>3
<1>4. \A y \in A : n >= y
  BY <1>2
<1>5. Max(A) \in A /\ \A y \in A : Max(A) >= y
  <2> HIDE DEF B
  <2> QED BY <1>3, <1>4 DEF Max
<1> QED BY <1>5

\* No page is larger than Largest, and the larger of two bounds is above both.
LEMMA LargestBounds ==
  /\ Largest \in Nat
  /\ \A u \in Urls : Size[u] <= Largest
  /\ Max({MaxBytes, Largest}) \in Nat
  /\ MaxBytes <= Max({MaxBytes, Largest}) /\ Largest <= Max({MaxBytes, Largest})
<1>1. Largest \in Nat /\ \A u \in Urls : Size[u] <= Largest
  <2>1. CASE Urls = {}
    BY <2>1 DEF Largest
  <2>2. CASE Urls # {}
    <3> DEFINE A == {Size[u] : u \in Urls}
    <3>1. A \subseteq Nat /\ A # {}
      BY <2>2, SizeAssumption
    <3>2. Sum(Size, Urls) \in Nat
      BY PageBytes
    <3>3. \A y \in A : y <= Sum(Size, Urls)
      <4> SUFFICES ASSUME NEW u \in Urls PROVE Size[u] <= Sum(Size, Urls)
        OBVIOUS
      <4> DEFINE r == Urls \ {u}
      <4>1. r \in SUBSET Urls /\ u \notin r /\ r \cup {u} = Urls
        OBVIOUS
      <4> HIDE DEF r
      <4>2. Sum(Size, r \cup {u}) = Sum(Size, r) + Size[u] /\ Sum(Size, r) \in Nat
        BY <4>1, OneMorePage, PageBytes
      <4> QED BY <4>1, <4>2, SizeAssumption
    <3> HIDE DEF A
    <3>4. Max(A) \in A /\ \A y \in A : y <= Max(A)
      BY <3>1, <3>2, <3>3, GreatestNumber
    <3>5. Largest = Max(A)
      BY <2>2 DEF A, Largest
    <3> QED BY <3>1, <3>4, <3>5 DEF A
  <2> QED BY <2>1, <2>2
<1>2. Max({MaxBytes, Largest}) \in Nat
      /\ MaxBytes <= Max({MaxBytes, Largest}) /\ Largest <= Max({MaxBytes, Largest})
  <2> DEFINE A == {MaxBytes, Largest}
  <2>1. A \subseteq Nat /\ A # {} /\ MaxBytes + Largest \in Nat
        /\ \A y \in A : y <= MaxBytes + Largest
    BY <1>1, SinkAssumption
  <2>2. MaxBytes \in A /\ Largest \in A
    OBVIOUS
  <2> HIDE DEF A
  <2>3. Max(A) \in A /\ \A y \in A : y <= Max(A)
    BY <2>1, GreatestNumber
  <2> QED BY <2>1, <2>2, <2>3 DEF A
<1> QED BY <1>1, <1>2

\* HeldInv is HeldBounded, the backlog's share being within max_backlog_bytes.
LEMMA HeldInvMeans == LossInv /\ Bounds /\ HeldInv => HeldBounded
<1> SUFFICES ASSUME LossInv, Bounds, HeldInv PROVE HeldBounded
  OBVIOUS
<1>1. BytesOf(backlog) = Sum(Size, backlog) /\ BytesOf(taken) = Sum(Size, taken)
  BY BytesAreSum
<1>2. Sum(Size, backlog) \in Nat /\ Sum(Size, taken) \in Nat
  BY PageBytes DEF LossInv, Types
<1>3. Sum(Size, backlog) <= MaxBytes
  BY <1>2 DEF HeldInv, Bounds
<1>4. Sum(Size, backlog) + Sum(Size, taken) <= MaxBytes + Max({MaxBytes, Largest})
  BY <1>2, <1>3, LargestBounds, SinkAssumption DEF HeldInv
<1> QED BY <1>1, <1>4 DEF HeldInv, HeldBounded

\* The byte account follows the backlog, and the writer takes one page or all.
LEMMA StepHeldInv == LossInv /\ Bounds /\ HeldInv /\ [Next]_vars => HeldInv'
<1> SUFFICES ASSUME LossInv, Bounds, HeldInv, [Next]_vars PROVE HeldInv'
  OBVIOUS
<1>0. backlog \in SUBSET Urls /\ taken \in SUBSET Urls /\ chan \in SUBSET Urls
  BY DEF LossInv, Types
<1>1. CASE UNCHANGED <<bytes, backlog, taken>>
  BY <1>1 DEF HeldInv
<1>2. ASSUME NEW u \in Urls, Admit(u) PROVE HeldInv'
  <2>1. u \notin backlog
    BY <1>2 DEF Admit, LossInv, CaptureInv, WriterInv, Offering, InOnePlace
  <2>2. Sum(Size, backlog \cup {u}) = Sum(Size, backlog) + Size[u]
    BY <1>0, <2>1, OneMorePage
  <2>3. \/ UNCHANGED <<bytes, backlog, taken>>
        \/ backlog' = backlog \cup {u} /\ bytes' = bytes + Size[u] /\ UNCHANGED taken
    BY <1>2 DEF Admit, writer
  <2> QED BY <1>1, <2>2, <2>3 DEF HeldInv
<1>3. ASSUME NEW u \in chan, taken' = {u}, UNCHANGED <<bytes, backlog>> PROVE HeldInv'
  <2>1. u \in Urls /\ {} \in SUBSET Urls /\ u \notin {} /\ {} \cup {u} = {u}
    BY <1>0
  <2>2. Sum(Size, {} \cup {u}) = Sum(Size, {}) + Size[u] /\ Sum(Size, {}) = 0
    BY <2>1, OneMorePage, PageBytes
  <2>3. Sum(Size, {u}) = Size[u]
    BY <2>1, <2>2, SizeAssumption
  <2>4. Sum(Size, {u}) <= Max({MaxBytes, Largest})
    BY <2>1, <2>3, LargestBounds, SizeAssumption
  <2> QED BY <1>3, <2>4 DEF HeldInv
<1>4. CASE Drain
  <2>1. Sum(Size, backlog) <= Max({MaxBytes, Largest})
    BY LargestBounds, SinkAssumption DEF HeldInv, Bounds
  <2>2. Sum(Size, {}) = 0
    BY PageBytes
  <2>3. taken' = backlog /\ backlog' = {} /\ bytes' = 0
    BY <1>4 DEF Drain
  <2> QED BY <2>1, <2>2, <2>3 DEF HeldInv
<1>5. CASE WritePage
  <2>1. taken' \in SUBSET taken /\ UNCHANGED <<bytes, backlog>>
    BY <1>5 DEF WritePage, Goto, queues
  <2>2. Sum(Size, taken') <= Sum(Size, taken) /\ Sum(Size, taken') \in Nat /\ Sum(Size, taken) \in Nat
    BY <1>0, <2>1, PageBytes
  <2>3. Sum(Size, taken') <= Max({MaxBytes, Largest})
    BY <2>2, LargestBounds DEF HeldInv
  <2> QED BY <2>1, <2>3 DEF HeldInv
<1>6. CASE TryRecv \/ PollRecv
  BY <1>1, <1>3, <1>6 DEF TryRecv, PollRecv, Take, Goto, queues
<1>7. CASE CheckClosed \/ CheckChan \/ CheckBacklog \/ PollNotified \/ PollCancelled \/ Wake \/ Flush
  BY <1>1, <1>7 DEF CheckClosed, CheckChan, CheckBacklog, PollNotified, PollCancelled, Wake, Flush,
     Goto, queues
<1>8. CASE WriteFails
  BY <1>1, <1>8 DEF WriteFails, queues
<1>9. CASE Start \/ CheckCancel \/ Dispatch \/ JoinedAll \/ Close \/ Finish \/ FlushBatchSink \/ Cancel
  BY <1>1, <1>9 DEF Start, CheckCancel, Dispatch, JoinedAll, Close, Finish, FlushBatchSink, Cancel,
     CancelSink, TakeSender, sink, queues, writer, counts
<1>10. ASSUME NEW u \in Urls,
              JoinNext(u) \/ TaskReturns(u) \/ CurrentSender(u) \/ TrySend(u) \/ NotifyOne(u)
       PROVE  HeldInv'
  BY <1>1, <1>10 DEF JoinNext, TaskReturns, CurrentSender, TrySend, NotifyOne, queues, writer
<1>11. CASE UNCHANGED vars
  BY <1>1, <1>11 DEF vars, sink
<1> QED BY <1>2, <1>4, <1>5, <1>6, <1>7, <1>8, <1>9, <1>10, <1>11
        DEF Next, BatchStep, TaskStep, CaptureStep, Capture, SpoolStep, WriterStep

\* HeldBounded holds of every batch: the account Backlog::admit checks is what the
\* backlog holds, so the backlog and what spool_writer drained before it was
\* refilled stay within twice max_backlog_bytes, or that and one large page that
\* came by the channel.
THEOREM MemoryIsBounded == Spec => []HeldBounded
<1>1. Init => HeldInv
  <2>1. Sum(Size, {}) = 0
    BY PageBytes
  <2> QED BY <2>1, LargestBounds DEF Init, SinkInit, HeldInv
<1>2. Spec => [](LossInv /\ Bounds)
  BY InitLossInv, StepLossInv, InitBounds, StepBounds, PTL DEF Spec
<1>3. Spec => []HeldInv
  BY <1>1, <1>2, StepHeldInv, PTL DEF Spec
<1> QED BY <1>2, <1>3, HeldInvMeans, PTL
=============================================================================
