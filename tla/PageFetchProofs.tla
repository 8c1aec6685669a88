---------------------------- MODULE PageFetchProofs ----------------------------
(***************************************************************************)
(* The download layers for any number of fetches, retries, permits and     *)
(* page requests.  First the tracker of the idle settle: every step of the *)
(* settle preserves SettleInv, from which a drained page has no phantom    *)
(* request and a quiet window closes over no request in flight that was    *)
(* polled.                                                                 *)
(***************************************************************************)
EXTENDS PageFetch, FiniteSetTheorems, TLAPS

\* What may happen to the settle state of f.
SettleMove(f) ==
  \/ Subscribe(f) /\ streams[f] = "off"
  \/ ForgetSettle(f)
  \/ \E q \in Requests : BrowserSends(f, q)
  \/ \E q \in Requests, c \in Completions : BrowserCompletes(f, q, c)
  \/ SendersDropped(f)
  \/ Drain(f)
  \/ UNCHANGED settle

\* Subscribed or not, a channel that is not closed has its branch on.
ActiveInv == \A f \in Fetches : streams[f] # "closed" => active[f] = Branches

\* What the queues and the tracker hold of a request, by what the browser has
\* done with it.
IdleReq(f, q) ==
  net[f][q] = "idle" =>
    sentQ[f][q] = 0 /\ doneQ[f][q] = "none" /\ q \notin pending[f] /\ q \notin unseen[f]

FlyingReq(f, q) ==
  /\ net[f][q] \in {"flying", "resent"} =>
       doneQ[f][q] = "none" /\ q \notin unseen[f] /\ (sentQ[f][q] = 0 => q \in pending[f])
  /\ net[f][q] = "flying" => sentQ[f][q] <= 1
  /\ net[f][q] = "resent" /\ sentQ[f][q] < 2 => q \in pending[f]

PairedReq(f, q) ==
  q \notin Redirects =>
    /\ net[f][q] # "resent" /\ sentQ[f][q] <= 1
    /\ net[f][q] = "flying" => ~(sentQ[f][q] = 1 /\ q \in pending[f])
    /\ net[f][q] = "complete" /\ doneQ[f][q] # "none" =>
         q \notin unseen[f] /\ ~(sentQ[f][q] = 1 /\ q \in pending[f])
    /\ net[f][q] = "complete" /\ doneQ[f][q] = "none" =>
         q \notin pending[f] /\ (sentQ[f][q] = 1 => q \in unseen[f])

ReqOK(f, q) == IdleReq(f, q) /\ FlyingReq(f, q) /\ PairedReq(f, q)

ReqInv == \A f \in Fetches, q \in Requests : ReqOK(f, q)

SettleInv == SettleTypeOK /\ ActiveInv /\ ReqInv

\* No page has subscribed and no request is known.
LEMMA SettleInitInv == SettleInit => SettleInv
  BY DEF SettleInit, SettleInv, SettleTypeOK, ActiveInv, ReqInv, ReqOK, IdleReq, FlyingReq, PairedReq,
         Blank, NoSends, NoDones, Branches, Completions

\* Subscribing and dropping the streams.
LEMMA SubscribeInv ==
  ASSUME SettleInv, NEW f \in Fetches, Subscribe(f), streams[f] = "off"
  PROVE  SettleInv'
  BY DEF Subscribe, SettleInv, SettleTypeOK, ActiveInv, ReqInv, ReqOK, IdleReq, FlyingReq, PairedReq,
         Branches, Completions, wire, tracker

\* A page that is closed forgets its requests with its streams.
LEMMA ForgetInv ==
  ASSUME SettleInv, NEW f \in Fetches, ForgetSettle(f)
  PROVE  SettleInv'
  BY DEF ForgetSettle, SettleInv, SettleTypeOK, ActiveInv, ReqInv, ReqOK, IdleReq, FlyingReq, PairedReq,
         Blank, NoSends, NoDones, Branches, Completions

\* The browser's side may go away and leaves the queued events to be read.
LEMMA DroppedInv ==
  ASSUME SettleInv, NEW f \in Fetches, SendersDropped(f)
  PROVE  SettleInv'
  BY DEF SendersDropped, SettleInv, SettleTypeOK, ActiveInv, ReqInv, ReqOK, IdleReq, FlyingReq, PairedReq,
         Branches, Completions, wire, tracker

\* The browser's steps: a request is sent once, or twice when redirected.
LEMMA SendsInv ==
  ASSUME SettleInv, NEW f \in Fetches, NEW q \in Requests, BrowserSends(f, q)
  PROVE  SettleInv'
<1>1. SettleTypeOK'
  <2>1. sentQ[f][q] \in 0..1
    BY DEF BrowserSends, SettleInv, SettleTypeOK, ReqInv, ReqOK, IdleReq, FlyingReq
  <2>2. sentQ' \in [Fetches -> [Requests -> 0..2]]
    BY <2>1 DEF BrowserSends, SettleInv, SettleTypeOK
  <2>3. net' \in [Fetches -> [Requests -> {"idle", "flying", "resent", "complete"}]]
    <3>1. CASE net' = [net EXCEPT ![f][q] = "flying"]
      BY <3>1 DEF SettleInv, SettleTypeOK
    <3>2. CASE net' = [net EXCEPT ![f][q] = "resent"]
      BY <3>2 DEF SettleInv, SettleTypeOK
    <3> QED
      BY <3>1, <3>2 DEF BrowserSends
  <2> QED
    BY <2>2, <2>3 DEF BrowserSends, SettleInv, SettleTypeOK, tracker
<1>2. ActiveInv'
  BY DEF BrowserSends, SettleInv, ActiveInv, tracker
<1>3. ReqInv'
  <2> SUFFICES ASSUME NEW g \in Fetches, NEW r \in Requests PROVE ReqOK(g, r)'
    BY DEF ReqInv
  <2>0. ReqOK(g, r)
    BY DEF SettleInv, ReqInv
  <2>1. UNCHANGED <<doneQ, pending, unseen>>
    BY DEF BrowserSends, tracker
  <2>2. CASE g = f /\ r = q
    <3>1. doneQ[f][q] = "none" /\ q \notin unseen[f] /\ sentQ'[f][q] = sentQ[f][q] + 1
      BY <2>0, <2>2 DEF BrowserSends, SettleInv, SettleTypeOK, ReqOK, IdleReq, FlyingReq
    <3>2. CASE net[f][q] = "idle" /\ net'[f][q] = "flying"
      BY <2>0, <2>1, <2>2, <3>1, <3>2, SMTT(30) DEF SettleInv, SettleTypeOK, ReqOK, IdleReq, FlyingReq, PairedReq
    <3>3. CASE net[f][q] = "flying" /\ q \in Redirects /\ net'[f][q] = "resent"
      BY <2>0, <2>1, <2>2, <3>1, <3>3, SMTT(30) DEF SettleInv, SettleTypeOK, ReqOK, IdleReq, FlyingReq, PairedReq
    <3> QED
      BY <3>2, <3>3 DEF BrowserSends, SettleInv, SettleTypeOK
  <2>3. CASE ~(g = f /\ r = q)
    <3>1. net'[g][r] = net[g][r] /\ sentQ'[g][r] = sentQ[g][r]
      BY <2>3 DEF BrowserSends, SettleInv, SettleTypeOK
    <3> QED
      BY <2>0, <2>1, <3>1 DEF ReqOK, IdleReq, FlyingReq, PairedReq
  <2> QED
    BY <2>2, <2>3
<1> QED
  BY <1>1, <1>2, <1>3 DEF SettleInv

\* A completion is announced once, after the request was sent.
LEMMA CompletesInv ==
  ASSUME SettleInv, NEW f \in Fetches, NEW q \in Requests, NEW c \in Completions,
         BrowserCompletes(f, q, c)
  PROVE  SettleInv'
<1>1. SettleTypeOK' /\ ActiveInv'
  BY DEF BrowserCompletes, SettleInv, SettleTypeOK, ActiveInv, Branches, Completions, tracker
<1>2. ReqInv'
  BY DEF BrowserCompletes, SettleInv, SettleTypeOK, ReqInv, ReqOK, IdleReq, FlyingReq, PairedReq, Completions, tracker
<1> QED
  BY <1>1, <1>2 DEF SettleInv

\* Polling the channels in any order.
LEMMA PollSentInv ==
  ASSUME SettleInv, NEW f \in Fetches, NEW q \in Requests, PollSent(f, q)
  PROVE  SettleInv'
<1>1. sentQ[f][q] > 0
  BY DEF PollSent, Queued
<1>2. ActiveInv'
  BY DEF PollSent, SettleInv, ActiveInv
<1>3. sentQ' \in [Fetches -> [Requests -> 0..2]]
  BY <1>1 DEF PollSent, SettleInv, SettleTypeOK
<1>4. pending' \in [Fetches -> SUBSET Requests] /\ unseen' \in [Fetches -> SUBSET Requests]
  <2>1. CASE q \in unseen[f]
    <3>1. unseen' = [unseen EXCEPT ![f] = @ \ {q}] /\ pending' = pending
      BY <2>1 DEF PollSent, on_sent
    <3> QED
      BY <3>1 DEF SettleInv, SettleTypeOK
  <2>2. CASE q \notin unseen[f]
    <3>1. pending' = [pending EXCEPT ![f] = @ \cup {q}] /\ unseen' = unseen
      BY <2>2 DEF PollSent, on_sent
    <3> QED
      BY <3>1 DEF SettleInv, SettleTypeOK
  <2> QED
    BY <2>1, <2>2
<1>5. SettleTypeOK'
  BY <1>3, <1>4 DEF PollSent, Polled, SettleInv, SettleTypeOK
<1>6. ReqInv'
  <2> SUFFICES ASSUME NEW g \in Fetches, NEW r \in Requests PROVE ReqOK(g, r)'
    BY DEF ReqInv
  <2>0. ReqOK(g, r)
    BY DEF SettleInv, ReqInv
  <2>1. UNCHANGED <<net, doneQ>>
    BY DEF PollSent
  <2>2. CASE g = f /\ r = q
    <3>1. sentQ'[f][q] = sentQ[f][q] - 1 /\ sentQ[f][q] \in 1..2
      BY <1>1 DEF PollSent, SettleInv, SettleTypeOK
    <3>2. \/ q \in unseen[f] /\ q \notin unseen'[f] /\ pending'[f] = pending[f]
          \/ q \notin unseen[f] /\ q \in pending'[f] /\ unseen'[f] = unseen[f]
      BY DEF PollSent, on_sent, SettleInv, SettleTypeOK
    <3>3. net[f][q] \in {"idle", "flying", "resent", "complete"}
      BY DEF SettleInv, SettleTypeOK
    <3> QED
      BY <2>0, <2>1, <2>2, <3>1, <3>2, <3>3 DEF ReqOK, IdleReq, FlyingReq, PairedReq
  <2>3. CASE ~(g = f /\ r = q)
    <3>1. /\ sentQ'[g][r] = sentQ[g][r]
          /\ r \in pending'[g] <=> r \in pending[g]
          /\ r \in unseen'[g] <=> r \in unseen[g]
      BY <2>3 DEF PollSent, on_sent, SettleInv, SettleTypeOK
    <3> QED
      BY <2>0, <2>1, <3>1 DEF ReqOK, IdleReq, FlyingReq, PairedReq
  <2> QED
    BY <2>2, <2>3
<1> QED
  BY <1>2, <1>5, <1>6 DEF SettleInv

\* Reading a completion takes the request out of the active set.
LEMMA PollCompletionInv ==
  ASSUME SettleInv, NEW f \in Fetches, NEW q \in Requests, PollCompletion(f, q)
  PROVE  SettleInv'
<1>1. doneQ[f][q] # "none"
  BY DEF PollCompletion, SettleInv, SettleTypeOK, Branches
<1>2. SettleTypeOK' /\ ActiveInv'
  <2>1. pending' \in [Fetches -> SUBSET Requests] /\ unseen' \in [Fetches -> SUBSET Requests]
    <3>1. CASE q \in pending[f]
      <4>1. pending' = [pending EXCEPT ![f] = @ \ {q}] /\ unseen' = unseen
        BY <3>1 DEF PollCompletion, on_completion
      <4> QED
        BY <4>1 DEF SettleInv, SettleTypeOK
    <3>2. CASE q \notin pending[f]
      <4>1. unseen' = [unseen EXCEPT ![f] = @ \cup {q}] /\ pending' = pending
        BY <3>2 DEF PollCompletion, on_completion
      <4> QED
        BY <4>1 DEF SettleInv, SettleTypeOK
    <3> QED
      BY <3>1, <3>2
  <2> QED
    BY <2>1 DEF PollCompletion, Polled, SettleInv, SettleTypeOK, ActiveInv, Completions
<1>3. ReqInv'
  <2> SUFFICES ASSUME NEW g \in Fetches, NEW r \in Requests PROVE ReqOK(g, r)'
    BY DEF ReqInv
  <2>0. ReqOK(g, r)
    BY DEF SettleInv, ReqInv
  <2>1. UNCHANGED <<net, sentQ>>
    BY DEF PollCompletion
  <2>2. CASE g = f /\ r = q
    <3>1. doneQ'[f][q] = "none" /\ sentQ[f][q] \in 0..2
      BY DEF PollCompletion, SettleInv, SettleTypeOK
    <3>2. \/ q \in pending[f] /\ q \notin pending'[f] /\ unseen'[f] = unseen[f]
          \/ q \notin pending[f] /\ q \in unseen'[f] /\ pending'[f] = pending[f]
      BY DEF PollCompletion, on_completion, SettleInv, SettleTypeOK
    <3>3. net[f][q] \in {"idle", "flying", "resent", "complete"}
      BY DEF SettleInv, SettleTypeOK
    <3> QED
      BY <1>1, <2>0, <2>1, <2>2, <3>1, <3>2, <3>3 DEF ReqOK, IdleReq, FlyingReq, PairedReq
  <2>3. CASE ~(g = f /\ r = q)
    <3>1. /\ doneQ'[g][r] = doneQ[g][r]
          /\ r \in pending'[g] <=> r \in pending[g]
          /\ r \in unseen'[g] <=> r \in unseen[g]
      BY <2>3 DEF PollCompletion, on_completion, SettleInv, SettleTypeOK
    <3> QED
      BY <2>0, <2>1, <3>1 DEF ReqOK, IdleReq, FlyingReq, PairedReq
  <2> QED
    BY <2>2, <2>3
<1> QED
  BY <1>2, <1>3 DEF SettleInv

\* A stream that ended turns off its branch of the select only.
LEMMA PollClosedInv ==
  ASSUME SettleInv, NEW f \in Fetches, NEW b \in Branches, PollClosed(f, b)
  PROVE  SettleInv'
  BY DEF PollClosed, Polled, SettleInv, SettleTypeOK, ActiveInv, ReqInv, ReqOK, IdleReq, FlyingReq, PairedReq,
         Branches, Completions, wire, tracker

\* Going to sleep changes nothing the invariant speaks of.
LEMMA ParkInv ==
  ASSUME SettleInv, NEW f \in Fetches, Park(f)
  PROVE  SettleInv'
  BY DEF Park, SettleInv, SettleTypeOK, ActiveInv, ReqInv, ReqOK, IdleReq, FlyingReq, PairedReq,
         Branches, Completions, wire, tracker

\* Every step of the settle preserves the invariant.
LEMMA SettleMoveInv ==
  ASSUME SettleInv, NEW f \in Fetches, SettleMove(f)
  PROVE  SettleInv'
<1>1. CASE UNCHANGED settle
  BY <1>1 DEF settle, SettleInv, SettleTypeOK, ActiveInv, ReqInv, ReqOK, IdleReq, FlyingReq, PairedReq
<1>2. CASE Drain(f)
  BY <1>2, PollSentInv, PollCompletionInv, PollClosedInv, ParkInv DEF Drain
<1> QED
  BY <1>1, <1>2, SubscribeInv, ForgetInv, DroppedInv, SendsInv, CompletesInv DEF SettleMove

\* A page whose requests have all completed leaves no phantom entry, but for
\* redirected requests.
LEMMA DrainedFromInv == SettleInv => DrainedIsQuiet
  BY DEF SettleInv, SettleTypeOK, ReqInv, ReqOK, IdleReq, PairedReq, DrainedIsQuiet, AllAnswered

\* The quiet window closes over no request in flight that was polled.
LEMMA QuietFromInv ==
  ASSUME SettleInv, NEW f \in Fetches, QuietWindow(f)
  PROVE  KnownInFlight(f) = {}
<1> SUFFICES ASSUME NEW q \in Requests, q \in KnownInFlight(f) PROVE q \in pending[f]
  BY DEF KnownInFlight, QuietWindow, is_quiet
<1>1. sentQ[f][q] \in 0..2
  BY DEF SettleInv, SettleTypeOK, KnownInFlight
<1>2. FlyingReq(f, q)
  BY DEF SettleInv, ReqInv, ReqOK
<1> QED
  BY <1>1, <1>2 DEF KnownInFlight, FlyingReq

-----------------------------------------------------------------------------
(* The layers.                                                             *)

Results == Heard \cup Errors \cup {"page", "dropped"}

\* The conjuncts of TypeOK that End and Goto set, those of the history, and
\* those no fetch writes.
ControlOK ==
  /\ pc \in [Fetches -> Steps]
  /\ attempt \in [Fetches -> 0..MaxRetries]
  /\ lastStatus \in [Fetches -> Statuses \cup {"none"}]
  /\ lastError \in [Fetches -> {"none", "transport"}]
  /\ holders \subseteq Fetches
  /\ helper \in [Fetches -> {"none", "obscura", "chrome", "crashed"}]
  /\ result \in [Fetches -> Results \cup {"none"}]
  /\ idle \in [Fetches -> {"none", "reached", "missed"}]

HistoryOK ==
  /\ sends \in [Fetches -> Nat]
  /\ heard \in [Fetches -> Heard \cup {"none", "200"}]
  /\ only403 \in [Fetches -> BOOLEAN]

ConfigOK ==
  /\ strategy \in Strategies /\ pinned \in BOOLEAN /\ ignoreWaf \in BOOLEAN
  /\ cancelled \in BOOLEAN

\* A fetch sleeps only when it has an attempt left.
BackoffInv == \A f \in Fetches : pc[f] = "backoff" => attempt[f] < MaxRetries

\* The subscriptions live between new_page and the end of the settle.
StreamInv == \A f \in Fetches : streams[f] # "off" => pc[f] \in {"goto", "settle"}

Inv == ControlOK /\ HistoryOK /\ ConfigOK /\ BackoffInv /\ StreamInv /\ SettleInv

\* The wreq layer's own steps.
WreqStep(f) ==
  \/ Send(f) \/ TransportFails(f) \/ (\E s \in Statuses : ReplyArrives(f, s))
  \/ SnippetRead(f) \/ RotatedArrives(f) \/ Retry(f) \/ BuildPage(f)

\* The steps of the other layers and of the surroundings.
OtherStep(f) ==
  \/ Call(f) \/ Acquire(f) \/ SpawnObscura(f) \/ ObscuraEnds(f)
  \/ Launch(f) \/ OpenPage(f) \/ Navigate(f) \/ SettlePolls(f) \/ SettleEnds(f)
  \/ Content(f) \/ Close(f) \/ PageTraffic(f) \/ ChromeDies(f) \/ Drop(f)

\* The steps, sorted by whether they belong to the wreq retry loop.
LEMMA NextCases ==
  Next <=> (\E f \in Fetches : WreqStep(f) \/ OtherStep(f)) \/ Cancel \/ AllReturned
  BY DEF Next, Task, WreqStep, OtherStep

-----------------------------------------------------------------------------
(* What a step does to the control of its fetch.                           *)

Returns(f) == \E r \in Results : End(f, r)

Advances(f, steps) == \E s \in steps : Goto(f, s) /\ UNCHANGED helper

\* A wreq step ends the fetch, or stays in the layer, or lets Hybrid escalate.
LEMMA WreqShape ==
  ASSUME ControlOK, NEW f \in Fetches, WreqStep(f)
  PROVE  /\ pc[f] \in WreqSteps /\ UNCHANGED <<config, cancelled>>
         /\ \/ Returns(f)
            \/ Advances(f, WreqSteps)
            \/ strategy = "Hybrid" /\ Advances(f, {"obscura"})
<1> DEFINE Shape == \/ Returns(f)
                    \/ Advances(f, WreqSteps)
                    \/ strategy = "Hybrid" /\ Advances(f, {"obscura"})
<1>1. ASSUME NEW st, NEW er \in {"none", "transport"}, NextAttempt(f, st, er),
             st \in Failures \/ er = "transport"
      PROVE  Shape
  <2>1. Surfaced(st, er) \in Results
    BY <1>1 DEF Surfaced, Results, Heard
  <2> QED
    BY <1>1, <2>1 DEF NextAttempt, Returns, Advances, WreqSteps
<1>2. ASSUME NEW st, NEW er \in {"none", "transport"}, StatusEnds(f, st, er)
      PROVE  Shape
  <2>1. st \in Failures /\ st \in Results
    BY <1>2 DEF StatusEnds, Failures, Statuses, Results, Heard
  <2> QED
    BY <1>1, <1>2, <2>1 DEF StatusEnds, Returns
<1>3. ASSUME NEW st, NEW er \in {"none", "transport"}, Inspected(f, st, er)
      PROVE  Shape
  BY <1>2, <1>3 DEF Inspected, Advances, WreqSteps
<1>4. CASE Send(f)
  BY <1>4 DEF Send, Advances, WreqSteps
<1>5. CASE TransportFails(f)
  BY <1>1, <1>5 DEF TransportFails, Returns, Results, Heard, WreqSteps
<1>6. CASE \E s \in Statuses : ReplyArrives(f, s)
  BY <1>3, <1>6 DEF ReplyArrives, ErrorOnReply, Returns, Advances, Results, Errors, WreqSteps
<1>7. CASE SnippetRead(f)
  BY <1>3, <1>7 DEF SnippetRead, ControlOK, Returns, Results, Heard, Errors, WreqSteps
<1>8. CASE RotatedArrives(f)
  BY <1>2, <1>8 DEF RotatedArrives, RotatedStatus, ControlOK, Returns, Advances, Results, Heard, WreqSteps
<1>9. CASE Retry(f)
  BY <1>9 DEF Retry, Advances, WreqSteps
<1>10. CASE BuildPage(f)
  BY <1>10 DEF BuildPage, evaluate_fetch, check_resources, Returns, Advances, Results, Heard, Errors, WreqSteps
<1> QED
  BY <1>4, <1>5, <1>6, <1>7, <1>8, <1>9, <1>10 DEF WreqStep
-----------------------------------------------------------------------------
(* Types.                                                                  *)

\* A fetch that returns leaves the control state well typed.
LEMMA EndControl ==
  ASSUME ControlOK, BackoffInv, NEW f \in Fetches, Returns(f)
  PROVE  ControlOK' /\ BackoffInv'
<1>1. PICK r \in Results : End(f, r)
  BY DEF Returns
<1>2. ControlOK'
  BY <1>1, MaxRetriesAssumption DEF ControlOK, End, ForgetLoop, Steps
<1>3. BackoffInv'
  BY <1>1 DEF ControlOK, BackoffInv, End, ForgetLoop
<1> QED
  BY <1>2, <1>3

\* A step that only moves pc keeps the types of what it leaves alone.
LEMMA AdvanceControl ==
  ASSUME ControlOK, NEW f \in Fetches, NEW s \in Steps, Goto(f, s), UNCHANGED helper,
         attempt' \in [Fetches -> 0..MaxRetries],
         lastStatus' \in [Fetches -> Statuses \cup {"none"}],
         lastError' \in [Fetches -> {"none", "transport"}]
  PROVE  ControlOK'
  BY DEF ControlOK, Goto

\* The retry loop keeps the control state well typed.
LEMMA WreqControl ==
  ASSUME ControlOK, BackoffInv, NEW f \in Fetches, WreqStep(f)
  PROVE  ControlOK' /\ BackoffInv'
<1>1. CASE Returns(f)
  BY <1>1, EndControl
<1>2. CASE ~Returns(f)
  <2>1. PICK s \in WreqSteps \cup {"obscura"} : Goto(f, s) /\ UNCHANGED helper
    BY <1>2, WreqShape DEF Advances
  <2>2. s \in Steps /\ \A r \in Results : ~End(f, r)
    BY <1>2 DEF Steps, Returns
  <2> DEFINE LoopOK == /\ attempt' \in [Fetches -> 0..MaxRetries]
                       /\ lastStatus' \in [Fetches -> Statuses \cup {"none"}]
                       /\ lastError' \in [Fetches -> {"none", "transport"}]
             Pause == pc'[f] = "backoff" => attempt'[f] < MaxRetries
  <2>3. \A w : pc' = [pc EXCEPT ![f] = w] => pc'[f] = w
    BY DEF ControlOK
  <2>4. ASSUME NEW st \in Statuses \cup {"none"}, NEW er \in {"none", "transport"},
               NextAttempt(f, st, er), st \in Failures \/ er = "transport"
        PROVE  LoopOK /\ Pause /\ attempt' = attempt
    <3>1. Surfaced(st, er) \in Results
      BY <2>4 DEF Surfaced, Results, Heard
    <3> QED
      BY <2>2, <2>4, <3>1 DEF NextAttempt, ControlOK
  <2>5. ASSUME NEW st \in Statuses \cup {"none"}, NEW er \in {"none", "transport"}, StatusEnds(f, st, er)
        PROVE  LoopOK /\ Pause /\ attempt' = attempt
    BY <2>2, <2>4, <2>5 DEF StatusEnds, Failures, Statuses, Results, Heard
  <2>6. ASSUME NEW st \in Statuses \cup {"none"}, NEW er \in {"none", "transport"}, Inspected(f, st, er)
        PROVE  LoopOK /\ Pause /\ attempt' = attempt
    <3>1. CASE StatusEnds(f, st, er)
      BY <2>5, <3>1
    <3>2. CASE ~StatusEnds(f, st, er)
      BY <2>3, <2>6, <3>2 DEF Inspected, ControlOK, Goto
    <3> QED
      BY <3>1, <3>2
  <2>7. LoopOK /\ Pause
    <3>1. CASE Send(f)
      BY <2>3, <3>1 DEF Send, ControlOK, loop, Goto
    <3>2. CASE TransportFails(f)
      BY <2>2, <2>4, <3>2 DEF TransportFails, ControlOK, Results, Heard
    <3>3. ASSUME NEW st \in Statuses, ReplyArrives(f, st) PROVE LoopOK /\ Pause
      BY <2>2, <2>3, <2>6, <3>3 DEF ReplyArrives, ErrorOnReply, ControlOK, Goto, Results, Errors
    <3>4. CASE SnippetRead(f)
      BY <2>2, <2>6, <3>4 DEF SnippetRead, ControlOK, Results, Heard, Errors
    <3>5. CASE RotatedArrives(f)
      BY <2>2, <2>3, <2>5, <3>5 DEF RotatedArrives, RotatedStatus, ControlOK, Results, Heard, Failures, loop, Goto
    <3>6. CASE Retry(f)
      BY <2>3, <3>6, MaxRetriesAssumption DEF Retry, ControlOK, BackoffInv, Goto
    <3>7. CASE BuildPage(f)
      BY <2>2, <2>3, <3>7, MaxRetriesAssumption DEF BuildPage, evaluate_fetch, check_resources, ForgetLoop, ControlOK,
         Results, Heard, Errors, Goto
    <3> QED
      BY <3>1, <3>2, <3>3, <3>4, <3>5, <3>6, <3>7 DEF WreqStep
  <2>8. ControlOK'
    BY <2>1, <2>2, <2>7, AdvanceControl
  <2>9. \A g \in Fetches \ {f} : attempt'[g] = attempt[g]
    BY DEF WreqStep, Send, TransportFails, ReplyArrives, SnippetRead, RotatedArrives, Retry, BuildPage, evaluate_fetch,
       check_resources, Inspected, RotatedStatus, StatusEnds, NextAttempt, End, ForgetLoop, loop, ControlOK
  <2>10. BackoffInv'
    BY <2>1, <2>7, <2>9 DEF BackoffInv, Goto, ControlOK
  <2> QED
    BY <2>8, <2>10
<1> QED
  BY <1>1, <1>2
\* The other steps end the fetch, leave the control alone, move it along the
\* layers, or move a child process.
LEMMA OtherControl ==
  ASSUME ControlOK, BackoffInv, NEW f \in Fetches, OtherStep(f)
  PROVE  ControlOK' /\ BackoffInv'
<1> DEFINE Frame == /\ pc' \in [Fetches -> Steps]
                    /\ \A g \in Fetches : pc'[g] = "backoff" => pc[g] = "backoff" /\ attempt'[g] = attempt[g]
                    /\ loop' = loop \/ ForgetLoop(f)
                    /\ holders' \subseteq Fetches
                    /\ helper' \in [Fetches -> {"none", "obscura", "chrome", "crashed"}]
                    /\ UNCHANGED result
                    /\ idle' \in [Fetches -> {"none", "reached", "missed"}]
<1>1. CASE Returns(f)
  BY <1>1, EndControl
<1>2. ASSUME Frame PROVE ControlOK' /\ BackoffInv'
  <2>1. /\ attempt' \in [Fetches -> 0..MaxRetries]
        /\ lastStatus' \in [Fetches -> Statuses \cup {"none"}]
        /\ lastError' \in [Fetches -> {"none", "transport"}]
    BY <1>2, MaxRetriesAssumption DEF ControlOK, loop, ForgetLoop
  <2> QED
    BY <1>2, <2>1 DEF ControlOK, BackoffInv
<1>3. ASSUME NEW s \in Steps \ {"backoff"}, Goto(f, s), UNCHANGED loop \/ ForgetLoop(f),
             helper' \in [Fetches -> {"none", "obscura", "chrome", "crashed"}]
      PROVE  Frame
  BY <1>3 DEF ControlOK, Goto, loop, ForgetLoop
<1>4. CASE Call(f)
  BY <1>1, <1>2, <1>3, <1>4 DEF Call, check_resources, ControlOK, Steps, WreqSteps, Returns, Results, Errors
<1>5. CASE Acquire(f)
  <2>1. CASE End(f, "cancelled")
    BY <1>1, <2>1 DEF Returns, Results, Errors
  <2>2. CASE ~End(f, "cancelled")
    BY <1>2, <1>5, <2>2 DEF Acquire, ControlOK, Steps, ChromeSteps, loop
  <2> QED
    BY <2>1, <2>2
<1>6. ASSUME ToChrome(f) PROVE ControlOK' /\ BackoffInv'
  BY <1>1, <1>2, <1>3, <1>6 DEF ToChrome, ControlOK, Steps, ChromeSteps, Returns, Results, Errors
<1>7. CASE SpawnObscura(f)
  <2>1. CASE ToChrome(f)
    BY <1>6, <2>1
  <2>2. CASE ~ToChrome(f)
    BY <1>2, <1>7, <2>2 DEF SpawnObscura, ControlOK, loop
  <2> QED
    BY <2>1, <2>2
<1>8. CASE ObscuraEnds(f)
  BY <1>1, <1>6, <1>8 DEF ObscuraEnds, Returns, Results
<1>9. CASE Launch(f)
  BY <1>1, <1>2, <1>3, <1>9 DEF Launch, ControlOK, Steps, ChromeSteps, Returns, Results, Errors
<1>10. ASSUME NEW s \in Steps \ {"backoff"}, ChromeAnswers(f, s, {"internal", "timeout"})
       PROVE ControlOK' /\ BackoffInv'
  BY <1>1, <1>2, <1>3, <1>10 DEF ChromeAnswers, ControlOK, Returns, Results, Errors
<1>11. CASE OpenPage(f)
  <2>1. CASE ChromeAnswers(f, "goto", {"internal"})
    <3>1. ChromeAnswers(f, "goto", {"internal", "timeout"})
      BY <2>1 DEF ChromeAnswers
    <3> QED
      BY <1>10, <3>1 DEF Steps, ChromeSteps
  <2>2. CASE ~ChromeAnswers(f, "goto", {"internal"})
    BY <1>2, <1>11, <2>2 DEF OpenPage, ControlOK, Steps, ChromeSteps, loop
  <2> QED
    BY <2>1, <2>2
<1>12. CASE Navigate(f)
  BY <1>10, <1>12 DEF Navigate, Steps, ChromeSteps
<1>13. CASE SettlePolls(f)
  BY <1>2, <1>13 DEF SettlePolls, ControlOK, loop
<1>14. CASE SettleEnds(f)
  <2>1. PICK i \in {"none", "reached", "missed"} : idle' = [idle EXCEPT ![f] = i]
    BY <1>14 DEF SettleEnds
  <2> QED
    BY <1>2, <1>14, <2>1 DEF SettleEnds, ControlOK, Steps, ChromeSteps, loop
<1>15. CASE Content(f)
  BY <1>10, <1>15 DEF Content, Steps, ChromeSteps
<1>16. CASE Close(f)
  BY <1>1, <1>16 DEF Close, Returns, Results
<1>17. CASE PageTraffic(f)
  BY <1>2, <1>17 DEF PageTraffic, ControlOK, loop
<1>18. CASE ChromeDies(f)
  BY <1>2, <1>18 DEF ChromeDies, ControlOK, loop
<1>19. CASE Drop(f)
  BY <1>1, <1>19 DEF Drop, Returns, Results
<1> QED
  BY <1>4, <1>5, <1>7, <1>8, <1>9, <1>11, <1>12, <1>13, <1>14, <1>15, <1>16, <1>17, <1>18, <1>19 DEF OtherStep

\* Outside the wreq layer nothing is sent or heard.
LEMMA OtherHistory ==
  ASSUME NEW f \in Fetches, OtherStep(f)
  PROVE  UNCHANGED <<config, cancelled, history>>
  BY DEF OtherStep, Call, Acquire, SpawnObscura, ObscuraEnds, Launch, OpenPage, Navigate, SettlePolls,
     SettleEnds, Content, Close, PageTraffic, ChromeDies, Drop

\* What the loop heard last is a status or a transport failure.
LEMMA HearHistory ==
  ASSUME HistoryOK, NEW f \in Fetches, NEW w \in Heard \cup {"200"}, Hear(f, w)
  PROVE  /\ heard' \in [Fetches -> Heard \cup {"none", "200"}]
         /\ only403' \in [Fetches -> BOOLEAN]
  BY DEF HistoryOK, Hear

\* The retry loop keeps the history of requests well typed.
LEMMA WreqHistory ==
  ASSUME HistoryOK, NEW f \in Fetches, WreqStep(f)
  PROVE  HistoryOK'
<1>1. ASSUME sends' = sends \/ sends' = [sends EXCEPT ![f] = @ + 1],
             UNCHANGED <<heard, only403>> \/ \E w \in Heard \cup {"200"} : Hear(f, w)
      PROVE  HistoryOK'
  BY <1>1, HearHistory DEF HistoryOK
<1>2. ASSUME NEW st, NEW er, Inspected(f, st, er)
      PROVE  sends' = sends \/ sends' = [sends EXCEPT ![f] = @ + 1]
  BY <1>2 DEF Inspected
<1>3. CASE Send(f)
  BY <1>1, <1>3 DEF Send
<1>4. CASE TransportFails(f)
  BY <1>1, <1>4 DEF TransportFails, Heard
<1>5. ASSUME NEW st \in Statuses, ReplyArrives(f, st) PROVE HistoryOK'
  BY <1>1, <1>2, <1>5 DEF ReplyArrives, Heard, Failures, Statuses
<1>6. CASE SnippetRead(f)
  BY <1>1, <1>2, <1>6 DEF SnippetRead, Heard, history
<1>7. CASE RotatedArrives(f)
  BY <1>1, <1>7 DEF RotatedArrives, Heard
<1>8. CASE Retry(f)
  BY <1>1, <1>8 DEF Retry, history
<1>9. CASE BuildPage(f)
  BY <1>1, <1>9 DEF BuildPage, Heard, history
<1> QED
  BY <1>3, <1>4, <1>5, <1>6, <1>7, <1>8, <1>9 DEF WreqStep

-----------------------------------------------------------------------------
(* The settle inside a fetch.                                              *)

\* Every step of a fetch is a step of its settle or leaves it alone.
LEMMA StepIsSettleMove ==
  ASSUME ControlOK, StreamInv, NEW f \in Fetches, WreqStep(f) \/ OtherStep(f)
  PROVE  SettleMove(f)
<1>1. CASE Returns(f)
  BY <1>1 DEF Returns, End, SettleMove
<1>2. CASE \E s : Goto(f, s)
  BY <1>2 DEF Goto, SettleMove
<1>3. CASE WreqStep(f)
  BY <1>1, <1>2, <1>3, WreqShape DEF Advances
<1>4. CASE Call(f)
  BY <1>1, <1>2, <1>4 DEF Call, check_resources, Returns, Results, Errors
<1>5. CASE Acquire(f)
  BY <1>1, <1>5 DEF Acquire, Returns, Results, Errors, SettleMove
<1>6. CASE SpawnObscura(f) \/ ObscuraEnds(f)
  BY <1>1, <1>2, <1>6 DEF SpawnObscura, ObscuraEnds, ToChrome, Returns, Results, Errors, SettleMove
<1>7. CASE Launch(f) \/ Navigate(f) \/ Content(f) \/ Close(f) \/ Drop(f)
  BY <1>1, <1>2, <1>7 DEF Launch, Navigate, Content, Close, Drop, ChromeAnswers, Returns, Results, Errors
<1>8. CASE OpenPage(f)
  <2>1. streams[f] = "off"
    BY <1>8 DEF OpenPage, StreamInv
  <2> QED
    BY <1>1, <1>2, <1>8, <2>1 DEF OpenPage, ChromeAnswers, Returns, Results, Errors, SettleMove
<1>9. CASE SettlePolls(f) \/ SettleEnds(f) \/ PageTraffic(f) \/ ChromeDies(f)
  BY <1>9 DEF SettlePolls, SettleEnds, PageTraffic, ChromeDies, SettleMove
<1> QED
  BY <1>3, <1>4, <1>5, <1>6, <1>7, <1>8, <1>9 DEF OtherStep
\* The streams of a fetch are dropped when its settle or the fetch ends.
LEMMA StreamStep ==
  ASSUME ControlOK, StreamInv, SettleTypeOK, NEW f \in Fetches, WreqStep(f) \/ OtherStep(f)
  PROVE  StreamInv'
<1>1. \A g \in Fetches \ {f} : streams'[g] = streams[g]
  BY StepIsSettleMove DEF SettleTypeOK, SettleMove, Subscribe, ForgetSettle, BrowserSends, BrowserCompletes,
     SendersDropped, Drain, PollSent, PollCompletion, PollClosed, Park, settle
<1>2. \A g \in Fetches \ {f} : pc'[g] = pc[g]
  <2>1. CASE Returns(f)
    BY <2>1 DEF Returns, End, ControlOK
  <2>2. CASE \E s : Goto(f, s)
    BY <2>2 DEF Goto, ControlOK
  <2>3. CASE WreqStep(f)
    BY <2>1, <2>2, <2>3, WreqShape DEF Advances
  <2>4. CASE OtherStep(f)
    BY <2>1, <2>2, <2>4 DEF OtherStep, Call, check_resources, Acquire, SpawnObscura, ObscuraEnds, ToChrome, Launch,
       OpenPage, Navigate, SettlePolls, SettleEnds, Content, Close, PageTraffic, ChromeDies, Drop, ChromeAnswers,
       Returns, Results, Errors, ControlOK
  <2> QED
    BY <2>3, <2>4
<1>3. streams'[f] # "off" => pc'[f] \in {"goto", "settle"}
  <2>1. CASE Returns(f)
    BY <2>1 DEF Returns, End, ForgetSettle, SettleTypeOK
  <2>2. CASE (\E s : Goto(f, s)) /\ pc[f] \notin {"goto", "settle"}
    BY <2>2 DEF Goto, settle, StreamInv
  <2>3. CASE Goto(f, "settle")
    BY <2>3 DEF Goto, ControlOK
  <2>4. CASE WreqStep(f)
    BY <2>1, <2>2, <2>4, WreqShape DEF Advances, WreqSteps
  <2>5. CASE Call(f) \/ SpawnObscura(f) \/ ObscuraEnds(f)
    BY <2>1, <2>2, <2>5 DEF Call, check_resources, SpawnObscura, ObscuraEnds, ToChrome, Returns, Results, Errors, settle,
       StreamInv
  <2>6. CASE Acquire(f)
    BY <2>1, <2>6 DEF Acquire, Returns, Results, Errors, settle, StreamInv
  <2>7. CASE Launch(f) \/ Navigate(f) \/ Content(f) \/ Close(f) \/ Drop(f)
    BY <2>1, <2>2, <2>3, <2>7 DEF Launch, Navigate, Content, Close, Drop, ChromeAnswers, Returns, Results, Errors
  <2>8. CASE OpenPage(f)
    BY <2>1, <2>2, <2>8 DEF OpenPage, ChromeAnswers, Returns, Results, Errors, ControlOK
  <2>9. CASE SettlePolls(f)
    BY <2>9 DEF SettlePolls
  <2>10. CASE SettleEnds(f)
    BY <2>10 DEF SettleEnds, ForgetSettle, SettleTypeOK
  <2>11. CASE PageTraffic(f)
    BY <2>11 DEF PageTraffic
  <2>12. CASE ChromeDies(f)
    BY <2>12 DEF ChromeDies, SendersDropped, SettleTypeOK, StreamInv
  <2> QED
    BY <2>4, <2>5, <2>6, <2>7, <2>8, <2>9, <2>10, <2>11, <2>12 DEF OtherStep
<1> QED
  BY <1>1, <1>2, <1>3 DEF StreamInv

-----------------------------------------------------------------------------
(* The invariant of every fetch.                                           *)

\* No fetch has begun.
LEMMA InitInv == Init => Inv
<1> SUFFICES ASSUME Init PROVE Inv
  OBVIOUS
<1>1. ControlOK /\ BackoffInv
  BY MaxRetriesAssumption DEF Init, ControlOK, BackoffInv, Steps
<1>2. HistoryOK /\ ConfigOK
  BY DEF Init, HistoryOK, ConfigOK
<1>3. SettleInv /\ StreamInv
  BY SettleInitInv DEF Init, SettleInit, StreamInv
<1> QED
  BY <1>1, <1>2, <1>3 DEF Inv

\* Every step of a fetch, and a cancellation, keeps the invariant.
LEMMA StepInv ==
  ASSUME Inv, [Next]_vars
  PROVE  Inv'
<1>1. ASSUME NEW f \in Fetches, WreqStep(f) \/ OtherStep(f)
      PROVE  Inv'
  <2>1. ControlOK' /\ BackoffInv'
    BY <1>1, WreqControl, OtherControl DEF Inv
  <2>2. HistoryOK'
    BY <1>1, WreqHistory, OtherHistory DEF Inv, HistoryOK, history
  <2>3. UNCHANGED <<config, cancelled>>
    BY <1>1, WreqShape, OtherHistory DEF Inv
  <2>4. ConfigOK'
    BY <2>3 DEF Inv, ConfigOK, config
  <2>5. StreamInv'
    BY <1>1, StreamStep DEF Inv, SettleInv
  <2>6. SettleInv'
    BY <1>1, StepIsSettleMove, SettleMoveInv DEF Inv
  <2> QED
    BY <2>1, <2>2, <2>4, <2>5, <2>6 DEF Inv
<1>2. CASE Cancel \/ UNCHANGED vars
  <2>1. /\ UNCHANGED <<strategy, pinned, ignoreWaf, pc, attempt, lastStatus, lastError, holders, helper, result>>
        /\ UNCHANGED <<sends, heard, only403, idle, settle>>
        /\ cancelled' \in {TRUE, cancelled}
    BY <1>2 DEF Cancel, vars, config, loop, history
  <2>2. ControlOK' /\ BackoffInv' /\ HistoryOK' /\ ConfigOK'
    BY <2>1 DEF Inv, ControlOK, BackoffInv, HistoryOK, ConfigOK
  <2>3. StreamInv'
    BY <2>1 DEF Inv, StreamInv, settle
  <2>4. SettleInv'
    <3>1. CASE Fetches = {}
      BY <2>1, <3>1 DEF Inv, settle, SettleInv, SettleTypeOK, ActiveInv, ReqInv
    <3>2. CASE Fetches # {}
      BY <2>1, <3>2, SettleMoveInv DEF Inv, SettleMove
    <3> QED
      BY <3>1, <3>2
  <2> QED
    BY <2>2, <2>3, <2>4 DEF Inv
<1> QED
  BY <1>1, <1>2, NextCases DEF AllReturned

\* The download layers keep their control and history well typed, a backoff leaves
\* attempts to spend, and a page's event streams live only while Chrome has the page
\* (FetchRouter::fetch and the downloaders below it).
THEOREM Invariant == Spec => []Inv
  BY InitInv, StepInv, PTL DEF Spec

\* The state of the download layers is well typed: attempt stays within
\* 0..max_retries, and a request is announced at most twice.
THEOREM TypeCorrect == Spec => []TypeOK
<1>1. Inv => TypeOK
  BY DEF Inv, ControlOK, HistoryOK, ConfigOK, SettleInv, TypeOK, Results
<1> QED
  BY <1>1, Invariant, PTL

\* In whatever order select! polls the channels, a page whose requests have
\* all completed leaves no phantom request in the tracker.
THEOREM DrainedIsAlwaysQuiet == Spec => []DrainedIsQuiet
<1>1. Inv => DrainedIsQuiet
  BY DrainedFromInv DEF Inv
<1> QED
  BY <1>1, Invariant, PTL

\* idle_reached is reported over a live browser only when no request is in
\* flight that drain_until_quiet polled the announcement of.
THEOREM ReachedMeansIdle == Spec => QuietMeansIdle
<1> DEFINE Reached(f) == idle'[f] = "reached" /\ idle[f] # "reached" /\ streams[f] = "open"
<1>1. ASSUME Inv, Next, NEW f \in Fetches, Reached(f)
      PROVE  QuietWindow(f)
  <2>1. ASSUME NEW g \in Fetches, Returns(g) \/ \E s : Goto(g, s) PROVE FALSE
    BY <1>1, <2>1 DEF Returns, End, Goto, Inv, ControlOK
  <2>2. ASSUME NEW g \in Fetches, WreqStep(g) PROVE FALSE
    BY <1>1, <2>1, <2>2, WreqShape DEF Inv, Advances
  <2>3. ASSUME NEW g \in Fetches, OtherStep(g) PROVE SettleEnds(g)
    BY <1>1, <2>1, <2>3 DEF OtherStep, Call, check_resources, Acquire, SpawnObscura, ObscuraEnds, ToChrome, Launch,
       OpenPage, Navigate, SettlePolls, Content, Close, PageTraffic, ChromeDies, Drop, ChromeAnswers, Returns,
       Results, Errors
  <2>4. ~Cancel /\ ~AllReturned
    BY <1>1 DEF Cancel, AllReturned, vars
  <2>5. PICK g \in Fetches : SettleEnds(g)
    BY <1>1, <2>2, <2>3, <2>4, NextCases
  <2>6. g = f
    BY <1>1, <2>5 DEF SettleEnds, Inv, ControlOK
  <2> QED
    BY <1>1, <2>5, <2>6 DEF SettleEnds, Inv, ControlOK
<1>2. ASSUME Inv, Next
      PROVE  \A f \in Fetches : Reached(f) => KnownInFlight(f) = {}
  BY <1>1, <1>2, QuietFromInv DEF Inv
<1>3. Inv /\ [Next]_vars =>
        [\A f \in Fetches : Reached(f) => KnownInFlight(f) = {}]_vars
  BY <1>2
<1> QED
  BY <1>3, Invariant, PTL DEF Spec, QuietMeansIdle
-----------------------------------------------------------------------------
(* Children and permits.                                                   *)

\* Where a step leaves pc[f], helper[f] and holders: it ends the fetch, keeps
\* to the wreq layer, or takes one step along the Chrome path.
HeldMove(f) ==
  \/ /\ pc' = [pc EXCEPT ![f] = "done"]
     /\ helper' = [helper EXCEPT ![f] = "none"] /\ holders' = holders \ {f}
  \/ /\ pc[f] \in {"new"} \cup WreqSteps /\ strategy # "Full" /\ UNCHANGED <<helper, holders>>
     /\ \E s \in WreqSteps \cup {"obscura"} : pc' = [pc EXCEPT ![f] = s]
  \/ /\ pc[f] = "new" /\ strategy = "Full" /\ UNCHANGED <<helper, holders>>
     /\ pc' = [pc EXCEPT ![f] = "permit"]
  \/ /\ pc[f] = "permit" /\ Cardinality(holders) < Permits /\ UNCHANGED helper
     /\ holders' = holders \cup {f} /\ pc' = [pc EXCEPT ![f] = "launch"]
  \/ pc[f] = "obscura" /\ helper' = [helper EXCEPT ![f] = "obscura"] /\ UNCHANGED <<pc, holders>>
  \/ /\ pc[f] = "obscura" /\ helper' = [helper EXCEPT ![f] = "none"] /\ UNCHANGED holders
     /\ pc' = [pc EXCEPT ![f] = "launch"]
  \/ /\ pc[f] = "launch" /\ helper' = [helper EXCEPT ![f] = "chrome"] /\ UNCHANGED holders
     /\ pc' = [pc EXCEPT ![f] = "open"]
  \/ /\ pc[f] \in ChromeSteps \ {"launch"} /\ UNCHANGED <<helper, holders>>
     /\ \E s \in ChromeSteps \ {"launch"} : pc' = [pc EXCEPT ![f] = s]
  \/ helper[f] = "chrome" /\ helper' = [helper EXCEPT ![f] = "crashed"] /\ UNCHANGED <<pc, holders>>
  \/ UNCHANGED <<pc, helper, holders>>

\* Who may hold a permit, and which fetches are in which layer.
LayerInv ==
  /\ strategy = "Full" => /\ holders = {f \in Fetches : pc[f] \in ChromeSteps}
                          /\ \A f \in Fetches : pc[f] \notin WreqSteps \cup {"obscura"}
  /\ strategy # "Full" => /\ holders = {}
                          /\ \A f \in Fetches : pc[f] # "permit"
  /\ Cardinality(holders) <= Permits

HeldInv == LayerInv /\ ChildOwned

\* What each step does with permits and child processes.
LEMMA StepIsHeldMove ==
  ASSUME Inv, LayerInv, NEW f \in Fetches, WreqStep(f) \/ OtherStep(f)
  PROVE  HeldMove(f) /\ UNCHANGED strategy
<1>0. ControlOK /\ strategy \in {"Static", "Hybrid", "Full"}
  BY StrategiesAssumption DEF Inv, ConfigOK
<1>1. UNCHANGED strategy
  BY <1>0, WreqShape, OtherHistory DEF config
<1>2. CASE Returns(f)
  BY <1>1, <1>2 DEF Returns, End, HeldMove
<1>3. CASE WreqStep(f)
  <2>1. pc[f] \in WreqSteps /\ strategy # "Full"
    BY <1>0, <1>3, WreqShape DEF LayerInv
  <2> QED
    BY <1>0, <1>1, <1>2, <1>3, <2>1, WreqShape DEF Advances, Goto, HeldMove
<1>4. CASE Call(f)
  BY <1>0, <1>1, <1>2, <1>4 DEF Call, check_resources, Goto, WreqSteps, Returns, Results, Errors, HeldMove
<1>5. CASE Acquire(f)
  BY <1>1, <1>2, <1>5 DEF Acquire, Returns, Results, Errors, HeldMove
<1>6. CASE SpawnObscura(f) \/ ObscuraEnds(f)
  BY <1>1, <1>2, <1>6 DEF SpawnObscura, ObscuraEnds, ToChrome, Goto, Returns, Results, Errors, HeldMove
<1>7. CASE Launch(f)
  BY <1>1, <1>2, <1>7 DEF Launch, Goto, Returns, Results, Errors, HeldMove
<1>8. CASE OpenPage(f) \/ Navigate(f) \/ Content(f)
  <2>1. pc[f] \in ChromeSteps \ {"launch"} /\ {"goto", "settle", "close"} \subseteq ChromeSteps \ {"launch"}
    BY <1>8 DEF OpenPage, Navigate, Content, ChromeSteps
  <2> QED
    BY <1>1, <1>2, <1>8, <2>1 DEF OpenPage, Navigate, Content, ChromeAnswers, Goto, Returns, Results, Errors, HeldMove
<1>9. CASE SettleEnds(f)
  BY <1>1, <1>9 DEF SettleEnds, ChromeSteps, HeldMove
<1>10. CASE SettlePolls(f) \/ PageTraffic(f) \/ ChromeDies(f)
  BY <1>1, <1>10 DEF SettlePolls, PageTraffic, ChromeDies, HeldMove
<1>11. CASE Close(f) \/ Drop(f)
  BY <1>2, <1>11 DEF Close, Drop, Returns, Results
<1> QED
  BY <1>3, <1>4, <1>5, <1>6, <1>7, <1>8, <1>9, <1>10, <1>11 DEF OtherStep

\* Taking and giving back a permit, by cardinality.
LEMMA HoldersCount ==
  ASSUME holders \subseteq Fetches, Cardinality(holders) <= Permits, NEW f \in Fetches
  PROVE  /\ Cardinality(holders \ {f}) <= Permits
         /\ Cardinality(holders) < Permits => Cardinality(holders \cup {f}) <= Permits
<1>1. IsFiniteSet(holders)
  BY FetchesAssumption, FS_Subset
<1>2. /\ Cardinality(holders) \in Nat
      /\ Cardinality(holders \ {f}) = IF f \in holders THEN Cardinality(holders) - 1 ELSE Cardinality(holders)
      /\ Cardinality(holders \cup {f}) = IF f \in holders THEN Cardinality(holders) ELSE Cardinality(holders) + 1
  BY <1>1, FS_CardinalityType, FS_RemoveElement, FS_AddElement
<1> QED
  BY <1>2, PermitsAssumption

\* Such a move keeps permits and children with the fetch that holds them.
LEMMA HeldMoveInv ==
  ASSUME ControlOK, HeldInv, NEW f \in Fetches, HeldMove(f), UNCHANGED strategy
  PROVE  HeldInv'
<1>1. Cardinality(holders') <= Permits
  BY HoldersCount DEF ControlOK, HeldInv, LayerInv, HeldMove
<1>2. LayerInv'
  <2>1. CASE strategy = "Full"
    <3>1. \A g \in Fetches : g \in holders' <=> pc'[g] \in ChromeSteps
      BY <2>1 DEF ControlOK, HeldInv, LayerInv, HeldMove, WreqSteps, ChromeSteps
    <3>2. \A g \in Fetches : pc'[g] \notin WreqSteps \cup {"obscura"}
      BY <2>1 DEF ControlOK, HeldInv, LayerInv, HeldMove, WreqSteps, ChromeSteps
    <3>3. holders' \subseteq Fetches
      BY DEF ControlOK, HeldMove
    <3> QED
      BY <1>1, <2>1, <3>1, <3>2, <3>3 DEF LayerInv
  <2>2. CASE strategy # "Full"
    BY <1>1, <2>2 DEF ControlOK, HeldInv, LayerInv, HeldMove, WreqSteps, ChromeSteps
  <2> QED
    BY <2>1, <2>2
<1>3. ChildOwned'
  BY DEF ControlOK, HeldInv, ChildOwned, HeldMove, WreqSteps, ChromeSteps
<1> QED
  BY <1>2, <1>3 DEF HeldInv

\* A permit and a child process belong to a fetch that is at a step which holds them,
\* under every strategy and after every drop of a future (ResourceGovernor, Chrome,
\* ObscuraDownloader).
THEOREM HeldInvariant == Spec => []HeldInv
<1>1. Init => HeldInv
  <2>1. Cardinality({}) = 0
    BY FS_EmptySet
  <2> QED
    BY <2>1, PermitsAssumption DEF Init, HeldInv, LayerInv, ChildOwned, WreqSteps, ChromeSteps
<1>2. ASSUME Inv, HeldInv, [Next]_vars
      PROVE  HeldInv'
  <2>1. ASSUME NEW f \in Fetches, WreqStep(f) \/ OtherStep(f)
        PROVE  HeldInv'
    BY <1>2, <2>1, StepIsHeldMove, HeldMoveInv DEF Inv, HeldInv
  <2>2. CASE Cancel \/ UNCHANGED vars
    BY <1>2, <2>2 DEF Cancel, vars, config, HeldInv, LayerInv, ChildOwned
  <2> QED
    BY <1>2, <2>1, <2>2, NextCases DEF AllReturned
<1> QED
  BY <1>1, <1>2, Invariant, PTL DEF Spec

\* Full never runs more Chromes than there are permits, and no error, timeout,
\* cancellation or dropped future leaks a permit, for any number of fetches
\* and permits.
THEOREM PermitsNeverLeak == Spec => []PermitsMatchChromes
<1>1. HeldInv => PermitsMatchChromes
  BY DEF HeldInv, LayerInv, PermitsMatchChromes
<1> QED
  BY <1>1, HeldInvariant, PTL

\* No child process outlives the fetch that started it.
THEOREM ChildrenAreOwned == Spec => []ChildOwned
<1>1. HeldInv => ChildOwned
  BY DEF HeldInv
<1> QED
  BY <1>1, HeldInvariant, PTL
-----------------------------------------------------------------------------
(* Retries and what they report.                                           *)

\* How many requests a fetch has made, by where it is in fetch_inner: a
\* second attempt means something other than 403 was heard.
BudgetOK(f) ==
  /\ sends[f] <= MaxRetries + 2
  /\ only403[f] => sends[f] <= 2
  /\ pc[f] = "new" => sends[f] = 0 /\ attempt[f] = 0
  /\ pc[f] = "send" => sends[f] <= attempt[f] + 1
  /\ pc[f] = "send" /\ attempt[f] = 0 => sends[f] = 0
  /\ pc[f] \in {"reply", "snippet"} => sends[f] <= attempt[f] + 2
  /\ pc[f] \in {"reply", "snippet"} /\ attempt[f] = 0 => sends[f] = 1
  /\ pc[f] \in {"send", "reply", "snippet"} /\ attempt[f] > 0 => ~only403[f]
  /\ pc[f] = "snippet" /\ lastStatus[f] # "403" => ~only403[f]
  /\ pc[f] = "rotated" => attempt[f] = 0 /\ sends[f] = 2
  /\ pc[f] = "backoff" => sends[f] <= attempt[f] + 2 /\ ~only403[f]

\* last_status and last_error follow what was heard while they are in use.
ToldOK(f) ==
  /\ result[f] \in Heard => result[f] = heard[f]
  /\ pc[f] # "done" => result[f] = "none"
  /\ pc[f] = "snippet" => lastStatus[f] = heard[f] /\ lastError[f] = "none"
  /\ pc[f] = "rotated" => lastError[f] = "none"

RetryInv == \A f \in Fetches : BudgetOK(f) /\ ToldOK(f)

\* A step leaves the other fetches alone.
Same(g) ==
  /\ pc'[g] = pc[g] /\ result'[g] = result[g] /\ attempt'[g] = attempt[g]
  /\ lastStatus'[g] = lastStatus[g] /\ lastError'[g] = lastError[g]
  /\ sends'[g] = sends[g] /\ heard'[g] = heard[g] /\ only403'[g] = only403[g]

\* A fetch that does not move keeps its budget and its last failure.
LEMMA SameOK ==
  ASSUME NEW g \in Fetches, BudgetOK(g), ToldOK(g), Same(g)
  PROVE  BudgetOK(g)' /\ ToldOK(g)'
  BY DEF Same, BudgetOK, ToldOK

\* A step of one fetch leaves the others alone.
LEMMA OtherFetches ==
  ASSUME ControlOK, HistoryOK, NEW f \in Fetches, WreqStep(f) \/ OtherStep(f)
  PROVE  \A g \in Fetches \ {f} : Same(g)
<1>1. ASSUME WreqStep(f), NEW g \in Fetches \ {f} PROVE Same(g)
  <2>1. pc'[g] = pc[g] /\ result'[g] = result[g]
    BY <1>1, WreqShape DEF Returns, End, Advances, Goto, ControlOK
  <2>2. attempt'[g] = attempt[g] /\ lastStatus'[g] = lastStatus[g] /\ lastError'[g] = lastError[g]
    <3> DEFINE LoopKept == attempt'[g] = attempt[g] /\ lastStatus'[g] = lastStatus[g] /\ lastError'[g] = lastError[g]
    <3> SUFFICES LoopKept
      OBVIOUS
    <3>1. ASSUME ForgetLoop(f) PROVE LoopKept
      BY <3>1 DEF ForgetLoop, ControlOK
    <3>2. ASSUME NEW st, NEW er, NextAttempt(f, st, er) PROVE LoopKept
      BY <3>1, <3>2 DEF NextAttempt, End, ControlOK
    <3>3. ASSUME NEW st, NEW er, StatusEnds(f, st, er) PROVE LoopKept
      BY <3>1, <3>2, <3>3 DEF StatusEnds, End
    <3>4. ASSUME NEW st, NEW er, Inspected(f, st, er) PROVE LoopKept
      BY <3>3, <3>4 DEF Inspected, ControlOK
    <3>5. CASE UNCHANGED loop
      BY <3>5 DEF loop
    <3> HIDE DEF LoopKept
    <3>6. CASE Send(f) \/ TransportFails(f)
      BY <3>1, <3>2, <3>5, <3>6 DEF Send, TransportFails, End
    <3>7. ASSUME NEW s \in Statuses, ReplyArrives(f, s) PROVE LoopKept
      <4>1. CASE UNCHANGED attempt /\ \E st, er : /\ lastStatus' = [lastStatus EXCEPT ![f] = st]
                                                  /\ lastError' = [lastError EXCEPT ![f] = er]
        BY <4>1 DEF LoopKept, ControlOK
      <4> QED BY <3>1, <3>4, <3>7, <4>1 DEF ReplyArrives, End
    <3>8. CASE SnippetRead(f) \/ RotatedArrives(f)
      BY <3>1, <3>2, <3>3, <3>4, <3>5, <3>8 DEF SnippetRead, RotatedArrives, RotatedStatus, End
    <3>9. CASE Retry(f)
      BY <1>1, <3>9 DEF Retry, LoopKept, ControlOK
    <3>10. CASE BuildPage(f)
      BY <3>1, <3>5, <3>10 DEF BuildPage, evaluate_fetch, check_resources, End
    <3> QED BY <1>1, <3>6, <3>7, <3>8, <3>9, <3>10 DEF WreqStep
  <2>3. sends'[g] = sends[g] /\ heard'[g] = heard[g] /\ only403'[g] = only403[g]
    BY <1>1 DEF WreqStep, Send, TransportFails, ReplyArrives, SnippetRead, RotatedArrives, Retry, BuildPage,
       Inspected, Hear, history, HistoryOK
  <2> QED
    BY <2>1, <2>2, <2>3 DEF Same
<1>2. ASSUME OtherStep(f), NEW g \in Fetches \ {f} PROVE Same(g)
  <2>1. pc'[g] = pc[g] /\ result'[g] = result[g]
    BY <1>2 DEF OtherStep, Call, check_resources, Acquire, SpawnObscura, ObscuraEnds, ToChrome, Launch, OpenPage,
       Navigate, SettlePolls, SettleEnds, Content, Close, PageTraffic, ChromeDies, Drop, ChromeAnswers, End, Goto, ControlOK
  <2>2. attempt'[g] = attempt[g] /\ lastStatus'[g] = lastStatus[g] /\ lastError'[g] = lastError[g]
    BY <1>2 DEF OtherStep, Call, check_resources, Acquire, SpawnObscura, ObscuraEnds, ToChrome, Launch, OpenPage,
       Navigate, SettlePolls, SettleEnds, Content, Close, PageTraffic, ChromeDies, Drop, ChromeAnswers, End, ForgetLoop,
       loop, ControlOK
  <2> QED
    BY <1>2, <2>1, <2>2, OtherHistory DEF Same, history
<1> QED
  BY <1>1, <1>2

\* A fetch that ends reports what it heard last, if it reports that at all.
LEMMA EndRetry ==
  ASSUME ControlOK, NEW f \in Fetches, NEW r, End(f, r),
         sends'[f] <= MaxRetries + 2, only403'[f] => sends'[f] <= 2,
         r \in Heard => r = heard'[f]
  PROVE  BudgetOK(f)' /\ ToldOK(f)'
<1>1. pc'[f] = "done" /\ result'[f] = r
  BY DEF End, ControlOK
<1> QED
  BY <1>1 DEF BudgetOK, ToldOK

\* The layers above and beside the retry loop send nothing through it.
LEMMA OtherRetry ==
  ASSUME ControlOK, HistoryOK, NEW f \in Fetches, BudgetOK(f), ToldOK(f), OtherStep(f)
  PROVE  BudgetOK(f)' /\ ToldOK(f)'
<1>0. sends'[f] = sends[f] /\ heard'[f] = heard[f] /\ only403'[f] = only403[f]
  BY OtherHistory DEF history
<1>1. ASSUME NEW r, End(f, r), r \notin Heard PROVE BudgetOK(f)' /\ ToldOK(f)'
  BY <1>0, <1>1, EndRetry DEF BudgetOK
<1>2. ASSUME NEW s \in {"obscura", "permit"} \cup ChromeSteps, pc' = [pc EXCEPT ![f] = s], UNCHANGED result, pc[f] # "done"
      PROVE  BudgetOK(f)' /\ ToldOK(f)'
  <2>1. pc'[f] = s /\ s \notin {"new", "done"} \cup WreqSteps
    BY <1>2 DEF ControlOK, WreqSteps, ChromeSteps
  <2> QED
    BY <1>0, <1>2, <2>1 DEF BudgetOK, ToldOK, WreqSteps
<1>3. ASSUME UNCHANGED <<pc, result, loop>> PROVE BudgetOK(f)' /\ ToldOK(f)'
  BY <1>0, <1>3, SameOK DEF Same, loop
<1>4. CASE Call(f)
  <2>1. CASE \E r \in {"invalidUrl", "exhausted"} : End(f, r)
    BY <1>1, <2>1 DEF Heard, Failures, Statuses
  <2>2. CASE Goto(f, "permit")
    BY <1>2, <1>4, <2>2 DEF Call, Goto
  <2>3. CASE Goto(f, "send") /\ UNCHANGED loop
    <3>1. pc[f] = "new" /\ pc'[f] = "send" /\ result' = result /\ attempt' = attempt
      BY <1>4, <2>3 DEF Call, Goto, loop, ControlOK
    <3> QED
      BY <1>0, <3>1 DEF BudgetOK, ToldOK
  <2> QED
    BY <1>4, <2>1, <2>2, <2>3 DEF Call, check_resources
<1>5. CASE Acquire(f)
  BY <1>1, <1>2, <1>5 DEF Acquire, ChromeSteps, Heard, Failures, Statuses
<1>6. CASE SpawnObscura(f) \/ ObscuraEnds(f)
  BY <1>1, <1>2, <1>3, <1>6 DEF SpawnObscura, ObscuraEnds, ToChrome, Goto, ChromeSteps, Heard, Failures, Statuses
<1>7. CASE Launch(f)
  BY <1>1, <1>2, <1>7 DEF Launch, Goto, ChromeSteps, Heard, Failures, Statuses
<1>8. CASE OpenPage(f) \/ Navigate(f) \/ Content(f)
  BY <1>1, <1>2, <1>8 DEF OpenPage, Navigate, Content, ChromeAnswers, Goto, ChromeSteps, Heard, Failures, Statuses
<1>9. CASE SettleEnds(f)
  BY <1>2, <1>9 DEF SettleEnds, ChromeSteps
<1>10. CASE SettlePolls(f) \/ PageTraffic(f) \/ ChromeDies(f)
  BY <1>3, <1>10 DEF SettlePolls, PageTraffic, ChromeDies
<1>11. CASE Close(f) \/ Drop(f)
  BY <1>1, <1>11 DEF Close, Drop, Heard, Failures, Statuses
<1> QED
  BY <1>4, <1>5, <1>6, <1>7, <1>8, <1>9, <1>10, <1>11 DEF OtherStep

\* The ends of an attempt: something other than a 403 was heard.
LEMMA NextAttemptRetry ==
  ASSUME ControlOK, HistoryOK, NEW f \in Fetches, BudgetOK(f), ToldOK(f), pc[f] \in WreqSteps,
         NEW st, NEW er, NextAttempt(f, st, er),
         sends'[f] = sends[f], sends[f] <= attempt[f] + 2, ~only403'[f], Surfaced(st, er) = heard'[f]
  PROVE  BudgetOK(f)' /\ ToldOK(f)'
<1>0. attempt[f] \in 0..MaxRetries /\ sends[f] \in Nat
  BY DEF ControlOK, HistoryOK
<1>1. CASE End(f, Surfaced(st, er))
  BY <1>0, <1>1, EndRetry, MaxRetriesAssumption
<1>2. CASE Goto(f, "backoff") /\ attempt' = attempt
  <2>1. pc'[f] = "backoff" /\ result'[f] = result[f]
    BY <1>2 DEF Goto, ControlOK
  <2>2. result[f] = "none"
    BY DEF ToldOK, WreqSteps
  <2> QED
    BY <1>0, <1>2, <2>1, <2>2, MaxRetriesAssumption DEF BudgetOK, ToldOK, Heard, Failures, Statuses
<1> QED
  BY <1>1, <1>2 DEF NextAttempt

\* A failing status ends the fetch or costs one attempt.
LEMMA StatusRetry ==
  ASSUME ControlOK, HistoryOK, NEW f \in Fetches, BudgetOK(f), ToldOK(f), pc[f] \in WreqSteps,
         NEW st, StatusEnds(f, st, "none"),
         sends'[f] = sends[f], sends[f] <= attempt[f] + 2, st = heard'[f],
         st # "403" => ~only403'[f], only403'[f] => only403[f]
  PROVE  BudgetOK(f)' /\ ToldOK(f)'
<1>1. CASE NextAttempt(f, st, "none") /\ st # "403"
  BY <1>1, NextAttemptRetry DEF Surfaced
<1>2. CASE End(f, st)
  BY <1>2, EndRetry DEF BudgetOK
<1> QED
  BY <1>1, <1>2 DEF StatusEnds

\* Past the inspection of an answer.
LEMMA InspectedRetry ==
  ASSUME ControlOK, HistoryOK, NEW f \in Fetches, BudgetOK(f), ToldOK(f), pc[f] \in {"reply", "snippet"},
         NEW st, Inspected(f, st, "none"), st = heard'[f],
         st # "403" => ~only403'[f], only403'[f] => only403[f]
  PROVE  BudgetOK(f)' /\ ToldOK(f)'
<1>0. /\ attempt[f] \in 0..MaxRetries /\ sends[f] \in Nat
      /\ sends[f] <= attempt[f] + 2 /\ (attempt[f] = 0 => sends[f] = 1)
  BY DEF ControlOK, HistoryOK, BudgetOK
<1>1. CASE StatusEnds(f, st, "none") /\ UNCHANGED sends
  BY <1>0, <1>1, StatusRetry DEF WreqSteps
<1>2. CASE /\ attempt[f] = 0 /\ sends' = [sends EXCEPT ![f] = @ + 1]
           /\ lastError' = [lastError EXCEPT ![f] = "none"]
           /\ Goto(f, "rotated") /\ UNCHANGED attempt
  <2>1. pc'[f] = "rotated" /\ result'[f] = result[f] /\ lastError'[f] = "none" /\ sends'[f] = sends[f] + 1
    BY <1>2 DEF Goto, ControlOK, HistoryOK
  <2>2. result[f] = "none"
    BY DEF ToldOK
  <2> QED
    BY <1>0, <1>2, <2>1, <2>2, MaxRetriesAssumption DEF BudgetOK, ToldOK, Heard, Failures, Statuses
<1> QED
  BY <1>1, <1>2 DEF Inspected

\* Each step of the retry loop keeps the request budget and remembers the failure.
LEMMA WreqRetry ==
  ASSUME ControlOK, HistoryOK, BackoffInv, NEW f \in Fetches, BudgetOK(f), ToldOK(f), WreqStep(f)
  PROVE  BudgetOK(f)' /\ ToldOK(f)'
<1>0. /\ attempt[f] \in 0..MaxRetries /\ sends[f] \in Nat /\ only403[f] \in BOOLEAN
      /\ lastStatus[f] \in Statuses \cup {"none"}
  BY DEF ControlOK, HistoryOK
<1>1. pc[f] \in WreqSteps /\ result[f] = "none"
  BY WreqShape DEF ToldOK, WreqSteps
<1>2. \A w : Hear(f, w) => heard'[f] = w /\ only403'[f] = (only403[f] /\ w = "403")
  BY DEF Hear, HistoryOK
<1>3. CASE Send(f)
  <2>1. /\ pc[f] = "send" /\ pc'[f] = "reply" /\ result' = result /\ sends'[f] = sends[f] + 1
        /\ attempt' = attempt /\ only403' = only403
    BY <1>3 DEF Send, Goto, loop, ControlOK, HistoryOK
  <2> QED
    BY <1>0, <1>1, <2>1, MaxRetriesAssumption DEF BudgetOK, ToldOK, Heard, Failures, Statuses
<1>4. CASE TransportFails(f)
  <2>1. pc[f] = "reply" /\ sends' = sends /\ sends[f] <= attempt[f] + 2
    BY <1>4 DEF TransportFails, BudgetOK
  <2>2. CASE Hear(f, "fatal") /\ End(f, "fatal")
    BY <1>2, <2>1, <2>2, EndRetry DEF BudgetOK
  <2>3. CASE Hear(f, "transport") /\ NextAttempt(f, lastStatus[f], "transport")
    <3>1. ~only403'[f] /\ heard'[f] = "transport"
      BY <1>2, <2>3
    <3>2. Surfaced(lastStatus[f], "transport") = "transport" /\ sends'[f] = sends[f]
      BY <2>1 DEF Surfaced
    <3> QED
      BY <1>1, <2>1, <2>3, <3>1, <3>2, NextAttemptRetry
  <2> QED
    BY <1>4, <2>2, <2>3 DEF TransportFails
<1>5. ASSUME NEW st \in Statuses, ReplyArrives(f, st) PROVE BudgetOK(f)' /\ ToldOK(f)'
  <2>1. pc[f] = "reply" /\ heard'[f] = st /\ (st # "403" => ~only403'[f]) /\ (only403'[f] => only403[f])
    BY <1>0, <1>2, <1>5 DEF ReplyArrives
  <2>2. CASE End(f, "waf") /\ UNCHANGED sends
    BY <2>1, <2>2, EndRetry DEF BudgetOK, Heard, Failures, Statuses
  <2>3. CASE Inspected(f, st, "none")
    BY <2>1, <2>3, InspectedRetry
  <2>4. ASSUME NEW s \in {"body", "snippet"}, Goto(f, s), UNCHANGED <<attempt, sends>>,
               lastStatus' = [lastStatus EXCEPT ![f] = st], lastError' = [lastError EXCEPT ![f] = "none"]
        PROVE  BudgetOK(f)' /\ ToldOK(f)'
    <3>1. pc'[f] = s /\ result'[f] = "none" /\ lastStatus'[f] = st /\ lastError'[f] = "none"
      BY <1>1, <2>4 DEF Goto, ControlOK
    <3> QED
      BY <1>0, <2>1, <2>4, <3>1 DEF BudgetOK, ToldOK, Heard, Failures, Statuses
  <2> QED
    BY <1>5, <2>2, <2>3, <2>4 DEF ReplyArrives, ErrorOnReply
<1>6. CASE SnippetRead(f)
  <2>1. pc[f] = "snippet" /\ lastStatus[f] = heard[f] /\ lastError[f] = "none"
    BY <1>6 DEF SnippetRead, ToldOK
  <2>2. CASE End(f, "transport") /\ Hear(f, "transport") /\ UNCHANGED sends
    BY <1>2, <2>2, EndRetry DEF BudgetOK
  <2>3. CASE End(f, "waf") /\ UNCHANGED history
    BY <2>3, EndRetry DEF history, BudgetOK, Heard, Failures, Statuses
  <2>4. CASE Inspected(f, lastStatus[f], lastError[f]) /\ UNCHANGED <<heard, only403>>
    <3>1. lastStatus[f] # "403" => ~only403'[f]
      BY <2>1, <2>4 DEF BudgetOK
    <3> QED
      BY <2>1, <2>4, <3>1, InspectedRetry
  <2> QED
    BY <1>6, <2>2, <2>3, <2>4 DEF SnippetRead
<1>7. CASE RotatedArrives(f)
  <2>1. /\ pc[f] = "rotated" /\ lastError[f] = "none" /\ sends' = sends
        /\ sends[f] = 2 /\ sends[f] <= attempt[f] + 2
    BY <1>0, <1>7 DEF RotatedArrives, ToldOK, BudgetOK
  <2>2. ASSUME NEW e, Hear(f, e), End(f, e) PROVE BudgetOK(f)' /\ ToldOK(f)'
    BY <1>2, <2>1, <2>2, EndRetry DEF BudgetOK
  <2>3. CASE Hear(f, "200") /\ Goto(f, "body")
    <3>1. pc'[f] = "body" /\ result'[f] = "none"
      BY <1>1, <2>3 DEF Goto, ControlOK
    <3> QED
      BY <1>2, <2>1, <2>3, <3>1 DEF BudgetOK, ToldOK, Heard, Failures, Statuses
  <2>4. ASSUME NEW st, Hear(f, st), RotatedStatus(f, st, lastError[f]) PROVE BudgetOK(f)' /\ ToldOK(f)'
    BY <1>0, <1>1, <1>2, <2>1, <2>4, StatusRetry DEF RotatedStatus
  <2> QED
    BY <1>7, <2>2, <2>3, <2>4 DEF RotatedArrives
<1>8. CASE Retry(f)
  <2>1. /\ pc[f] = "backoff" /\ pc'[f] = "send" /\ result' = result /\ attempt'[f] = attempt[f] + 1
        /\ sends' = sends /\ only403' = only403
    BY <1>8 DEF Retry, Goto, history, ControlOK
  <2> QED
    BY <1>0, <1>1, <2>1 DEF BudgetOK, ToldOK, Heard, Failures, Statuses
<1>9. CASE BuildPage(f)
  <2>1. sends' = sends
    BY <1>9 DEF BuildPage, history
  <2>2. CASE End(f, "transport") /\ Hear(f, "transport")
    BY <1>2, <2>1, <2>2, EndRetry DEF BudgetOK
  <2>3. ASSUME NEW r \in {"tooLarge", "invalidUrl", "page", "waf", "exhausted"}, End(f, r), UNCHANGED history
        PROVE  BudgetOK(f)' /\ ToldOK(f)'
    BY <2>3, EndRetry DEF history, BudgetOK, Heard, Failures, Statuses
  <2>4. CASE Goto(f, "obscura") /\ UNCHANGED history
    <3>1. pc'[f] = "obscura" /\ result'[f] = "none"
      BY <1>1, <2>4 DEF Goto, ControlOK
    <3> QED
      BY <2>4, <3>1 DEF history, BudgetOK, ToldOK, Heard, Failures, Statuses
  <2> QED
    BY <1>9, <2>2, <2>3, <2>4 DEF BuildPage, evaluate_fetch, check_resources
<1> QED
  BY <1>3, <1>4, <1>5, <1>6, <1>7, <1>8, <1>9 DEF WreqStep

\* A fetch has sent at most one request per attempt and one with the rotated agent,
\* and the failure it will report is the last one it met (WreqDownloader::download).
THEOREM RetryInvariant == Spec => []RetryInv
<1>1. Init => RetryInv
  BY MaxRetriesAssumption DEF Init, RetryInv, BudgetOK, ToldOK, Heard, Failures, Statuses
<1>2. ASSUME Inv, RetryInv, [Next]_vars
      PROVE  RetryInv'
  <2>1. ASSUME NEW f \in Fetches, WreqStep(f) \/ OtherStep(f), NEW g \in Fetches
        PROVE  BudgetOK(g)' /\ ToldOK(g)'
    <3>1. CASE g = f
      BY <1>2, <2>1, <3>1, WreqRetry, OtherRetry DEF Inv, RetryInv
    <3>2. CASE g # f
      BY <1>2, <2>1, <3>2, OtherFetches, SameOK DEF Inv, RetryInv
    <3> QED
      BY <3>1, <3>2
  <2>2. ASSUME Cancel \/ UNCHANGED vars, NEW g \in Fetches
        PROVE  BudgetOK(g)' /\ ToldOK(g)'
    <3>1. Same(g)
      BY <2>2 DEF Cancel, vars, loop, history, Same
    <3> QED
      BY <1>2, <3>1, SameOK DEF RetryInv
  <2> QED
    BY <1>2, <2>1, <2>2, NextCases DEF RetryInv, AllReturned
<1> QED
  BY <1>1, <1>2, Invariant, PTL DEF Spec

\* A fetch makes at most one request per attempt and one rotated request, and
\* two to a server that answers nothing but 403, for every max_retries.
THEOREM RequestsAreBounded == Spec => []SendsWithinBudget
<1>1. RetryInv => SendsWithinBudget
  BY DEF RetryInv, BudgetOK, SendsWithinBudget
<1> QED
  BY <1>1, RetryInvariant, PTL

\* The failure a fetch reports is the last one it met.
THEOREM ReportsTheLastFailure == Spec => []LastFailureTold
<1>1. RetryInv => LastFailureTold
  BY DEF RetryInv, ToldOK, LastFailureTold
<1> QED
  BY <1>1, RetryInvariant, PTL
===============================================================================
