------------------------------ MODULE IdleSettle ------------------------------
(***************************************************************************)
(* The network-idle settle of the Chrome layer: between navigation and     *)
(* capture a fetch drains the browser's request events until no request    *)
(* has been in flight for one quiet window, or until its ceiling.          *)
(*                                                                         *)
(* Chrome reports a request over three independent channels: one for       *)
(* requestWillBeSent and one each for loadingFinished and loadingFailed.   *)
(* One select! drains them in whatever order it likes; InFlightTracker     *)
(* pairs the events of a request by its id.  queued sends and completions  *)
(* are kept per request: the tracker treats ids independently, so the      *)
(* order between two requests on one channel says nothing.                 *)
(*                                                                         *)
(* The browser is external.  A request it starts is reported; one that     *)
(* started before Network.enable is reported only when it completes; a     *)
(* request of Redirects is sent a second time under the same id; every     *)
(* request completes at most once.  Its death drops the sender halves.     *)
(***************************************************************************)
EXTENDS Integers, FiniteSets

CONSTANTS
  Fetches,      \* concurrent calls of FetchRouter::fetch
  Requests,     \* the network requests a page makes
  Redirects     \* those answered by one redirect

ASSUME RequestsAssumption == IsFiniteSet(Requests) /\ Redirects \subseteq Requests

VARIABLES
  net,          \* the browser's view of each request of the page
  sentQ,        \* undelivered requestWillBeSent events, per request
  doneQ,        \* the channel holding the request's undelivered completion
  streams,      \* IdleStreams: not subscribed, open, or senders dropped
  active,       \* the select! branches whose guard is still true
  pending,      \* InFlightTracker.pending
  unseen,       \* InFlightTracker.completed_unseen
  parked        \* select! found no branch ready: its timers are running

tracker == <<pending, unseen>>
wire == <<net, sentQ, doneQ>>
settle == <<net, sentQ, doneQ, streams, active, pending, unseen, parked>>

Branches == {"sent", "finished", "failed"}
Completions == {"finished", "failed"}

\* What has been drained of a page no request was made for yet.
Blank == [q \in Requests |-> "idle"]
NoSends == [q \in Requests |-> 0]
NoDones == [q \in Requests |-> "none"]

SettleInit ==
  /\ net = [f \in Fetches |-> Blank]
  /\ sentQ = [f \in Fetches |-> NoSends]
  /\ doneQ = [f \in Fetches |-> NoDones]
  /\ streams = [f \in Fetches |-> "off"]
  /\ active = [f \in Fetches |-> Branches]
  /\ pending = [f \in Fetches |-> {}]
  /\ unseen = [f \in Fetches |-> {}]
  /\ parked = [f \in Fetches |-> FALSE]

\* subscribe_idle_streams, all three.
Subscribe(f) ==
  /\ streams' = [streams EXCEPT ![f] = "open"]
  /\ UNCHANGED <<wire, active, tracker, parked>>

\* The streams and the tracker are dropped.
ForgetSettle(f) ==
  /\ net' = [net EXCEPT ![f] = Blank]
  /\ sentQ' = [sentQ EXCEPT ![f] = NoSends]
  /\ doneQ' = [doneQ EXCEPT ![f] = NoDones]
  /\ streams' = [streams EXCEPT ![f] = "off"]
  /\ active' = [active EXCEPT ![f] = Branches]
  /\ pending' = [pending EXCEPT ![f] = {}]
  /\ unseen' = [unseen EXCEPT ![f] = {}]
  /\ parked' = [parked EXCEPT ![f] = FALSE]

-----------------------------------------------------------------------------
(* The browser.                                                            *)

\* requestWillBeSent; a redirect answer sends the request again, id kept.
BrowserSends(f, q) ==
  /\ streams[f] = "open"
  /\ \/ net[f][q] = "idle" /\ net' = [net EXCEPT ![f][q] = "flying"]
     \/ net[f][q] = "flying" /\ q \in Redirects /\ net' = [net EXCEPT ![f][q] = "resent"]
  /\ sentQ' = [sentQ EXCEPT ![f][q] = @ + 1]
  /\ UNCHANGED <<doneQ, streams, active, tracker, parked>>

\* loadingFinished or loadingFailed; from "idle", of a request that started
\* before Network.enable.
BrowserCompletes(f, q, c) ==
  /\ streams[f] = "open"
  /\ net[f][q] \in {"idle", "flying", "resent"}
  /\ net' = [net EXCEPT ![f][q] = "complete"]
  /\ doneQ' = [doneQ EXCEPT ![f][q] = c]
  /\ UNCHANGED <<sentQ, streams, active, tracker, parked>>

\* Chrome dies: its event channels lose their senders.
SendersDropped(f) ==
  /\ streams' = [streams EXCEPT ![f] = IF @ = "open" THEN "closed" ELSE @]
  /\ UNCHANGED <<wire, active, tracker, parked>>

-----------------------------------------------------------------------------
(* drain_until_quiet.                                                      *)

\* A sent whose completion was seen first nets to zero.
on_sent(f, q) ==
  IF q \in unseen[f]
    THEN unseen' = [unseen EXCEPT ![f] = @ \ {q}] /\ UNCHANGED pending
    ELSE pending' = [pending EXCEPT ![f] = @ \cup {q}] /\ UNCHANGED unseen

\* Fault to seed in on_completion: a completion without a sent is discarded.
OnCompletionDiscards(f, q) ==
  pending' = [pending EXCEPT ![f] = @ \ {q}] /\ UNCHANGED unseen

\* A completion before its sent is remembered.
on_completion(f, q) ==
  IF q \in pending[f]
    THEN pending' = [pending EXCEPT ![f] = @ \ {q}] /\ UNCHANGED unseen
    ELSE unseen' = [unseen EXCEPT ![f] = @ \cup {q}] /\ UNCHANGED pending

\* Events queued on a channel.
Queued(f, b) ==
  IF b = "sent" THEN {q \in Requests : sentQ[f][q] > 0}
                ELSE {q \in Requests : doneQ[f][q] = b}

\* A branch select! can take without waiting: an event, or the None of a
\* channel whose sender is gone.
ReadyBranch(f, b) ==
  /\ b \in active[f]
  /\ Queued(f, b) # {} \/ streams[f] = "closed"

Ready(f) == \E b \in Branches : ReadyBranch(f, b)

\* A branch was taken: the next iteration starts with a fresh sleep.
Polled(f) == parked' = [parked EXCEPT ![f] = FALSE]

PollSent(f, q) ==
  /\ "sent" \in active[f]
  /\ q \in Queued(f, "sent")
  /\ sentQ' = [sentQ EXCEPT ![f][q] = @ - 1]
  /\ on_sent(f, q)
  /\ Polled(f)
  /\ UNCHANGED <<net, doneQ, streams, active>>

PollCompletion(f, q) ==
  /\ doneQ[f][q] \in active[f]
  /\ doneQ' = [doneQ EXCEPT ![f][q] = "none"]
  /\ on_completion(f, q)
  /\ Polled(f)
  /\ UNCHANGED <<net, sentQ, streams, active>>

\* Fault to seed in PollClosed: the branch stays on.
PollClosedKeeps(f, b) ==
  /\ b \in active[f]
  /\ streams[f] = "closed"
  /\ Queued(f, b) = {}
  /\ Polled(f)
  /\ UNCHANGED <<wire, streams, active, tracker>>

\* A drained, closed channel yields None and its branch is switched off.
PollClosed(f, b) ==
  /\ b \in active[f]
  /\ streams[f] = "closed"
  /\ Queued(f, b) = {}
  /\ active' = [active EXCEPT ![f] = @ \ {b}]
  /\ Polled(f)
  /\ UNCHANGED <<wire, streams, tracker>>

\* No branch is ready: the task waits, with the sleep of this iteration and the
\* timeout around the loop running.
Park(f) ==
  /\ ~parked[f] /\ ~Ready(f)
  /\ parked' = [parked EXCEPT ![f] = TRUE]
  /\ UNCHANGED <<wire, streams, active, tracker>>

Drain(f) ==
  \/ \E q \in Requests : PollSent(f, q) \/ PollCompletion(f, q)
  \/ \E b \in Branches : PollClosed(f, b)
  \/ Park(f)

\* Fault to seed in is_quiet: silence on the channels is taken for it.
QuietOnSilence(f) == ~Ready(f)

is_quiet(f) == pending[f] = {}

\* A timer can only elapse over a task that was parked, but select! is unbiased:
\* once it has, it may win over events queued in the meantime.  The sleep of one
\* window finds the tracker quiet (a busy one starts another window) ...
QuietWindow(f) == parked[f] /\ is_quiet(f)

\* ... or timeout(ceiling, ...) elapses.
Ceiling(f) == parked[f]

-----------------------------------------------------------------------------
SettleTypeOK ==
  /\ net \in [Fetches -> [Requests -> {"idle", "flying", "resent", "complete"}]]
  /\ sentQ \in [Fetches -> [Requests -> 0..2]]
  /\ doneQ \in [Fetches -> [Requests -> Completions \cup {"none"}]]
  /\ streams \in [Fetches -> {"off", "open", "closed"}]
  /\ active \in [Fetches -> SUBSET Branches]
  /\ pending \in [Fetches -> SUBSET Requests]
  /\ unseen \in [Fetches -> SUBSET Requests]
  /\ parked \in [Fetches -> BOOLEAN]

\* Every event polled and every request answered.
AllAnswered(f) ==
  /\ streams[f] = "open"
  /\ \A q \in Requests : /\ sentQ[f][q] = 0 /\ doneQ[f][q] = "none"
                         /\ net[f][q] \in {"idle", "complete"}

\* In whatever order select! polls the three channels, a page whose requests
\* have all completed leaves no phantom entry in InFlightTracker: the settle
\* ends by its quiet window and does not burn its whole ceiling.  A redirected
\* request is the exception, see NetsToZero.
DrainedIsQuiet == \A f \in Fetches : AllAnswered(f) => pending[f] \subseteq Redirects

\* "nets each pair to zero in any arrival order", redirects included: false
\* when the completion is polled before the second sent.
NetsToZero == \A f \in Fetches : AllAnswered(f) => pending[f] = {}
=============================================================================
