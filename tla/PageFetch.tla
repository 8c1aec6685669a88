------------------------------ MODULE PageFetch ------------------------------
(***************************************************************************)
(* One page through the download layers.  FetchRouter::fetch sends a URL   *)
(* down the configured strategy:                                           *)
(*   Static   the wreq client, with its retries, WAF inspection and one    *)
(*            rotated User-Agent after a 403;                              *)
(*   Hybrid   wreq first; a page that needs scripts escalates to the       *)
(*            Obscura subprocess and then to Chrome, after a RAM check;    *)
(*   Full     Chrome at once, after a RAM check and a permit of the        *)
(*            ResourceGovernor.                                            *)
(* Any number of fetches run at once; they share the permits only.  The    *)
(* crawl may drop a fetch at any await, and the run's cancellation token   *)
(* may fire.                                                               *)
(*                                                                         *)
(* pc[f] is the await a fetch is at.  A status stands for its class: 200   *)
(* any 2xx, 404 any 4xx that is neither 403 nor 429, 500 a 5xx no WAF      *)
(* answers with, 503 one a WAF does.  A transport failure is "transport"   *)
(* when DownloadError::classify lets it be retried and "fatal" when it is  *)
(* PermanentFatal.  Whether a body carries a challenge, is empty or needs  *)
(* scripts is the server's choice.                                         *)
(*                                                                         *)
(* Left out: delays' lengths (sleep_before_retry is a step), cookies, body *)
(* bytes and caps beyond their error, the navigation status of Chrome, and *)
(* a challenge reported by Obscura or Chrome, which no code path produces. *)
(***************************************************************************)
EXTENDS IdleSettle

CONSTANTS
  Strategies,   \* the values of JsStrategy tried
  Callers,      \* per strategy, the fetches the crawl makes at once
  MaxRetries,   \* max_retries
  Permits       \* permits of the ResourceGovernor

ASSUME FetchesAssumption == IsFiniteSet(Fetches)
ASSUME StrategiesAssumption == Strategies \subseteq {"Static", "Hybrid", "Full"}
ASSUME CallersAssumption == Callers \in [Strategies -> SUBSET Fetches]
ASSUME MaxRetriesAssumption == MaxRetries \in Nat
ASSUME PermitsAssumption == Permits \in Nat \ {0}

VARIABLES
  strategy,     \* the FetchRouter arm
  pinned,       \* pinned_ua is Some
  ignoreWaf,    \* ignore_waf
  cancelled,    \* the governor's CancellationToken fired
  pc,           \* the await each fetch is at
  attempt,      \* fetch_inner's loop counter
  lastStatus,   \* last_status
  lastError,    \* last_error
  holders,      \* fetches holding a governor permit
  helper,       \* the child process of a fetch
  result,       \* what fetch returned
  sends,        \* history: requests the wreq layer put on the wire
  heard,        \* history: the last thing the wreq layer heard
  only403,      \* history: it heard nothing but 403
  idle          \* SettleOutcome.idle_reached

config == <<strategy, pinned, ignoreWaf>>
loop == <<attempt, lastStatus, lastError>>
history == <<sends, heard, only403>>
vars == <<config, cancelled, pc, loop, holders, helper, result, history, idle, settle>>

Statuses == {"200", "403", "404", "429", "500", "503"}
Failures == Statuses \ {"200"}
Heard == Failures \cup {"transport", "fatal"}

WreqSteps == {"send", "reply", "snippet", "rotated", "backoff", "body"}
ChromeSteps == {"launch", "open", "goto", "settle", "content", "close"}
Steps == {"new", "obscura", "permit", "done"} \cup WreqSteps \cup ChromeSteps
Errors == {"waf", "tooLarge", "invalidUrl", "exhausted", "cancelled", "internal", "timeout"}

Live(f) == pc[f] \notin {"new", "done"}

Init ==
  /\ strategy \in Strategies /\ pinned \in BOOLEAN /\ ignoreWaf \in BOOLEAN
  /\ cancelled = FALSE
  /\ pc = [f \in Fetches |-> "new"]
  /\ attempt = [f \in Fetches |-> 0]
  /\ lastStatus = [f \in Fetches |-> "none"]
  /\ lastError = [f \in Fetches |-> "none"]
  /\ holders = {}
  /\ helper = [f \in Fetches |-> "none"]
  /\ result = [f \in Fetches |-> "none"]
  /\ sends = [f \in Fetches |-> 0]
  /\ heard = [f \in Fetches |-> "none"]
  /\ only403 = [f \in Fetches |-> TRUE]
  /\ idle = [f \in Fetches |-> "none"]
  /\ SettleInit

-----------------------------------------------------------------------------
(* Steps every layer uses.                                                 *)

Goto(f, s) ==
  pc' = [pc EXCEPT ![f] = s] /\ UNCHANGED <<result, holders, idle, settle>>

\* The locals of the wreq layer's loop.
ForgetLoop(f) ==
  /\ attempt' = [attempt EXCEPT ![f] = 0]
  /\ lastStatus' = [lastStatus EXCEPT ![f] = "none"]
  /\ lastError' = [lastError EXCEPT ![f] = "none"]

\* Fault to seed in End: a dropped future keeps its permit and its child.
EndKeepsDropped(f, r) ==
  /\ pc' = [pc EXCEPT ![f] = "done"]
  /\ result' = [result EXCEPT ![f] = r]
  /\ IF r = "dropped" THEN UNCHANGED <<holders, helper>>
                      ELSE /\ holders' = holders \ {f}
                           /\ helper' = [helper EXCEPT ![f] = "none"]
  /\ idle' = [idle EXCEPT ![f] = "none"]
  /\ ForgetLoop(f) /\ ForgetSettle(f)

\* The fetch's future ends, by returning or by being dropped: its locals go
\* with it, the permit is released, and a child still running is killed
\* (kill_on_drop; HandlerGuard aborts the event pump).
End(f, r) ==
  /\ pc' = [pc EXCEPT ![f] = "done"]
  /\ result' = [result EXCEPT ![f] = r]
  /\ holders' = holders \ {f}
  /\ helper' = [helper EXCEPT ![f] = "none"]
  /\ idle' = [idle EXCEPT ![f] = "none"]
  /\ ForgetLoop(f) /\ ForgetSettle(f)

\* What the wreq layer is told by the network.
Hear(f, w) ==
  /\ heard' = [heard EXCEPT ![f] = w]
  /\ only403' = [only403 EXCEPT ![f] = @ /\ w = "403"]

\* check_resources: RAM above the critical threshold denies; the number of
\* permits it reports is not looked at.
check_resources(f, next) ==
  \/ Goto(f, next) /\ ForgetLoop(f) /\ UNCHANGED helper
  \/ End(f, "exhausted")

-----------------------------------------------------------------------------
(* FetchRouter::fetch.                                                     *)

\* The literal-IP guard, then the arm of the strategy.
Call(f) ==
  /\ pc[f] = "new" /\ f \in Callers[strategy]
  /\ \/ End(f, "invalidUrl")
     \/ strategy \in {"Static", "Hybrid"} /\ Goto(f, "send") /\ UNCHANGED <<loop, helper>>
     \/ strategy = "Full" /\ check_resources(f, "permit")
  /\ UNCHANGED <<config, cancelled, history>>

\* ResourceGovernor::acquire: select! between a permit and the token.
Acquire(f) ==
  /\ pc[f] = "permit"
  /\ \/ /\ Cardinality(holders) < Permits
        /\ holders' = holders \cup {f}
        /\ pc' = [pc EXCEPT ![f] = "launch"]
        /\ UNCHANGED <<loop, helper, result, idle, settle>>
     \/ cancelled /\ End(f, "cancelled")
  /\ UNCHANGED <<config, cancelled, history>>

-----------------------------------------------------------------------------
(* WreqDownloader::fetch_inner, also Layer 1 of Hybrid: its error is       *)
(* Hybrid's.                                                               *)

\* for attempt in 0..=max_retries: send_request(url, None).
Send(f) ==
  /\ pc[f] = "send"
  /\ sends' = [sends EXCEPT ![f] = @ + 1]
  /\ Goto(f, "reply")
  /\ UNCHANGED <<config, cancelled, loop, helper, heard, only403>>

\* The failure an exhausted loop surfaces.
Surfaced(status, error) == IF error # "none" THEN error ELSE status

\* Fault to seed in NextAttempt: one attempt too many.
NextAttemptTooLate(f, status, error) ==
  \/ /\ attempt[f] <= MaxRetries
     /\ lastStatus' = [lastStatus EXCEPT ![f] = status]
     /\ lastError' = [lastError EXCEPT ![f] = error]
     /\ Goto(f, "backoff") /\ UNCHANGED <<attempt, helper>>
  \/ attempt[f] > MaxRetries /\ End(f, Surfaced(status, error))

\* The end of an attempt: the loop goes on after a delay, carrying
\* last_status and last_error, or is exhausted.
NextAttempt(f, status, error) ==
  \/ /\ attempt[f] < MaxRetries
     /\ lastStatus' = [lastStatus EXCEPT ![f] = status]
     /\ lastError' = [lastError EXCEPT ![f] = error]
     /\ Goto(f, "backoff") /\ UNCHANGED <<attempt, helper>>
  \/ attempt[f] = MaxRetries /\ End(f, Surfaced(status, error))

\* Past the rotation: 429 and 5xx go round again, other statuses end.
StatusEnds(f, status, error) ==
  \/ status \in {"429", "500", "503"} /\ NextAttempt(f, status, error)
  \/ status \in {"403", "404"} /\ End(f, status)

\* Fault to seed in RotatedStatus: the bare continue of #1430.
RotatedContinues(f, status, error) == NextAttempt(f, status, error)

\* The rotated request consumes the attempt.
RotatedStatus(f, status, error) == StatusEnds(f, status, error)

\* Past the inspection: the first 403 is sent again with another agent,
\* unless the agent is pinned.
Inspected(f, status, error) ==
  LET rotate == status = "403" /\ attempt[f] = 0 /\ ~pinned
  IN \/ /\ rotate
        /\ sends' = [sends EXCEPT ![f] = @ + 1]
        /\ lastStatus' = [lastStatus EXCEPT ![f] = status]
        /\ lastError' = [lastError EXCEPT ![f] = error]
        /\ Goto(f, "rotated") /\ UNCHANGED <<attempt, helper>>
     \/ ~rotate /\ StatusEnds(f, status, error) /\ UNCHANGED sends

is_t2_blocking_status(status) == status \in {"403", "429", "503"}

\* PermanentFatal is returned; any other transport failure is retried.
TransportFails(f) ==
  /\ pc[f] = "reply"
  /\ \/ Hear(f, "fatal") /\ End(f, "fatal")
     \/ Hear(f, "transport") /\ NextAttempt(f, lastStatus[f], "transport")
  /\ UNCHANGED <<config, cancelled, sends>>

\* Fault to seed in ErrorOnReply: an earlier failure is kept.
ErrorSurvives(f) == lastError[f]

\* A response clears last_error.
ErrorOnReply(f) == "none"

\* A status arrived: a 2xx body is read; otherwise the headers, then for a
\* WAF status the body's prefix, are inspected for a challenge.
ReplyArrives(f, status) ==
  /\ pc[f] = "reply"
  /\ Hear(f, status)
  /\ LET error == ErrorOnReply(f)
         await(s) == /\ lastStatus' = [lastStatus EXCEPT ![f] = status]
                     /\ lastError' = [lastError EXCEPT ![f] = error]
                     /\ Goto(f, s) /\ UNCHANGED <<attempt, helper, sends>>
     IN \/ status = "200" /\ await("body")
        \/ status # "200" /\ ~ignoreWaf /\ End(f, "waf") /\ UNCHANGED sends
        \/ status # "200" /\ ~ignoreWaf /\ is_t2_blocking_status(status) /\ await("snippet")
        \/ /\ status # "200" /\ (ignoreWaf \/ ~is_t2_blocking_status(status))
           /\ Inspected(f, status, error)
  /\ UNCHANGED <<config, cancelled>>

\* read_body_snippet and the verdict on it; a failing read is returned.
SnippetRead(f) ==
  /\ pc[f] = "snippet"
  /\ \/ End(f, "transport") /\ Hear(f, "transport") /\ UNCHANGED sends
     \/ End(f, "waf") /\ UNCHANGED history
     \/ Inspected(f, lastStatus[f], lastError[f]) /\ UNCHANGED <<heard, only403>>
  /\ UNCHANGED <<config, cancelled>>

\* The rotated request's answer; its failure is returned, its status is not
\* inspected for a challenge.
RotatedArrives(f) ==
  /\ pc[f] = "rotated"
  /\ \/ \E e \in {"transport", "fatal"} : Hear(f, e) /\ End(f, e)
     \/ Hear(f, "200") /\ Goto(f, "body") /\ UNCHANGED <<loop, helper>>
     \/ \E s \in Failures : Hear(f, s) /\ RotatedStatus(f, s, lastError[f])
  /\ UNCHANGED <<config, cancelled, sends>>

\* sleep_before_retry elapsed.
Retry(f) ==
  /\ pc[f] = "backoff"
  /\ attempt' = [attempt EXCEPT ![f] = @ + 1]
  /\ Goto(f, "send")
  /\ UNCHANGED <<config, cancelled, lastStatus, lastError, helper, history>>

\* Hybrid's verdict on a page: static content is the result, a challenge ends
\* the fetch, a page that needs scripts escalates.
evaluate_fetch(f) ==
  \/ End(f, "page")
  \/ ~ignoreWaf /\ End(f, "waf")
  \/ check_resources(f, "obscura")

\* build_page, whose failure is returned.
BuildPage(f) ==
  /\ pc[f] = "body"
  /\ \/ \E r \in {"tooLarge", "invalidUrl"} : End(f, r) /\ UNCHANGED history
     \/ End(f, "transport") /\ Hear(f, "transport") /\ UNCHANGED sends
     \/ strategy = "Static" /\ End(f, "page") /\ UNCHANGED history
     \/ strategy = "Hybrid" /\ evaluate_fetch(f) /\ UNCHANGED history
  /\ UNCHANGED <<config, cancelled>>

-----------------------------------------------------------------------------
(* ObscuraDownloader::fetch_inner, Layer 2.                                *)

\* Fault to seed in ToChrome: the subprocess is not killed when its future is
\* dropped.
ToChromeKeepsChild(f) ==
  \/ Goto(f, "launch") /\ UNCHANGED <<loop, helper>>
  \/ End(f, "exhausted")

\* Hybrid after a failure or an empty page: Chrome, after another RAM check.
ToChrome(f) ==
  \/ /\ helper' = [helper EXCEPT ![f] = "none"]
     /\ Goto(f, "launch") /\ UNCHANGED loop
  \/ End(f, "exhausted")

\* command.spawn().
SpawnObscura(f) ==
  /\ pc[f] = "obscura" /\ helper[f] = "none"
  /\ \/ /\ helper' = [helper EXCEPT ![f] = "obscura"]
        /\ UNCHANGED <<pc, loop, result, holders, idle, settle>>
     \/ ToChrome(f)
  /\ UNCHANGED <<config, cancelled, history>>

\* It exited, or its timeout dropped and killed it.
ObscuraEnds(f) ==
  /\ pc[f] = "obscura" /\ helper[f] = "obscura"
  /\ End(f, "page") \/ ToChrome(f)
  /\ UNCHANGED <<config, cancelled, history>>

-----------------------------------------------------------------------------
(* ChromiumoxideDownloader::fetch: Layer 3, and Full.                      *)

Launch(f) ==
  /\ pc[f] = "launch"
  /\ \/ helper' = [helper EXCEPT ![f] = "chrome"] /\ Goto(f, "open") /\ UNCHANGED loop
     \/ \E e \in {"internal", "invalidUrl"} : End(f, e)
  /\ UNCHANGED <<config, cancelled, history>>

\* An await that needs the browser: its failure is returned.
ChromeAnswers(f, next, errors) ==
  \/ helper[f] = "chrome" /\ Goto(f, next) /\ UNCHANGED <<loop, helper>>
  \/ \E e \in errors : End(f, e)

\* new_page and the cookies, then the idle settle's subscriptions: none in
\* the other modes, or when one of them fails.
OpenPage(f) ==
  /\ pc[f] = "open"
  /\ \/ ChromeAnswers(f, "goto", {"internal"})
     \/ /\ helper[f] = "chrome"
        /\ pc' = [pc EXCEPT ![f] = "goto"]
        /\ Subscribe(f)
        /\ UNCHANGED <<loop, helper, holders, result, idle>>
  /\ UNCHANGED <<config, cancelled, history>>

\* goto and navigation_status, each under NAV_TIMEOUT.
Navigate(f) ==
  /\ pc[f] = "goto"
  /\ ChromeAnswers(f, "settle", {"internal", "timeout"})
  /\ UNCHANGED <<config, cancelled, history>>

\* settle_after_load: drain_until_quiet polls ...
SettlePolls(f) ==
  /\ pc[f] = "settle" /\ streams[f] # "off"
  /\ Drain(f)
  /\ UNCHANGED <<config, cancelled, pc, loop, holders, helper, result, history, idle>>

\* ... and ends quiet, at its ceiling, or without streams: in the other modes,
\* or missing the idle state because it could not subscribe.
SettleEnds(f) ==
  /\ pc[f] = "settle"
  /\ \/ /\ streams[f] = "off"
        /\ \E i \in {"none", "missed"} : idle' = [idle EXCEPT ![f] = i]
     \/ streams[f] # "off" /\ QuietWindow(f) /\ idle' = [idle EXCEPT ![f] = "reached"]
     \/ streams[f] # "off" /\ Ceiling(f) /\ idle' = [idle EXCEPT ![f] = "missed"]
  /\ ForgetSettle(f)
  /\ pc' = [pc EXCEPT ![f] = "content"]
  /\ UNCHANGED <<config, cancelled, loop, holders, helper, result, history>>

\* page.content() under CONTENT_TIMEOUT.
Content(f) ==
  /\ pc[f] = "content"
  /\ ChromeAnswers(f, "close", {"internal", "timeout"})
  /\ UNCHANGED <<config, cancelled, history>>

\* browser.close(), whose error is ignored, and the join of the event pump.
Close(f) ==
  /\ pc[f] = "close"
  /\ End(f, "page")
  /\ UNCHANGED <<config, cancelled, history>>

-----------------------------------------------------------------------------
(* The surroundings.                                                       *)

\* The page's requests, while the subscriptions exist.
PageTraffic(f) ==
  /\ pc[f] \in {"goto", "settle"} /\ helper[f] = "chrome"
  /\ \E q \in Requests :
       BrowserSends(f, q) \/ \E c \in Completions : BrowserCompletes(f, q, c)
  /\ UNCHANGED <<config, cancelled, pc, loop, holders, helper, result, history, idle>>

\* Chrome dies; its event channels lose their senders.
ChromeDies(f) ==
  /\ helper[f] = "chrome"
  /\ helper' = [helper EXCEPT ![f] = "crashed"]
  /\ SendersDropped(f)
  /\ UNCHANGED <<config, cancelled, pc, loop, holders, result, history, idle>>

\* The crawl drops the future: shutdown, abort or an outer timeout.
Drop(f) ==
  /\ Live(f)
  /\ End(f, "dropped")
  /\ UNCHANGED <<config, cancelled, history>>

\* The run's token fires; only the permit wait of Full listens to it.
Cancel ==
  /\ strategy = "Full" /\ ~cancelled
  /\ cancelled' = TRUE
  /\ UNCHANGED <<config, pc, loop, holders, helper, result, history, idle, settle>>

\* Every fetch has returned.
AllReturned == (\A f \in Callers[strategy] : pc[f] = "done") /\ UNCHANGED vars

\* What the fetch's own task does next.
Task(f) ==
  \/ Acquire(f)
  \/ Send(f) \/ TransportFails(f) \/ (\E s \in Statuses : ReplyArrives(f, s))
  \/ SnippetRead(f) \/ RotatedArrives(f) \/ Retry(f) \/ BuildPage(f)
  \/ SpawnObscura(f) \/ ObscuraEnds(f)
  \/ Launch(f) \/ OpenPage(f) \/ Navigate(f)
  \/ SettlePolls(f) \/ SettleEnds(f) \/ Content(f) \/ Close(f)

Next ==
  \/ \E f \in Fetches : Call(f) \/ Task(f) \/ PageTraffic(f) \/ ChromeDies(f) \/ Drop(f)
  \/ Cancel
  \/ AllReturned

Spec == Init /\ [][Next]_vars

\* The runtime polls every fetch; each await is bounded (the client's, the
\* subprocess's, the navigation's and the content's timeout), and Chrome
\* answers close by ending its connection.
FetchFairSpec == Spec /\ \A f \in Fetches : WF_vars(Task(f))

-----------------------------------------------------------------------------
TypeOK ==
  /\ strategy \in Strategies /\ pinned \in BOOLEAN /\ ignoreWaf \in BOOLEAN
  /\ cancelled \in BOOLEAN
  /\ pc \in [Fetches -> Steps]
  /\ attempt \in [Fetches -> 0..MaxRetries]
  /\ lastStatus \in [Fetches -> Statuses \cup {"none"}]
  /\ lastError \in [Fetches -> {"none", "transport"}]
  /\ holders \subseteq Fetches
  /\ helper \in [Fetches -> {"none", "obscura", "chrome", "crashed"}]
  /\ result \in [Fetches -> Heard \cup Errors \cup {"none", "page", "dropped"}]
  /\ sends \in [Fetches -> Nat]
  /\ heard \in [Fetches -> Heard \cup {"none", "200"}]
  /\ only403 \in [Fetches -> BOOLEAN]
  /\ idle \in [Fetches -> {"none", "reached", "missed"}]
  /\ SettleTypeOK

\* max_retries bounds the load on a server: a fetch sends at most one
\* request per attempt and one with the rotated agent, and a server that
\* answers nothing but 403 gets two requests however many retries are
\* configured (#1430).
SendsWithinBudget ==
  \A f \in Fetches : /\ sends[f] <= MaxRetries + 2
                     /\ only403[f] => sends[f] <= 2

\* The failure a fetch reports is the last one it met, whatever transport
\* failures, statuses and rotated requests came before (#649).
LastFailureTold ==
  \A f \in Fetches : result[f] \in Heard => result[f] = heard[f]

\* Full never runs more Chromes than the governor has permits, and a permit
\* is held exactly by the fetches inside the Chrome layer: no error, timeout,
\* cancellation or dropped future leaks one.
PermitsMatchChromes ==
  /\ strategy = "Full" => holders = {f \in Fetches : pc[f] \in ChromeSteps}
  /\ Cardinality(holders) <= Permits

\* No child process outlives the fetch that started it.
ChildOwned ==
  \A f \in Fetches :
    helper[f] # "none" => pc[f] \in (ChromeSteps \cup {"obscura"}) \ {"launch"}

\* The requests of the page that are in flight although the settle has polled
\* their announcement; a redirected one was announced twice.
KnownInFlight(f) ==
  {q \in Requests : \/ net[f][q] = "flying" /\ sentQ[f][q] < 1
                    \/ net[f][q] = "resent" /\ sentQ[f][q] < 2}

\* idle_reached is only reported over a live browser when no request is in
\* flight that drain_until_quiet had polled the announcement of, in whatever
\* order it polled the three channels.  (The elapsed window may still win over an
\* announcement queued while the task slept.)
QuietMeansIdle ==
  [][\A f \in Fetches :
       idle'[f] = "reached" /\ idle[f] # "reached" /\ streams[f] = "open"
         => KnownInFlight(f) = {}]_vars

\* Every fetch returns, for every order of answers, failures, browser deaths
\* and waits for a permit.
FetchReturns == \A f \in Fetches : pc[f] # "new" ~> pc[f] = "done"
=============================================================================
