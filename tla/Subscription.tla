---------------------------- MODULE Subscription ----------------------------
(***************************************************************************)
(* subscription.py: verify_subscription, which fetches a list of           *)
(* configurations and verifies them one after the other, all under one     *)
(* asyncio.timeout.  fetch_subscription is here with its redirects, the    *)
(* addresses it looks up, checks and connects to, and what parsing makes   *)
(* of a list; other text is left out.  verify_key and measure_speed are    *)
(* here as their callers see them (module VerifyKey): they end, or raise   *)
(* CancelledError when cancelled, which verify_key does not while it joins *)
(* its observer.  The order of the entries is random, and every key may    *)
(* have every outcome.                                                     *)
(***************************************************************************)
EXTENDS Naturals

CONSTANTS
  MaxKeys,        \* bound: the entries of a subscription
  MaxRedirects,   \* subscription_max_redirects
  MaxAttempts,    \* subscription_max_attempts
  Target,         \* subscription_success_target
  MaxCancels      \* bound: how often others cancel the call

ASSUME SettingsAssumption ==
  /\ {MaxKeys, MaxRedirects, MaxAttempts, Target, MaxCancels} \subseteq Nat
  /\ MaxAttempts > 0 /\ Target > 0

VARIABLES
  pc,          \* the await the call is suspended at; "choosing" is none
  speedTest,   \* the argument "speed_test"
  redirects,   \* "redirect_count" of fetch_subscription
  pinned,      \* the addresses of the PinnedResolver of this hop
  list,        \* the list downloaded last
  keys,        \* configurations the loop has not taken yet
  attempts,    \* the local "attempts"
  successes,   \* len(successful)
  inconclusive,\* the local "inconclusive"
  outcome,     \* outcome of the attempt under way, "none" until it has one
  result,      \* outcome returned; "raised" for an exception
  timer,       \* asyncio.timeout: "armed", "fired", "off"
  interrupt,   \* a CancelledError will be thrown at the next step
  requests,    \* how often others cancelled the call
  cancelling,  \* Task.cancelling()
  swallowed,   \* history: cancellations that verify_key did not pass on
  contacted,   \* history: addresses that were connected to
  verified,    \* history: keys for which verify_key returned SUCCESS
  started,     \* history: completed calls of on_attempt_started
  finished     \* history: completed calls of on_attempt_finished

fetchVars == <<redirects, pinned, contacted, list>>
loopVars == <<speedTest, keys, attempts, successes, inconclusive, outcome>>
cancelVars == <<interrupt, requests, cancelling, swallowed>>
historyVars == <<verified, started, finished>>
vars == <<pc, fetchVars, loopVars, result, timer, cancelVars, historyVars>>

KeyOutcomes == {"success", "failed", "inconclusive"}

\* What an address is to fetch_subscription: is_global, or not.
Addresses == {"global", "local"}

\* A list as the parser takes it: the entries it can use, the line at which it
\* gives up (one with a nested URL, or one that urlsplit refuses), if any, and
\* whether the whole is wrapped in Base64.
Lists == [entries : 0 .. MaxKeys, stop : {"none", "nested", "broken"}, wrapped : BOOLEAN]

\* Until one is downloaded.
NoList == [entries |-> 0, stop |-> "none", wrapped |-> FALSE]

FetchAwaits == {"resolving", "connecting", "downloading"}

Awaits == FetchAwaits \union {"announcing", "verifying", "measuring", "reporting"}

TypeOK ==
  /\ pc \in Awaits \union {"choosing", "end"}
  /\ speedTest \in BOOLEAN
  /\ redirects \in 0 .. MaxRedirects
  /\ pinned \subseteq Addresses
  /\ contacted \subseteq Addresses
  /\ list \in Lists
  /\ keys \in 0 .. MaxKeys
  /\ attempts \in 0 .. MaxAttempts
  /\ successes \in 0 .. Target
  /\ inconclusive \in BOOLEAN
  /\ outcome \in KeyOutcomes \union {"none"}
  /\ result \in KeyOutcomes \union {"none", "raised"}
  /\ timer \in {"armed", "fired", "off"}
  /\ interrupt \in BOOLEAN
  /\ requests \in 0 .. MaxCancels
  /\ cancelling \in 0 .. MaxCancels + 1
  /\ swallowed \in 0 .. MaxCancels + 1
  /\ verified \in successes .. attempts
  /\ started = attempts
  /\ finished \in 0 .. started

Init ==
  /\ pc = "resolving"
  /\ speedTest \in BOOLEAN
  /\ redirects = 0
  /\ pinned = {}
  /\ contacted = {}
  /\ list = NoList
  /\ keys = 0
  /\ attempts = 0
  /\ successes = 0
  /\ inconclusive = FALSE
  /\ outcome = "none"
  /\ result = "none"
  /\ timer = "armed"
  /\ interrupt = FALSE
  /\ requests = 0
  /\ cancelling = 0
  /\ swallowed = 0
  /\ verified = 0
  /\ started = 0
  /\ finished = 0

Resumes(l) == pc = l /\ ~interrupt

\* The end of verify_subscription: what the attempts say, whatever ended them.
Verdict ==
  IF successes > 0 THEN "success" ELSE IF inconclusive THEN "inconclusive" ELSE "failed"

Ends(r) ==
  /\ pc' = "end"
  /\ result' = r
  /\ timer' = IF timer = "fired" THEN "fired" ELSE "off"

-----------------------------------------------------------------------------
(* fetch_subscription: one hop after the other, and the list.              *)

\* Faulty: one public address is enough.
ResolvedSome ==
  /\ Resumes("resolving")
  /\ \E addresses \in SUBSET Addresses :
       IF "global" \in addresses
       THEN pc' = "connecting" /\ pinned' = addresses /\ UNCHANGED <<result, timer>>
       ELSE Ends(Verdict) /\ UNCHANGED pinned
  /\ UNCHANGED <<redirects, contacted, list, loopVars, cancelVars, historyVars>>

\* The URL's host is looked up, or is an address itself.  No address, or one that
\* is not public, is a SubscriptionError.
Resolved ==
  /\ Resumes("resolving")
  /\ \E addresses \in SUBSET Addresses :
       IF addresses = {"global"}
       THEN pc' = "connecting" /\ pinned' = addresses /\ UNCHANGED <<result, timer>>
       ELSE Ends(Verdict) /\ UNCHANGED pinned
  /\ UNCHANGED <<redirects, contacted, list, loopVars, cancelVars, historyVars>>

\* A host name that the idna codec of getaddrinfo refuses, with an empty or too long
\* label: UnicodeError, which nothing catches.
LookupRaises ==
  /\ Resumes("resolving")
  /\ Ends("raised")
  /\ UNCHANGED <<fetchVars, loopVars, cancelVars, historyVars>>

\* The session asks the PinnedResolver, whatever the DNS would say by now.
Connected ==
  /\ Resumes("connecting")
  /\ \E a \in pinned : contacted' = contacted \union {a}
  /\ pc' = "downloading"
  /\ UNCHANGED <<redirects, pinned, list, loopVars, result, timer, cancelVars, historyVars>>

\* Faulty: follows every redirect, back to a page it came from too.
RedirectRound ==
  /\ Resumes("downloading")
  /\ redirects' = IF redirects < MaxRedirects THEN redirects + 1 ELSE 0
  /\ pinned' = {}
  /\ pc' = "resolving"
  /\ UNCHANGED <<contacted, list, loopVars, result, timer, cancelVars, historyVars>>

\* A redirect is followed if the limit allows another, from the look-up on.
Redirect ==
  /\ Resumes("downloading")
  /\ redirects < MaxRedirects
  /\ redirects' = redirects + 1
  /\ pinned' = {}
  /\ pc' = "resolving"
  /\ UNCHANGED <<contacted, list, loopVars, result, timer, cancelVars, historyVars>>

\* No connection, a response that breaks off, is too long or of no use, a redirect
\* too many or to a refused URL, or a request that timed out by itself.
DownloadFails ==
  /\ Resumes("connecting") \/ Resumes("downloading")
  /\ Ends(Verdict)
  /\ UNCHANGED <<fetchVars, loopVars, cancelVars, historyVars>>

\* A redirect to a URL that urljoin or urlsplit refuse: nothing catches it.
RedirectRaises ==
  /\ Resumes("downloading")
  /\ redirects < MaxRedirects
  /\ Ends("raised")
  /\ UNCHANGED <<fetchVars, loopVars, cancelVars, historyVars>>

\* _parse_lines: only ConfigurationError makes it skip an entry.
ParsedLines(l) ==
  CASE l.stop = "nested" -> "SubscriptionError"
    [] l.stop = "broken" -> "ValueError"
    [] l.stop = "none" -> IF l.entries = 0 THEN "SubscriptionError" ELSE "entries"

\* parse_subscription: what is wrapped has no supported entry on the face of it;
\* any error of the second attempt gives way to that of the first.
ParsedList(l) ==
  IF l.wrapped /\ ParsedLines(l) # "entries" THEN "SubscriptionError" ELSE ParsedLines(l)

Downloaded ==
  /\ Resumes("downloading")
  /\ list' \in Lists
  /\ \/ /\ ParsedList(list') = "entries"
        /\ pc' = "choosing"
        /\ keys' = list'.entries
        /\ UNCHANGED <<result, timer>>
     \/ ParsedList(list') = "SubscriptionError" /\ Ends(Verdict) /\ UNCHANGED keys
     \/ ParsedList(list') = "ValueError" /\ Ends("raised") /\ UNCHANGED keys
  /\ UNCHANGED <<redirects, pinned, contacted, speedTest, attempts, successes, inconclusive, outcome>>
  /\ UNCHANGED <<cancelVars, historyVars>>

-----------------------------------------------------------------------------
(* The loop over the configurations.                                       *)

Enough == keys = 0 \/ attempts >= MaxAttempts \/ successes >= Target

Complete ==
  /\ pc = "choosing"
  /\ Enough
  /\ Ends(Verdict)
  /\ UNCHANGED <<fetchVars, loopVars, cancelVars, historyVars>>

Choose ==
  /\ pc = "choosing"
  /\ ~Enough
  /\ pc' = "announcing"
  /\ keys' = keys - 1
  /\ outcome' = "none"
  /\ UNCHANGED <<fetchVars, speedTest, attempts, successes, inconclusive>>
  /\ UNCHANGED <<result, timer, cancelVars, historyVars>>

\* Faulty: begins the attempt although the call was cancelled.
AnnouncedAnyway ==
  /\ pc = "announcing"
  /\ pc' = "verifying"
  /\ attempts' = attempts + 1
  /\ started' = started + 1
  /\ UNCHANGED <<fetchVars, speedTest, keys, successes, inconclusive, outcome>>
  /\ UNCHANGED <<result, timer, cancelVars, verified, finished>>

\* on_attempt_started has returned: the attempt counts.
Announced ==
  /\ Resumes("announcing")
  /\ pc' = "verifying"
  /\ attempts' = attempts + 1
  /\ started' = started + 1
  /\ UNCHANGED <<fetchVars, speedTest, keys, successes, inconclusive, outcome>>
  /\ UNCHANGED <<result, timer, cancelVars, verified, finished>>

Verified ==
  /\ Resumes("verifying")
  /\ outcome' \in KeyOutcomes
  /\ verified' = IF outcome' = "success" THEN verified + 1 ELSE verified
  /\ pc' = IF outcome' = "success" /\ speedTest THEN "measuring" ELSE "reporting"
  /\ UNCHANGED <<fetchVars, speedTest, keys, attempts, successes, inconclusive>>
  /\ UNCHANGED <<result, timer, cancelVars, started, finished>>

\* verify_key is cancelled while it joins its observer, and goes on.
CancelSwallowed ==
  /\ pc = "verifying"
  /\ interrupt
  /\ interrupt' = FALSE
  /\ swallowed' = swallowed + 1
  /\ UNCHANGED <<pc, fetchVars, loopVars, result, timer, requests, cancelling, historyVars>>

\* The speed, known or not, changes no outcome.
Measured ==
  /\ Resumes("measuring")
  /\ pc' = "reporting"
  /\ UNCHANGED <<fetchVars, loopVars, result, timer, cancelVars, historyVars>>

\* An exception that verify_key and measure_speed do not expect, such as the
\* ValueError of a line of output that is too long.
AttemptRaises ==
  /\ Resumes("verifying") \/ Resumes("measuring")
  /\ Ends("raised")
  /\ UNCHANGED <<fetchVars, loopVars, cancelVars, historyVars>>

\* Faulty: an attempt that failed is not reported.
ReportedSome ==
  /\ Resumes("reporting")
  /\ pc' = "choosing"
  /\ successes' = IF outcome = "success" THEN successes + 1 ELSE successes
  /\ inconclusive' = (inconclusive \/ outcome = "inconclusive")
  /\ finished' = IF outcome = "failed" THEN finished ELSE finished + 1
  /\ UNCHANGED <<fetchVars, speedTest, keys, attempts, outcome>>
  /\ UNCHANGED <<result, timer, cancelVars, verified, started>>

\* Faulty: the success is counted only if no key was inconclusive before.
ReportedLess ==
  /\ Resumes("reporting")
  /\ pc' = "choosing"
  /\ successes' = IF outcome = "success" /\ ~inconclusive THEN successes + 1 ELSE successes
  /\ inconclusive' = (inconclusive \/ outcome = "inconclusive")
  /\ finished' = finished + 1
  /\ UNCHANGED <<fetchVars, speedTest, keys, attempts, outcome>>
  /\ UNCHANGED <<result, timer, cancelVars, verified, started>>

\* on_attempt_finished has returned: only now the outcome counts.
Reported ==
  /\ Resumes("reporting")
  /\ pc' = "choosing"
  /\ successes' = IF outcome = "success" THEN successes + 1 ELSE successes
  /\ inconclusive' = (inconclusive \/ outcome = "inconclusive")
  /\ finished' = finished + 1
  /\ UNCHANGED <<fetchVars, speedTest, keys, attempts, outcome>>
  /\ UNCHANGED <<result, timer, cancelVars, verified, started>>

-----------------------------------------------------------------------------
(* Cancellation.                                                           *)

\* Faulty: a timeout that went off always ends with the verdict.
InterruptedLate ==
  /\ pc \in Awaits
  /\ interrupt
  /\ interrupt' = FALSE
  /\ cancelling' = IF timer = "fired" THEN cancelling - 1 ELSE cancelling
  /\ Ends(IF timer = "fired" THEN Verdict ELSE "raised")
  /\ UNCHANGED <<fetchVars, loopVars, requests, swallowed, historyVars>>

\* CancelledError at an await.  The timeout takes its own cancel() back; if
\* nobody else cancelled, the attempts so far give the verdict.
Interrupted ==
  /\ pc \in Awaits
  /\ interrupt
  /\ interrupt' = FALSE
  /\ cancelling' = IF timer = "fired" THEN cancelling - 1 ELSE cancelling
  /\ Ends(IF timer = "fired" /\ cancelling' = 0 THEN Verdict ELSE "raised")
  /\ UNCHANGED <<fetchVars, loopVars, requests, swallowed, historyVars>>

Cancel ==
  /\ pc \in Awaits
  /\ requests < MaxCancels
  /\ requests' = requests + 1
  /\ cancelling' = cancelling + 1
  /\ interrupt' = TRUE
  /\ UNCHANGED <<pc, fetchVars, loopVars, result, timer, swallowed, historyVars>>

TimerExpires ==
  /\ pc \in Awaits
  /\ timer = "armed"
  /\ timer' = "fired"
  /\ cancelling' = cancelling + 1
  /\ interrupt' = TRUE
  /\ UNCHANGED <<pc, fetchVars, loopVars, result, requests, swallowed, historyVars>>

-----------------------------------------------------------------------------
Fetch ==
  \/ Resolved \/ LookupRaises \/ Connected \/ Redirect \/ RedirectRaises \/ DownloadFails
  \/ Downloaded

Loop ==
  \/ Complete \/ Choose \/ Announced \/ Verified \/ CancelSwallowed \/ Measured
  \/ AttemptRaises \/ Reported

Next == Fetch \/ Loop \/ Interrupted \/ Cancel \/ TimerExpires

\* A look-up ends, a download ends by its own timeout, verify_key and measure_speed end (module
\* VerifyKey), the callbacks return, and ready tasks run.  The timer of the
\* whole subscription need not go off.
Fairness == WF_vars(Fetch \/ Loop \/ Interrupted)

Spec == Init /\ [][Next]_vars /\ Fairness

-----------------------------------------------------------------------------
(* Properties.                                                             *)

\* A key that was verified is missing from the verdict only because the timeout
\* of the subscription went off between its verification and its report, and
\* then at most one is (subscription.py:244-253).
VerdictMissesLittle ==
  /\ verified <= successes + 1
  /\ result \in {"failed", "inconclusive"} /\ verified > 0 => timer = "fired"

\* "SSRF-resistant" (subscription.py:1): whatever a host name resolves to at each
\* moment and wherever redirects lead, only public addresses are connected to, on
\* every hop (subscription.py:93-98, 175-186).
OnlyPublicContacted == contacted \subseteq {"global"}

\* on_attempt_finished follows on_attempt_started before the next attempt; only
\* the last one may lack it, in a call that timed out or raised
\* (subscription.py:242-248).
ReportsFollow ==
  /\ started <= finished + 1
  /\ pc = "end" /\ started # finished => timer = "fired" \/ result = "raised"

\* Unless a key swallows it, a cancellation by others ends the call with
\* CancelledError, also if the timeout goes off as well (subscription.py:233-253).
CancellationPassedOn == pc = "end" /\ requests > 0 /\ swallowed = 0 => result = "raised"

\* Once the timeout has gone off no attempt is begun, unless a key swallows it.
TimeoutEndsAttempts ==
  [][timer = "fired" /\ swallowed = 0 => attempts' = attempts]_vars

\* The call ends by itself, the timeout aside: the list, the redirects and the
\* attempts are bounded.
SubscriptionEnds == <>(pc = "end")

\* "bounded verification" (subscription.py:1): once subscription_check_timeout
\* has passed, no further attempt is begun.
Bounded == [][timer = "fired" => attempts' = attempts]_vars
=============================================================================
