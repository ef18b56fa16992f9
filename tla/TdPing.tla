------------------------------- MODULE TdPing -------------------------------
(***************************************************************************)
(* tdlib.py: ping_telegram_proxy, and TdJson.ping which it runs in a       *)
(* thread.  Several pings may run in one process.  Every ping has a TDLib  *)
(* client of its own, but td_receive hands the next response for ANY       *)
(* client to whichever thread calls it.                                    *)
(*                                                                         *)
(* TDLib is external: it answers any request that was sent to it at any    *)
(* time, or never.  A response and the request it answers are one thing    *)
(* here, a record in "sent" until somebody receives it.  When TDLib lets   *)
(* go of a closed client's directory is not modelled.                      *)
(***************************************************************************)
EXTENDS Naturals

CONSTANTS
  Pings,         \* the calls of ping_telegram_proxy
  Dcs,           \* dc_ids: the data centres that each of them tests
  MaxCancels     \* bound: how often each call is cancelled

\* The data centres anybody tests.
AllDcs == UNION {Dcs[p] : p \in Pings}

ASSUME DcsAssumption ==
  /\ \A p \in Pings : Dcs[p] # {}
  /\ AllDcs \intersect {"parameters", "network"} = {}
ASSUME CancelsAssumption == MaxCancels \in Nat

VARIABLES
  caller,        \* where the coroutine is, or how it ended
  interrupt,     \* a CancelledError will be thrown at its next step
  requests,      \* how often it was cancelled
  stop,          \* stop_requested, the event shared with the thread
  thread,        \* the thread of the ping
  step,          \* which of TDLib's answers the thread waits for
  clock,         \* the deadline of that step
  pending,       \* data centres whose test is not answered
  tests,         \* result of each test
  outcome,       \* how TdJson.ping ended; "error" is TdlibError
  sent,          \* requests whose response nobody has received
  granted,       \* history: requests that TDLib answered with "ok"
  refused,       \* history: pings of which TDLib refused a request
  garbled        \* history: pings that received malformed JSON, whoever's it was

callerVars == <<caller, interrupt, requests, stop>>
pingVars == <<step, clock, pending, tests>>
historyVars == <<granted, refused, garbled>>
vars == <<callerVars, thread, pingVars, outcome, sent, historyVars>>

Request(p, w) == [ping |-> p, what |-> w]
Requests == [ping : Pings, what : AllDcs \union {"parameters", "network"}]

Waiting == {"waiting", "insisting"}

\* A thread is over, or the executor dropped its work before it began.
ThreadEnded(p) == thread[p] \in {"over", "dropped"}

TypeOK ==
  /\ caller \in [Pings -> Waiting \union {"returned", "failed", "cancelled"}]
  /\ interrupt \in [Pings -> BOOLEAN]
  /\ requests \in [Pings -> 0 .. MaxCancels]
  /\ stop \in [Pings -> BOOLEAN]
  /\ thread \in [Pings -> {"queued", "checking", "receiving", "over", "dropped"}]
  /\ step \in [Pings -> {"parameters", "network", "testing"}]
  /\ clock \in [Pings -> {"ahead", "passed"}]
  /\ pending \in [Pings -> SUBSET AllDcs]
  /\ tests \in [Pings -> [AllDcs -> {"none", "ok", "failed"}]]
  /\ outcome \in [Pings -> {"none", "result", "error", "unable"}]
  /\ sent \subseteq Requests
  /\ granted \subseteq Requests
  /\ refused \subseteq Pings
  /\ garbled \subseteq Pings
  /\ \A p \in Pings : outcome[p] = "none" <=> thread[p] # "over"

Init ==
  /\ caller = [p \in Pings |-> "waiting"]
  /\ interrupt = [p \in Pings |-> FALSE]
  /\ requests = [p \in Pings |-> 0]
  /\ stop = [p \in Pings |-> FALSE]
  /\ thread = [p \in Pings |-> "queued"]
  /\ step = [p \in Pings |-> "parameters"]
  /\ clock = [p \in Pings |-> "ahead"]
  /\ pending = [p \in Pings |-> {}]
  /\ tests = [p \in Pings |-> [d \in AllDcs |-> "none"]]
  /\ outcome = [p \in Pings |-> "none"]
  /\ sent = {}
  /\ granted = {}
  /\ refused = {}
  /\ garbled = {}

-----------------------------------------------------------------------------
(* The thread, TdJson.ping.                                                *)

\* The client is created, and its parameters are sent.
Begin(p) ==
  /\ thread[p] = "queued"
  /\ thread' = [thread EXCEPT ![p] = "checking"]
  /\ sent' = sent \union {Request(p, "parameters")}
  /\ UNCHANGED <<callerVars, pingVars, outcome, historyVars>>

\* The exception e, or "result", leaves TdJson.ping.
Ends(p, e) ==
  /\ thread' = [thread EXCEPT ![p] = "over"]
  /\ outcome' = [outcome EXCEPT ![p] = e]

\* No library, or no temporary directory.
BeginFails(p) ==
  /\ thread[p] = "queued"
  /\ Ends(p, "unable")
  /\ UNCHANGED <<callerVars, pingVars, sent, historyVars>>

\* The loops of _request and of ping begin each turn with the same two checks.
StopSeen(p) ==
  /\ thread[p] = "checking"
  /\ stop[p]
  /\ Ends(p, "error")
  /\ UNCHANGED <<callerVars, pingVars, sent, historyVars>>

\* Faulty: the tests without an answer are left out.
ConcludeBriefly(p, results) ==
  /\ tests' = [tests EXCEPT ![p] = results]
  /\ Ends(p, IF \E d \in Dcs[p] : results[d] = "ok" THEN "result" ELSE "error")

\* The loop of the tests is over: those without an answer have timed out, and
\* one that succeeded makes the ping a success.
Conclude(p, results) ==
  /\ tests' = [tests EXCEPT ![p] =
                 [d \in AllDcs |-> IF d \in pending'[p] THEN "failed" ELSE results[d]]]
  /\ Ends(p, IF \E d \in Dcs[p] : results[d] = "ok" THEN "result" ELSE "error")

\* Faulty: the set-up requests are not given up.
TimeUpInTests(p) ==
  /\ thread[p] = "checking"
  /\ ~stop[p]
  /\ clock[p] = "passed"
  /\ step[p] = "testing"
  /\ UNCHANGED <<callerVars, step, clock, pending, sent, historyVars>>
  /\ Conclude(p, tests[p])

TimeUp(p) ==
  /\ thread[p] = "checking"
  /\ ~stop[p]
  /\ clock[p] = "passed"
  /\ UNCHANGED <<callerVars, step, clock, pending, sent, historyVars>>
  /\ IF step[p] = "testing" THEN Conclude(p, tests[p])
     ELSE Ends(p, "error") /\ UNCHANGED tests

Poll(p) ==
  /\ thread[p] = "checking"
  /\ ~stop[p]
  /\ clock[p] = "ahead"
  /\ thread' = [thread EXCEPT ![p] = "receiving"]
  /\ UNCHANGED <<callerVars, pingVars, outcome, sent, historyVars>>

\* td_receive times out after a second at most, or returns an update.
ReceiveNothing(p) ==
  /\ thread[p] = "receiving"
  /\ thread' = [thread EXCEPT ![p] = "checking"]
  /\ UNCHANGED <<callerVars, pingVars, outcome, sent, historyVars>>

\* Malformed JSON ends the ping, whoever it was meant for.
ReceiveMalformed(p, r) ==
  /\ thread[p] = "receiving"
  /\ r \in sent
  /\ sent' = sent \ {r}
  /\ garbled' = garbled \union {p}
  /\ Ends(p, "error")
  /\ UNCHANGED <<callerVars, pingVars, granted, refused>>

Grants(r, ok) == granted' = IF ok THEN granted \union {r} ELSE granted
Refuses(p, ok) == refused' = IF ok THEN refused ELSE refused \union {p}

\* Faulty: an error is taken to be about one's own request.
ReceiveForeignError(p, r, ok) ==
  /\ thread[p] = "receiving"
  /\ r \in sent
  /\ r.ping # p
  /\ sent' = sent \ {r}
  /\ IF ok THEN thread' = [thread EXCEPT ![p] = "checking"] /\ UNCHANGED outcome
     ELSE Ends(p, "error")
  /\ Grants(r, ok)
  /\ UNCHANGED <<callerVars, pingVars, refused, garbled>>

\* The response to a request of another client, which now never sees it.
ReceiveForeign(p, r, ok) ==
  /\ thread[p] = "receiving"
  /\ r \in sent
  /\ r.ping # p
  /\ sent' = sent \ {r}
  /\ thread' = [thread EXCEPT ![p] = "checking"]
  /\ Grants(r, ok)
  /\ UNCHANGED <<callerVars, pingVars, outcome, refused, garbled>>

\* A request of the set-up is answered: the next one is sent, or all the tests.
\* Their deadline is a new one.
ReceiveSetUp(p, r, ok) ==
  /\ thread[p] = "receiving"
  /\ r \in sent
  /\ r = Request(p, step[p])
  /\ Grants(r, ok)
  /\ Refuses(p, ok)
  /\ IF ~ok
     THEN Ends(p, "error") /\ sent' = sent \ {r} /\ UNCHANGED pingVars
     ELSE /\ thread' = [thread EXCEPT ![p] = "checking"]
          /\ UNCHANGED <<outcome, tests>>
          /\ IF step[p] = "parameters"
             THEN /\ step' = [step EXCEPT ![p] = "network"]
                  /\ sent' = (sent \ {r}) \union {Request(p, "network")}
                  /\ UNCHANGED <<clock, pending>>
             ELSE /\ step' = [step EXCEPT ![p] = "testing"]
                  /\ sent' = (sent \ {r}) \union {Request(p, d) : d \in Dcs[p]}
                  /\ clock' = [clock EXCEPT ![p] = "ahead"]
                  /\ pending' = [pending EXCEPT ![p] = Dcs[p]]
  /\ UNCHANGED <<callerVars, garbled>>

\* What a test's answer changes in the ping that receives it.
Counts(p, r, ok) ==
  LET results == [tests[p] EXCEPT ![r.what] = IF ok THEN "ok" ELSE "failed"]
  IN /\ sent' = sent \ {r}
     /\ Grants(r, ok)
     /\ Refuses(p, ok)
     /\ pending' = [pending EXCEPT ![p] = @ \ {r.what}]
     /\ IF pending'[p] = {} THEN Conclude(p, results)
        ELSE /\ tests' = [tests EXCEPT ![p] = results]
             /\ thread' = [thread EXCEPT ![p] = "checking"]
             /\ UNCHANGED outcome
     /\ UNCHANGED <<callerVars, step, clock, garbled>>

\* Faulty: a test is known by its data centre alone.
ReceiveTestByDc(p, r, ok) ==
  /\ thread[p] = "receiving"
  /\ r \in sent
  /\ step[p] = "testing"
  /\ r.what \in pending[p]
  /\ Counts(p, r, ok)

ReceiveTest(p, r, ok) ==
  /\ thread[p] = "receiving"
  /\ r \in sent
  /\ r.ping = p
  /\ step[p] = "testing"
  /\ r.what \in pending[p]
  /\ Counts(p, r, ok)

-----------------------------------------------------------------------------
(* The coroutine, ping_telegram_proxy.                                     *)

\* The first cancellation hits the shielded await.  Later ones hit the thread's
\* task itself: they reach the executor, which drops work it has not begun, and
\* cannot reach a thread that runs.
Cancel(p) ==
  /\ caller[p] \in Waiting
  /\ requests[p] < MaxCancels
  /\ requests' = [requests EXCEPT ![p] = @ + 1]
  /\ interrupt' = [interrupt EXCEPT ![p] = TRUE]
  /\ thread' = IF caller[p] = "insisting" /\ thread[p] = "queued"
               THEN [thread EXCEPT ![p] = "dropped"] ELSE thread
  /\ UNCHANGED <<caller, stop, pingVars, outcome, sent, historyVars>>

\* The thread's result or exception is the call's.
Return(p) ==
  /\ caller[p] = "waiting"
  /\ ~interrupt[p]
  /\ ThreadEnded(p)
  /\ caller' = [caller EXCEPT ![p] = IF outcome[p] = "result" THEN "returned" ELSE "failed"]
  /\ UNCHANGED <<interrupt, requests, stop, thread, pingVars, outcome, sent, historyVars>>

\* Faulty: does not wait for the thread.
InterruptedLeaves(p) ==
  /\ caller[p] = "waiting"
  /\ interrupt[p]
  /\ interrupt' = [interrupt EXCEPT ![p] = FALSE]
  /\ stop' = [stop EXCEPT ![p] = TRUE]
  /\ caller' = [caller EXCEPT ![p] = "cancelled"]
  /\ UNCHANGED <<requests, thread, pingVars, outcome, sent, historyVars>>

\* CancelledError: the thread is told to stop, and awaited.
Interrupted(p) ==
  /\ caller[p] = "waiting"
  /\ interrupt[p]
  /\ interrupt' = [interrupt EXCEPT ![p] = FALSE]
  /\ stop' = [stop EXCEPT ![p] = TRUE]
  /\ caller' = [caller EXCEPT ![p] = IF ThreadEnded(p) THEN "cancelled" ELSE "insisting"]
  /\ UNCHANGED <<requests, thread, pingVars, outcome, sent, historyVars>>

\* Faulty: an exception of the thread takes the place of the cancellation.
InsistedFails(p) ==
  /\ caller[p] = "insisting"
  /\ interrupt[p] \/ ThreadEnded(p)
  /\ interrupt' = [interrupt EXCEPT ![p] = FALSE]
  /\ caller' = [caller EXCEPT ![p] =
                  IF ~interrupt[p] /\ outcome[p] = "error" THEN "failed" ELSE "cancelled"]
  /\ UNCHANGED <<requests, stop, thread, pingVars, outcome, sent, historyVars>>

\* The thread has ended, with whatever result; or a second CancelledError, which
\* suppress(Exception) does not hold back.
Insisted(p) ==
  /\ caller[p] = "insisting"
  /\ interrupt[p] \/ ThreadEnded(p)
  /\ interrupt' = [interrupt EXCEPT ![p] = FALSE]
  /\ caller' = [caller EXCEPT ![p] = "cancelled"]
  /\ UNCHANGED <<requests, stop, thread, pingVars, outcome, sent, historyVars>>

-----------------------------------------------------------------------------
DeadlinePasses(p) ==
  /\ thread[p] \in {"checking", "receiving"}
  /\ clock[p] = "ahead"
  /\ clock' = [clock EXCEPT ![p] = "passed"]
  /\ UNCHANGED <<callerVars, thread, step, pending, tests, outcome, sent, historyVars>>

Receive(p) ==
  \/ ReceiveNothing(p)
  \/ \E r \in sent : ReceiveMalformed(p, r)
  \/ \E r \in sent, ok \in BOOLEAN :
       ReceiveForeign(p, r, ok) \/ ReceiveSetUp(p, r, ok) \/ ReceiveTest(p, r, ok)

Thread(p) == Begin(p) \/ BeginFails(p) \/ StopSeen(p) \/ TimeUp(p) \/ Poll(p) \/ Receive(p)

Coroutine(p) == Return(p) \/ Interrupted(p) \/ Insisted(p)

Next == \E p \in Pings : Thread(p) \/ Coroutine(p) \/ DeadlinePasses(p) \/ Cancel(p)

\* Threads and ready coroutines run, td_receive returns, clocks advance.  TDLib
\* need not answer.
Fairness ==
  \A p \in Pings :
    WF_vars(Thread(p)) /\ WF_vars(Coroutine(p)) /\ WF_vars(DeadlinePasses(p))

Spec == Init /\ [][Next]_vars /\ Fairness

-----------------------------------------------------------------------------
(* Properties.                                                             *)

\* However the responses of several pings get mixed up in td_receive, a ping
\* reports a proxy as working only if TDLib said so of a test that this ping
\* asked for (tdlib.py:203-214, 233-237).
SuccessIsOwn ==
  \A p \in Pings : caller[p] = "returned" => \E d \in Dcs[p] : Request(p, d) \in granted

\* Every data centre has a result when the ping has one, also those whose answer
\* came late or went to another ping (tdlib.py:227-233).
EveryDcReported ==
  \A p \in Pings : outcome[p] = "result" => \A d \in Dcs[p] : tests[p][d] # "none"

\* TdlibError leaves a ping because TDLib refused one of its own requests, because
\* it received malformed JSON, because time was up, or because it was stopped.
\* Other pings harm it in two ways: they take its answers, which costs it time, and
\* it may be the one to receive a malformed response of theirs, which is parsed
\* before anybody asks whose it is (tdlib.py:197-202, 262-267).  What TDLib refuses
\* to another ping does not end this one.
FailureHasCause ==
  \A p \in Pings :
    outcome[p] = "error" =>
      p \in refused \/ p \in garbled \/ clock[p] = "passed" \/ stop[p]

\* The call leaves its thread behind only if it was cancelled twice, and then the
\* thread has been told to stop (tdlib.py:350-356).
ThreadOnlyLeftTold ==
  \A p \in Pings :
    caller[p] \notin Waiting /\ ~ThreadEnded(p) => requests[p] > 1 /\ stop[p]

\* A cancelled call ends with CancelledError, and no other call does.
CancellationKept ==
  \A p \in Pings : caller[p] \notin Waiting => (caller[p] = "cancelled" <=> requests[p] > 0)

\* Every call and every thread end, whatever TDLib answers and whoever takes it.
PingsEnd == \A p \in Pings : <>[](caller[p] \notin Waiting /\ ThreadEnded(p))
=============================================================================
