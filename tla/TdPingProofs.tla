---------------------------- MODULE TdPingProofs ----------------------------
(***************************************************************************)
(* Proofs about TdPing, for any number of pings in one process, any data   *)
(* centres and any number of cancellations: the type invariant, whose      *)
(* answers make a ping a success or a failure, and what a cancelled call   *)
(* leaves behind.                                                          *)
(***************************************************************************)
EXTENDS TdPing, TLAPS

\* A test that counts as passed is one that TDLib granted to this very ping; one
\* that was answered otherwise was refused.
TestsInv(p) ==
  /\ \A d \in AllDcs : tests[p][d] = "ok" => d \in Dcs[p] /\ Request(p, d) \in granted
  /\ pending[p] \subseteq Dcs[p]
  /\ step[p] = "testing" =>
       \A d \in Dcs[p] \ pending[p] :
         tests[p][d] = "ok" \/ (tests[p][d] = "failed" /\ p \in refused)

\* What is behind the end of the thread.
OutcomeInv(p) ==
  /\ outcome[p] = "result" => \E d \in Dcs[p] : Request(p, d) \in granted
  /\ outcome[p] = "result" => \A d \in Dcs[p] : tests[p][d] # "none"
  /\ outcome[p] = "error" => p \in refused \/ p \in garbled \/ clock[p] = "passed" \/ stop[p]

\* The coroutine: its first cancellation makes it stop the thread and wait, a
\* second one lets it go.
CallInv(p) ==
  /\ caller[p] = "waiting" => (interrupt[p] <=> requests[p] > 0)
  /\ caller[p] = "insisting" => stop[p] /\ requests[p] > 0
  /\ caller[p] = "insisting" /\ interrupt[p] => requests[p] > 1
  /\ caller[p] = "returned" => outcome[p] = "result"
  /\ caller[p] \in {"returned", "failed"} => ThreadEnded(p) /\ requests[p] = 0
  /\ caller[p] = "cancelled" =>
       requests[p] > 0 /\ (ThreadEnded(p) \/ (requests[p] > 1 /\ stop[p]))

PingInv(p) == TestsInv(p) /\ OutcomeInv(p) /\ CallInv(p)

IInv == TypeOK /\ \A p \in Pings : PingInv(p)

-----------------------------------------------------------------------------
LEMMA DcsAreAll == \A p \in Pings : Dcs[p] \subseteq AllDcs
BY DEF AllDcs

LEMMA InitInv == Init => IInv
<1> SUFFICES ASSUME Init PROVE IInv
  OBVIOUS
<1>1. 0 \in 0 .. MaxCancels
  BY CancelsAssumption
<1>2. TypeOK
  BY <1>1 DEF Init, TypeOK, Waiting
<1>3. ASSUME NEW p \in Pings PROVE PingInv(p)
  <2>1. TestsInv(p)
    BY DcsAreAll DEF Init, TestsInv
  <2>2. OutcomeInv(p)
    BY DEF Init, OutcomeInv
  <2>3. CallInv(p)
    BY DEF Init, CallInv
  <2> QED
    BY <2>1, <2>2, <2>3 DEF PingInv
<1> QED
  BY <1>2, <1>3 DEF IInv

-----------------------------------------------------------------------------
(* The steps of a thread.                                                  *)

\* Creating the client, and the two checks of each turn.
LEMMA CheckStep ==
  ASSUME IInv, NEW p \in Pings,
         Begin(p) \/ BeginFails(p) \/ StopSeen(p) \/ Poll(p) \/ ReceiveNothing(p)
  PROVE  IInv'
<1> USE DEF callerVars, pingVars, historyVars
<1>1. TypeOK'
  <2> USE DEF IInv, TypeOK, Ends
  <2>1. CASE Begin(p)
    <3>1. sent' \subseteq Requests
      BY <2>1 DEF Begin, Request, Requests
    <3> QED
      BY <2>1, <3>1 DEF Begin
  <2>2. CASE BeginFails(p)
    BY <2>2 DEF BeginFails
  <2>3. CASE StopSeen(p)
    BY <2>3 DEF StopSeen
  <2>4. CASE Poll(p)
    BY <2>4 DEF Poll
  <2>5. CASE ReceiveNothing(p)
    BY <2>5 DEF ReceiveNothing
  <2> QED
    BY <2>1, <2>2, <2>3, <2>4, <2>5
<1>2. ASSUME NEW q \in Pings PROVE PingInv(q)'
  <2>1. PingInv(q)
    BY <1>2 DEF IInv
  <2> QED
    BY <2>1 DEF IInv, TypeOK, PingInv, TestsInv, OutcomeInv, CallInv, ThreadEnded,
       Begin, BeginFails, StopSeen, Poll, ReceiveNothing, Ends
<1> QED
  BY <1>1, <1>2 DEF IInv

\* The thread ends with outcome e.
LEMMA EndsType ==
  ASSUME TypeOK, NEW p \in Pings, NEW e \in {"result", "error", "unable"}, Ends(p, e)
  PROVE  /\ thread' \in [Pings -> {"queued", "checking", "receiving", "over", "dropped"}]
         /\ outcome' \in [Pings -> {"none", "result", "error", "unable"}]
         /\ \A q \in Pings : outcome'[q] = "none" <=> thread'[q] # "over"
BY DEF TypeOK, Ends

\* The thread goes on with its next turn.
LEMMA TurnType ==
  ASSUME TypeOK, NEW p \in Pings, thread[p] = "receiving",
         thread' = [thread EXCEPT ![p] = "checking"], UNCHANGED outcome
  PROVE  /\ thread' \in [Pings -> {"queued", "checking", "receiving", "over", "dropped"}]
         /\ \A q \in Pings : outcome'[q] = "none" <=> thread'[q] # "over"
BY DEF TypeOK

\* The end of the loop of the tests, with no test pending that is not reported.
LEMMA ConcludeStep ==
  ASSUME IInv, NEW p \in Pings, NEW results \in [AllDcs -> {"none", "ok", "failed"}],
         Conclude(p, results),
         thread[p] \in {"checking", "receiving"}, step[p] = "testing",
         pending' \in [Pings -> SUBSET AllDcs], pending'[p] \subseteq Dcs[p],
         \A q \in Pings \ {p} : pending'[q] = pending[q],
         UNCHANGED <<callerVars, step, clock>>,
         sent' \subseteq Requests,
         granted' \subseteq Requests, granted \subseteq granted',
         refused' \subseteq Pings, refused \subseteq refused', UNCHANGED garbled,
         \A d \in AllDcs : results[d] = "ok" => d \in Dcs[p] /\ Request(p, d) \in granted',
         \A d \in Dcs[p] \ pending'[p] :
           results[d] = "ok" \/ (results[d] = "failed" /\ p \in refused'),
         p \in refused' \/ clock[p] = "passed" \/ Dcs[p] \intersect pending'[p] = {}
  PROVE  IInv'
<1> DEFINE late == [d \in AllDcs |-> IF d \in pending'[p] THEN "failed" ELSE results[d]]
           e == IF \E d \in Dcs[p] : results[d] = "ok" THEN "result" ELSE "error"
<1>1. late \in [AllDcs -> {"none", "ok", "failed"}] /\ e \in {"result", "error"}
  OBVIOUS
<1>2. tests' = [tests EXCEPT ![p] = late]
  BY DEF Conclude
<1>3. /\ thread' = [thread EXCEPT ![p] = "over"]
      /\ outcome' = [outcome EXCEPT ![p] = e]
  BY DEF Conclude, Ends
<1>4. e = "result" => \E d \in Dcs[p] : Request(p, d) \in granted'
  BY DcsAreAll
<1>5. \A d \in Dcs[p] : late[d] # "none"
  BY DcsAreAll
<1>6. e = "error" => p \in refused' \/ clock[p] = "passed"
  BY DcsAreAll, DcsAssumption
<1>7. \A d \in AllDcs : late[d] = "ok" => d \in Dcs[p] /\ Request(p, d) \in granted'
  OBVIOUS
<1>8. \A d \in Dcs[p] \ pending'[p] : late[d] = "ok" \/ (late[d] = "failed" /\ p \in refused')
  BY DcsAreAll
<1> HIDE DEF late, e
<1> USE DEF callerVars
<1>9. TypeOK'
  BY <1>1, <1>2, <1>3 DEF IInv, TypeOK
<1>10. ASSUME NEW q \in Pings PROVE PingInv(q)'
  <2>1. PingInv(q)
    BY <1>10 DEF IInv
  <2>2. TestsInv(q)'
    BY <2>1, <1>2, <1>7, <1>8 DEF IInv, TypeOK, PingInv, TestsInv
  <2>3. OutcomeInv(q)'
    BY <2>1, <1>2, <1>3, <1>4, <1>5, <1>6, DcsAreAll DEF IInv, TypeOK, PingInv, OutcomeInv
  <2>4. CallInv(q)'
    BY <2>1, <1>3 DEF IInv, TypeOK, PingInv, CallInv, ThreadEnded
  <2> QED
    BY <2>2, <2>3, <2>4 DEF PingInv
<1> QED
  BY <1>9, <1>10 DEF IInv

LEMMA TimeStep == ASSUME IInv, NEW p \in Pings, TimeUp(p) PROVE IInv'
<1> USE DEF callerVars, historyVars, TimeUp
<1>1. CASE step[p] = "testing"
  <2>1. PingInv(p)
    BY DEF IInv
  <2>2. tests[p] \in [AllDcs -> {"none", "ok", "failed"}]
    BY DEF IInv, TypeOK
  <2>3. /\ UNCHANGED <<callerVars, step, clock, pending, sent, granted, refused, garbled>>
        /\ thread[p] = "checking" /\ clock[p] = "passed"
        /\ Conclude(p, tests[p])
    BY <1>1
  <2>4. /\ pending' \in [Pings -> SUBSET AllDcs] /\ sent' \subseteq Requests
        /\ granted' \subseteq Requests /\ refused' \subseteq Pings
    BY <2>3 DEF IInv, TypeOK
  <2>5. /\ pending'[p] \subseteq Dcs[p]
        /\ \A d \in AllDcs : tests[p][d] = "ok" => d \in Dcs[p] /\ Request(p, d) \in granted'
        /\ \A d \in Dcs[p] \ pending'[p] :
             tests[p][d] = "ok" \/ (tests[p][d] = "failed" /\ p \in refused')
    BY <1>1, <2>1, <2>3 DEF PingInv, TestsInv
  <2> HIDE DEF TimeUp, callerVars
  <2> QED
    BY <1>1, <2>2, <2>3, <2>4, <2>5, ConcludeStep
<1>2. CASE step[p] # "testing"
  <2>1. TypeOK'
    BY <1>2, EndsType DEF IInv, TypeOK
  <2>2. ASSUME NEW q \in Pings PROVE PingInv(q)'
    <3>1. PingInv(q)
      BY <2>2 DEF IInv
    <3> QED
      BY <1>2, <3>1 DEF IInv, TypeOK, PingInv, TestsInv, OutcomeInv, CallInv, ThreadEnded, Ends
  <2> QED
    BY <2>1, <2>2 DEF IInv
<1> QED
  BY <1>1, <1>2

\* A response that is malformed, or another ping's.
LEMMA ForeignStep ==
  ASSUME IInv, NEW p \in Pings, NEW r \in sent, NEW ok \in BOOLEAN,
         ReceiveMalformed(p, r) \/ ReceiveForeign(p, r, ok)
  PROVE  IInv'
<1> USE DEF callerVars, pingVars, ReceiveMalformed, ReceiveForeign, Ends, Grants
<1>1. TypeOK'
  <2>1. CASE ReceiveMalformed(p, r)
    <3>1. Ends(p, "error")
      BY <2>1
    <3> HIDE DEF Ends
    <3> QED
      BY <2>1, <3>1, EndsType DEF IInv, TypeOK
  <2>2. CASE ReceiveForeign(p, r, ok)
    BY <2>2, TurnType DEF IInv, TypeOK
  <2> QED
    BY <2>1, <2>2
<1>2. ASSUME NEW q \in Pings PROVE PingInv(q)'
  <2>1. PingInv(q)
    BY <1>2 DEF IInv
  <2> QED
    BY <2>1 DEF IInv, TypeOK, PingInv, TestsInv, OutcomeInv, CallInv, ThreadEnded
<1> QED
  BY <1>1, <1>2 DEF IInv

LEMMA SetUpStep ==
  ASSUME IInv, NEW p \in Pings, NEW r \in sent, NEW ok \in BOOLEAN, ReceiveSetUp(p, r, ok)
  PROVE  IInv'
<1> USE DEF callerVars, pingVars, ReceiveSetUp, Grants, Refuses
<1>1. {Request(p, d) : d \in Dcs[p]} \subseteq Requests /\ Request(p, "network") \in Requests
  BY DcsAreAll DEF Request, Requests
<1>2. CASE ~ok
  <2>1. TypeOK'
    BY <1>2, EndsType DEF IInv, TypeOK
  <2>2. ASSUME NEW q \in Pings PROVE PingInv(q)'
    <3>1. PingInv(q)
      BY <2>2 DEF IInv
    <3> QED
      BY <1>2, <3>1
         DEF IInv, TypeOK, PingInv, TestsInv, OutcomeInv, CallInv, ThreadEnded, Ends
  <2> QED
    BY <2>1, <2>2 DEF IInv
<1>3. CASE ok
  <2>1. TypeOK'
    <3>1. /\ step' \in [Pings -> {"parameters", "network", "testing"}]
          /\ sent' \subseteq Requests
          /\ clock' \in [Pings -> {"ahead", "passed"}]
          /\ pending' \in [Pings -> SUBSET AllDcs]
      <4>1. CASE step[p] = "parameters"
        <5>1. /\ step' = [step EXCEPT ![p] = "network"]
              /\ sent' = (sent \ {r}) \union {Request(p, "network")}
              /\ UNCHANGED <<clock, pending>>
          BY <1>3, <4>1
        <5> QED
          BY <1>1, <5>1 DEF IInv, TypeOK
      <4>2. CASE step[p] # "parameters"
        <5>1. sent' = (sent \ {r}) \union {Request(p, d) : d \in Dcs[p]}
          BY <1>3, <4>2
        <5>2. sent' \subseteq Requests
          BY <1>1, <5>1 DEF IInv, TypeOK
        <5>3. /\ step' = [step EXCEPT ![p] = "testing"]
              /\ clock' = [clock EXCEPT ![p] = "ahead"]
              /\ pending' = [pending EXCEPT ![p] = Dcs[p]]
          BY <1>3, <4>2
        <5> QED
          BY <1>1, <5>2, <5>3, DcsAreAll DEF IInv, TypeOK
      <4> QED
        BY <4>1, <4>2
    <3>2. /\ thread' \in [Pings -> {"queued", "checking", "receiving", "over", "dropped"}]
          /\ \A q \in Pings : outcome'[q] = "none" <=> thread'[q] # "over"
          /\ UNCHANGED <<callerVars, tests, outcome, refused, garbled>>
      BY <1>3, TurnType DEF IInv
    <3>3. granted' \subseteq Requests
      BY DEF IInv, TypeOK
    <3> QED
      BY <3>1, <3>2, <3>3 DEF IInv, TypeOK
  <2>2. ASSUME NEW q \in Pings PROVE PingInv(q)'
    <3>1. PingInv(q)
      BY <2>2 DEF IInv
    <3>2. TestsInv(q)'
      BY <1>3, <3>1 DEF IInv, TypeOK, PingInv, TestsInv
    <3>3. OutcomeInv(q)'
      BY <1>3, <3>1 DEF IInv, TypeOK, PingInv, OutcomeInv
    <3>4. CallInv(q)'
      BY <1>3, <3>1 DEF IInv, TypeOK, PingInv, CallInv, ThreadEnded
    <3> QED
      BY <3>2, <3>3, <3>4 DEF PingInv
  <2> QED
    BY <2>1, <2>2 DEF IInv
<1> QED
  BY <1>2, <1>3

\* The answer of a test, which may be the last one.
LEMMA TestStep ==
  ASSUME IInv, NEW p \in Pings, NEW r \in sent, NEW ok \in BOOLEAN, ReceiveTest(p, r, ok)
  PROVE  IInv'
<1> DEFINE d0 == r.what
           results == [tests[p] EXCEPT ![d0] = IF ok THEN "ok" ELSE "failed"]
<1> USE DEF ReceiveTest, Counts, Grants, Refuses
<1>1. d0 \in Dcs[p] /\ d0 \in AllDcs /\ r = Request(p, d0)
  BY DcsAreAll DEF IInv, TypeOK, PingInv, TestsInv, Requests, Request
<1>2. results \in [AllDcs -> {"none", "ok", "failed"}]
  BY DEF IInv, TypeOK
<1>3. /\ pending' \in [Pings -> SUBSET AllDcs]
      /\ sent' \subseteq Requests
      /\ granted' \subseteq Requests /\ granted \subseteq granted'
      /\ refused' \subseteq Pings /\ refused \subseteq refused' /\ UNCHANGED garbled
  BY DEF IInv, TypeOK
<1>4. \A d \in AllDcs : results[d] = "ok" => d \in Dcs[p] /\ Request(p, d) \in granted'
  BY <1>1 DEF IInv, TypeOK, PingInv, TestsInv
<1>5. \A d \in Dcs[p] \ pending'[p] :
        results[d] = "ok" \/ (results[d] = "failed" /\ p \in refused')
  BY <1>1, DcsAreAll DEF IInv, TypeOK, PingInv, TestsInv
<1>6. /\ pending'[p] \subseteq Dcs[p]
      /\ \A q \in Pings \ {p} : pending'[q] = pending[q]
  BY DEF IInv, TypeOK, PingInv, TestsInv
<1>7. UNCHANGED <<callerVars, step, clock>>
  OBVIOUS
<1>8. CASE pending'[p] = {}
  <2>1. Conclude(p, results) /\ thread[p] = "receiving" /\ step[p] = "testing"
    BY <1>8
  <2> HIDE DEF results, ReceiveTest
  <2> QED
    BY <1>2, <1>3, <1>4, <1>5, <1>6, <1>7, <1>8, <2>1, ConcludeStep
<1>9. CASE pending'[p] # {}
  <2>1. /\ tests' = [tests EXCEPT ![p] = results]
        /\ thread' = [thread EXCEPT ![p] = "checking"]
        /\ thread[p] = "receiving"
        /\ UNCHANGED outcome
    BY <1>9
  <2> HIDE DEF results, ReceiveTest
  <2> USE DEF callerVars
  <2>2. TypeOK'
    BY <1>2, <1>3, <1>7, <2>1, TurnType DEF IInv, TypeOK
  <2>3. ASSUME NEW q \in Pings PROVE PingInv(q)'
    <3>1. PingInv(q)
      BY <2>3 DEF IInv
    <3>2. TestsInv(q)'
      BY <1>3, <1>4, <1>5, <1>6, <1>7, <2>1, <3>1 DEF IInv, TypeOK, PingInv, TestsInv
    <3>3. OutcomeInv(q)'
      BY <1>3, <1>7, <2>1, <3>1 DEF IInv, TypeOK, PingInv, OutcomeInv
    <3>4. CallInv(q)'
      BY <1>7, <2>1, <3>1 DEF IInv, TypeOK, PingInv, CallInv, ThreadEnded
    <3> QED
      BY <3>2, <3>3, <3>4 DEF PingInv
  <2> QED
    BY <2>2, <2>3 DEF IInv
<1> QED
  BY <1>8, <1>9

-----------------------------------------------------------------------------
(* The coroutine, whoever cancels it, and the clock.                       *)

LEMMA CallStep ==
  ASSUME IInv, NEW p \in Pings, Coroutine(p) \/ Cancel(p) \/ DeadlinePasses(p)
  PROVE  IInv'
<1> USE DEF pingVars, callerVars, historyVars, Waiting, ThreadEnded
<1>1. TypeOK'
  <2> USE DEF IInv, TypeOK
  <2>1. CASE Return(p)
    BY <2>1 DEF Return
  <2>2. CASE Interrupted(p)
    BY <2>2 DEF Interrupted
  <2>3. CASE Insisted(p)
    BY <2>3 DEF Insisted
  <2>4. CASE Cancel(p)
    <3>1. requests' \in [Pings -> 0 .. MaxCancels]
      BY <2>4, CancelsAssumption DEF Cancel
    <3>2. /\ thread' \in [Pings -> {"queued", "checking", "receiving", "over", "dropped"}]
          /\ \A q \in Pings : outcome'[q] = "none" <=> thread'[q] # "over"
      BY <2>4 DEF Cancel
    <3> QED
      BY <2>4, <3>1, <3>2 DEF Cancel
  <2>5. CASE DeadlinePasses(p)
    BY <2>5 DEF DeadlinePasses
  <2> QED
    BY <2>1, <2>2, <2>3, <2>4, <2>5 DEF Coroutine
<1>2. ASSUME NEW q \in Pings PROVE PingInv(q)'
  <2>1. PingInv(q) /\ requests[q] \in Nat
    BY <1>2, CancelsAssumption DEF IInv, TypeOK
  <2>2. TestsInv(q)'
    BY <2>1 DEF PingInv, TestsInv, Coroutine, Return, Interrupted, Insisted, Cancel,
                DeadlinePasses
  <2>3. OutcomeInv(q)'
    BY <2>1 DEF IInv, TypeOK, PingInv, OutcomeInv, Coroutine, Return, Interrupted, Insisted,
                Cancel, DeadlinePasses
  <2>4. CallInv(q)'
    <3>1. CASE Coroutine(p)
      BY <2>1, <3>1 DEF IInv, TypeOK, PingInv, CallInv, Coroutine, Return, Interrupted, Insisted
    <3>2. CASE Cancel(p)
      BY <2>1, <3>2 DEF IInv, TypeOK, PingInv, CallInv, Cancel
    <3>3. CASE DeadlinePasses(p)
      BY <2>1, <3>3 DEF PingInv, CallInv, DeadlinePasses
    <3> QED
      BY <3>1, <3>2, <3>3
  <2> QED
    BY <2>2, <2>3, <2>4 DEF PingInv
<1> QED
  BY <1>1, <1>2 DEF IInv

LEMMA NextInv == IInv /\ [Next]_vars => IInv'
<1> SUFFICES ASSUME IInv, [Next]_vars PROVE IInv'
  OBVIOUS
<1>1. CASE UNCHANGED vars
  BY <1>1 DEF vars, callerVars, pingVars, historyVars, IInv, TypeOK, PingInv, TestsInv,
              OutcomeInv, CallInv, ThreadEnded
<1>2. ASSUME NEW p \in Pings, Thread(p) PROVE IInv'
  BY <1>2, CheckStep, TimeStep, ForeignStep, SetUpStep, TestStep DEF Thread, Receive
<1> QED
  BY <1>1, <1>2, CallStep DEF Next

LEMMA Invariance == Spec => []IInv
BY InitInv, NextInv, PTL DEF Spec

-----------------------------------------------------------------------------
\* Every variable keeps its type; a thread is over exactly if it has an outcome.
THEOREM TypeCorrect == Spec => []TypeOK
<1>1. IInv => TypeOK
  BY DEF IInv
<1> QED
  BY <1>1, Invariance, PTL

\* No ping reports a success that TDLib granted to another one, however many
\* share td_receive (tdlib.py:203-214).
THEOREM SuccessIsAlwaysOwn == Spec => []SuccessIsOwn
<1>1. IInv => SuccessIsOwn
  BY DEF IInv, PingInv, OutcomeInv, CallInv, SuccessIsOwn
<1> QED
  BY <1>1, Invariance, PTL

\* Every data centre of a ping that has a result is reported (tdlib.py:227-233).
THEOREM EveryDcIsReported == Spec => []EveryDcReported
<1>1. IInv => EveryDcReported
  BY DEF IInv, PingInv, OutcomeInv, EveryDcReported
<1> QED
  BY <1>1, Invariance, PTL

\* A ping fails by a refusal of its own, by malformed JSON that it received, by its
\* time or by its stop: another ping's refusal ends no ping, whoever receives it.
THEOREM FailureAlwaysHasCause == Spec => []FailureHasCause
<1>1. IInv => FailureHasCause
  BY DEF IInv, PingInv, OutcomeInv, FailureHasCause
<1> QED
  BY <1>1, Invariance, PTL

\* A thread outlives its call only after two cancellations, and knows that it is
\* to stop (tdlib.py:350-356).
THEOREM ThreadIsOnlyLeftTold == Spec => []ThreadOnlyLeftTold
<1>1. IInv => ThreadOnlyLeftTold
  BY DEF IInv, TypeOK, PingInv, CallInv, ThreadOnlyLeftTold, Waiting
<1> QED
  BY <1>1, Invariance, PTL

\* Calls end with CancelledError exactly if they were cancelled.
THEOREM CancellationIsKept == Spec => []CancellationKept
<1>1. IInv => CancellationKept
  <2> SUFFICES ASSUME IInv, NEW p \in Pings, caller[p] \notin Waiting
               PROVE  caller[p] = "cancelled" <=> requests[p] > 0
    BY DEF CancellationKept
  <2> QED
    BY DEF IInv, TypeOK, PingInv, CallInv, Waiting
<1> QED
  BY <1>1, Invariance, PTL
=============================================================================
