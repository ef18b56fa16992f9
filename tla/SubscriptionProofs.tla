------------------------- MODULE SubscriptionProofs -------------------------
(***************************************************************************)
(* Proofs about Subscription, for lists of any length, any limits and any  *)
(* number of cancellations: the type invariant, and what the verdict and   *)
(* the timeout do with verified keys and with cancellations.               *)
(***************************************************************************)
EXTENDS Subscription, TLAPS

\* What the timer did to the task's count of cancellations.
Fired == IF timer = "fired" THEN 1 ELSE 0

\* Until the call ends, each cancel() that was not taken back is one of others
\* or of the timer, and those swallowed are among them, as is the one that is
\* still to be thrown.
CountInv ==
  pc # "end" =>
    /\ timer # "off"
    /\ result = "none"
    /\ cancelling = requests + Fired
    /\ swallowed + (IF interrupt THEN 1 ELSE 0) <= cancelling
    /\ swallowed = 0 => (interrupt <=> cancelling > 0)
    /\ pc = "choosing" => ~interrupt

\* Between two attempts everything is counted and reported.  In an attempt, its
\* own report is missing, and the key it has verified, if it has.
AttemptInv ==
  /\ pc \in FetchAwaits \union {"choosing", "announcing"} =>
       verified = successes /\ finished = attempts
  /\ pc = "announcing" => attempts < MaxAttempts /\ successes < Target
  /\ pc \in {"verifying", "measuring", "reporting"} =>
       /\ attempts = finished + 1
       /\ successes <= finished
       /\ successes < Target
  /\ pc = "verifying" => verified = successes
  /\ pc = "measuring" => outcome = "success"
  /\ pc \in {"measuring", "reporting"} =>
       verified = IF outcome = "success" THEN successes + 1 ELSE successes
  /\ verified <= successes + 1

\* When the call has ended, a key may be missing, or a cancellation unheard, for
\* the reasons the properties give.
EndInv ==
  pc = "end" =>
    /\ timer # "fired" /\ result # "raised" => verified = successes
    /\ timer # "fired" /\ result # "raised" => started = finished
    /\ result \in {"failed", "inconclusive"} => successes = 0
    /\ requests > 0 /\ swallowed = 0 => result = "raised"

\* What was looked up was checked before it is pinned, and only that is contacted.
AddressInv == pinned \subseteq {"global"} /\ contacted \subseteq {"global"}

IInv == AddressInv /\ TypeOK /\ CountInv /\ AttemptInv /\ EndInv /\ started <= finished + 1

-----------------------------------------------------------------------------
LEMMA InitInv == Init => IInv
<1> SUFFICES ASSUME Init PROVE IInv
  OBVIOUS
<1>1. /\ 0 \in 0 .. MaxRedirects /\ 0 \in 0 .. MaxKeys /\ 0 \in 0 .. MaxAttempts
      /\ 0 \in 0 .. Target /\ 0 \in 0 .. MaxCancels /\ 0 \in 0 .. MaxCancels + 1
      /\ 0 \in 0 .. 0 /\ NoList \in Lists
  BY SettingsAssumption DEF NoList, Lists
<1>2. TypeOK
  BY <1>1 DEF Init, TypeOK, Awaits, FetchAwaits, KeyOutcomes
<1> QED
  BY <1>2 DEF Init, IInv, AddressInv, CountInv, Fired, AttemptInv, EndInv

\* The counters are numbers, as the limits are.
LEMMA Numbers ==
  ASSUME TypeOK
  PROVE  /\ {redirects, keys, attempts, successes, requests, cancelling, swallowed,
             verified, started, finished} \subseteq Nat
         /\ {MaxKeys, MaxRedirects, MaxAttempts, Target, MaxCancels} \subseteq Nat
BY SettingsAssumption DEF TypeOK

\* A step of fetch_subscription.
LEMMA FetchStep ==
  ASSUME IInv, Fetch
  PROVE  IInv'
<1> USE Numbers, SettingsAssumption
    DEF IInv, AddressInv, TypeOK, Awaits, FetchAwaits, Addresses, KeyOutcomes, CountInv,
        Fired, AttemptInv, EndInv, fetchVars, loopVars, cancelVars, historyVars, Resumes
<1>1. CASE Resolved
  <2>1. CASE pc' = "connecting"
    <3>1. pinned' = {"global"} /\ UNCHANGED <<result, timer>>
      BY <1>1, <2>1 DEF Resolved, Ends
    <3> QED
      BY <1>1, <2>1, <3>1 DEF Resolved
  <2>2. CASE pc' # "connecting"
    <3>1. Ends(Verdict) /\ UNCHANGED pinned
      BY <1>1, <2>2 DEF Resolved
    <3> QED
      BY <1>1, <3>1 DEF Resolved, Ends, Verdict
  <2> QED
    BY <2>1, <2>2
<1>2. CASE Connected
  BY <1>2 DEF Connected
<1>3. CASE Redirect
  BY <1>3 DEF Redirect
<1>4. CASE RedirectRaises
  BY <1>4 DEF RedirectRaises, Ends
<1>5. CASE DownloadFails
  BY <1>5 DEF DownloadFails, Ends, Verdict
<1>6. CASE Downloaded
  <2>1. list' \in Lists /\ list'.entries \in 0 .. MaxKeys
    BY <1>6 DEF Downloaded, Lists
  <2>2. keys' \in 0 .. MaxKeys
    BY <1>6, <2>1 DEF Downloaded
  <2> QED
    BY <1>6, <2>1, <2>2 DEF Downloaded, Ends, Verdict
<1>7. CASE LookupRaises
  BY <1>7 DEF LookupRaises, Ends
<1> QED
  BY <1>1, <1>2, <1>3, <1>4, <1>5, <1>6, <1>7 DEF Fetch

\* A step of the loop, when nobody has cancelled it or a key has swallowed it.
LEMMA LoopStep ==
  ASSUME IInv, Loop
  PROVE  IInv'
<1> USE Numbers, SettingsAssumption
    DEF IInv, AddressInv, TypeOK, Awaits, FetchAwaits, KeyOutcomes, CountInv, Fired,
        AttemptInv, EndInv, fetchVars, loopVars, cancelVars, historyVars, Resumes
<1>1. CASE Complete
  BY <1>1 DEF Complete, Ends, Verdict
<1>2. CASE Choose
  BY <1>2 DEF Choose, Enough
<1>3. CASE Announced
  BY <1>3 DEF Announced
<1>4. CASE Verified
  BY <1>4 DEF Verified
<1>5. CASE CancelSwallowed
  <2>1. swallowed + 1 <= cancelling /\ cancelling <= MaxCancels + 1
    BY <1>5 DEF CancelSwallowed
  <2>2. swallowed' \in 0 .. MaxCancels + 1
    BY <1>5, <2>1 DEF CancelSwallowed
  <2>3. verified' \in successes' .. attempts' /\ finished' \in 0 .. started'
    BY <1>5 DEF CancelSwallowed
  <2>4. TypeOK'
    BY <1>5, <2>2, <2>3 DEF CancelSwallowed
  <2>5. CountInv'
    BY <1>5, <2>1 DEF CancelSwallowed
  <2> QED
    BY <1>5, <2>4, <2>5 DEF CancelSwallowed
<1>6. CASE Measured
  BY <1>6 DEF Measured
<1>7. CASE AttemptRaises
  BY <1>7 DEF AttemptRaises, Ends
<1>8. CASE Reported
  BY <1>8 DEF Reported
<1> QED
  BY <1>1, <1>2, <1>3, <1>4, <1>5, <1>6, <1>7, <1>8 DEF Loop

\* Cancellations, by others and by the timer, and CancelledError.
LEMMA CancelStep ==
  ASSUME IInv, Interrupted \/ Cancel \/ TimerExpires
  PROVE  IInv'
<1> USE Numbers, SettingsAssumption
    DEF IInv, AddressInv, TypeOK, Awaits, FetchAwaits, KeyOutcomes, CountInv, Fired,
        AttemptInv, EndInv, fetchVars, loopVars, cancelVars, historyVars
<1>1. CASE Interrupted
  <2>1. timer = "fired" => cancelling - 1 = requests
    BY <1>1 DEF Interrupted
  <2>2. cancelling' = requests
    BY <1>1, <2>1 DEF Interrupted
  <2>3. TypeOK'
    <3>1. cancelling' \in 0 .. MaxCancels + 1
      BY <2>2
    <3>2. verified' \in successes' .. attempts' /\ finished' \in 0 .. started'
      BY <1>1 DEF Interrupted
    <3> QED
      BY <1>1, <3>1, <3>2 DEF Interrupted, Ends, Verdict
  <2>4. CountInv' /\ AttemptInv'
    BY <1>1 DEF Interrupted, Ends
  <2>5. EndInv'
    BY <1>1, <2>2 DEF Interrupted, Ends, Verdict
  <2> QED
    BY <1>1, <2>3, <2>4, <2>5 DEF Interrupted
<1>2. CASE Cancel
  BY <1>2 DEF Cancel
<1>3. CASE TimerExpires
  BY <1>3 DEF TimerExpires
<1> QED
  BY <1>1, <1>2, <1>3

LEMMA NextInv == IInv /\ [Next]_vars => IInv'
<1> SUFFICES ASSUME IInv, [Next]_vars PROVE IInv'
  OBVIOUS
<1>1. CASE UNCHANGED vars
  BY <1>1 DEF vars, fetchVars, loopVars, cancelVars, historyVars, IInv, AddressInv, TypeOK,
              CountInv, Fired, AttemptInv, EndInv
<1> QED
  BY <1>1, FetchStep, LoopStep, CancelStep DEF Next

LEMMA Invariance == Spec => []IInv
BY InitInv, NextInv, PTL DEF Spec

-----------------------------------------------------------------------------
\* Every variable keeps its type: no limit of the settings is exceeded.
THEOREM TypeCorrect == Spec => []TypeOK
<1>1. IInv => TypeOK
  BY DEF IInv
<1> QED
  BY <1>1, Invariance, PTL

\* At most one verified key is missing from the verdict, and only if the timeout
\* of the subscription went off (subscription.py:244-253).
THEOREM VerdictDoesMissLittle == Spec => []VerdictMissesLittle
<1>1. IInv => VerdictMissesLittle
  <2> SUFFICES ASSUME IInv PROVE VerdictMissesLittle
    OBVIOUS
  <2>1. pc # "end" => result = "none"
    BY DEF IInv, CountInv
  <2> QED
    BY <2>1, Numbers DEF IInv, AttemptInv, EndInv, VerdictMissesLittle
<1> QED
  BY <1>1, Invariance, PTL

\* Reports and attempts alternate, and the last report is missing only in a call
\* that timed out or raised (subscription.py:242-248).
THEOREM ReportsDoFollow == Spec => []ReportsFollow
<1>1. IInv => ReportsFollow
  BY DEF IInv, TypeOK, EndInv, ReportsFollow
<1> QED
  BY <1>1, Invariance, PTL

\* Whatever the DNS answers and wherever redirects lead, only public addresses are
\* connected to, over any number of hops.
THEOREM OnlyPublicIsContacted == Spec => []OnlyPublicContacted
<1>1. IInv => OnlyPublicContacted
  BY DEF IInv, AddressInv, OnlyPublicContacted
<1> QED
  BY <1>1, Invariance, PTL

\* A cancellation that no key swallowed ends the call with CancelledError.
THEOREM CancellationIsPassedOn == Spec => []CancellationPassedOn
<1>1. IInv => CancellationPassedOn
  BY DEF IInv, EndInv, CancellationPassedOn
<1> QED
  BY <1>1, Invariance, PTL

\* After the timeout no attempt begins, unless a key swallowed it.
THEOREM TimeoutDoesEndAttempts == Spec => TimeoutEndsAttempts
<1>1. IInv /\ [Next]_vars /\ timer = "fired" /\ swallowed = 0 => attempts' = attempts
  <2> SUFFICES ASSUME IInv, [Next]_vars, timer = "fired", swallowed = 0
               PROVE  attempts' = attempts
    OBVIOUS
  <2>1. pc # "end" => interrupt
    BY Numbers DEF IInv, CountInv, Fired
  <2>2. ~Announced
    BY <2>1 DEF Announced, Resumes
  <2> QED
    BY <2>2 DEF Next, Fetch, Resolved, LookupRaises, Connected, Redirect, RedirectRaises,
       DownloadFails, Downloaded, Loop, Complete, Choose, Verified, CancelSwallowed, Measured,
       AttemptRaises, Reported, Interrupted, Cancel, TimerExpires, vars, loopVars
<1> QED
  BY <1>1, Invariance, PTL DEF Spec, TimeoutEndsAttempts
=============================================================================
