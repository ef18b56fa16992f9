-------------------------- MODULE ProxyPingProofs --------------------------
(***************************************************************************)
(* Proofs about ProxyPing, for every timeout and any number of             *)
(* cancellations.  The argument for AnswerAwaited is a sum: of the Limit   *)
(* ticks the runner grants, those that are gone were spent in the helper's *)
(* set-up, in its tests or outside of both, and each of the first two has  *)
(* at most Timeout of them.                                                *)
(***************************************************************************)
EXTENDS ProxyPing, TLAPS

\* Ticks the helper may still spend within its deadlines.
Allowance ==
  CASE helper = "starting"  -> 2 * Timeout
    [] helper = "preparing" -> Timeout + budget
    [] helper = "testing"   -> budget
    [] OTHER                -> 0

Clocks ==
  /\ left \in Nat
  /\ budget \in Nat
  /\ slow \in Nat
  /\ budget <= Timeout

\* What the runner has left covers what the helper is allowed, but for the
\* ticks that were slow.
Covered == timer = "armed" => StopTimeout + Allowance <= left + slow

LimitInv ==
  /\ Clocks
  /\ timer # "off" => pc = "communicating"
  /\ Covered
  /\ timer = "fired" => slow >= StopTimeout
  /\ error = "TimeoutError" => slow >= StopTimeout

LEMMA LimitInit == ProxyInit => LimitInv
BY TimeoutsAssumption DEF ProxyInit, LimitInv, Clocks, Covered

\* A step of the runner: only Launched starts the timer, with all of Limit, and
\* only CommunicateInterrupted makes a TimeoutError, out of a timer that fired.
LEMMA LimitRunner == LimitInv /\ Runner => LimitInv'
<1> SUFFICES ASSUME LimitInv, Runner PROVE LimitInv'
  OBVIOUS
<1> USE TimeoutsAssumption DEF LimitInv, Clocks, Covered
<1>1. CASE LaunchFails
  BY <1>1 DEF LaunchFails, Raises, helperVars, clockVars
<1>2. CASE Launch
  BY <1>2 DEF Launch, clockVars
<1>3. CASE LaunchInterrupted
  BY <1>3 DEF LaunchInterrupted, Raises, clockVars
<1>4. CASE Launched
  <2>1. Allowance' = Allowance
    BY <1>4 DEF Launched, Allowance, helperVars
  <2>2. Allowance \in Nat /\ Allowance <= 2 * Timeout
    BY DEF Allowance
  <2>3. left' = 2 * Timeout + StopTimeout /\ timer' = "armed" /\ pc' = "communicating"
    BY <1>4 DEF Launched, Limit
  <2>4. budget' = budget /\ slow' = slow /\ error' = error
    BY <1>4 DEF Launched
  <2> QED
    BY <2>1, <2>2, <2>3, <2>4
<1>5. CASE Communicated
  BY <1>5 DEF Communicated, helperVars, clockVars
<1>6. CASE CommunicateInterrupted
  BY <1>6 DEF CommunicateInterrupted, helperVars, clockVars
<1>7. CASE Collect
  BY <1>7 DEF Collect, clockVars
<1>8. CASE CollectInterrupted
  BY <1>8 DEF CollectInterrupted, helperVars, clockVars
<1> QED
  BY <1>1, <1>2, <1>3, <1>4, <1>5, <1>6, <1>7, <1>8 DEF Runner

\* A step of the helper never raises what it is still allowed.
LEMMA LimitHelper == LimitInv /\ Helper => LimitInv'
<1> SUFFICES ASSUME LimitInv, Helper PROVE LimitInv'
  OBVIOUS
<1> USE TimeoutsAssumption DEF LimitInv, Clocks, Covered, Allowance, proxyTaskVars, clockVars
<1>1. CASE Loaded
  BY <1>1 DEF Loaded
<1>2. CASE SetUp
  BY <1>2 DEF SetUp
<1>3. CASE Tested
  BY <1>3 DEF Tested
<1>4. CASE HelperFails
  BY <1>4 DEF HelperFails, Alive
<1>5. CASE Exits
  BY <1>5 DEF Exits
<1>6. CASE Crashes
  BY <1>6 DEF Crashes, Alive
<1> QED
  BY <1>1, <1>2, <1>3, <1>4, <1>5, <1>6 DEF Helper

\* A tick takes one from both sides, or is counted as slow; when the timer goes
\* off nothing is left, so the slow ticks alone cover StopTimeout.
LEMMA LimitTime == LimitInv /\ (TickInTime \/ TickSlow \/ TimerGoesOff \/ CancelProxy) => LimitInv'
<1> SUFFICES ASSUME LimitInv, TickInTime \/ TickSlow \/ TimerGoesOff \/ CancelProxy
             PROVE  LimitInv'
  OBVIOUS
<1> USE TimeoutsAssumption DEF LimitInv, Clocks, Covered, Allowance, proxyTaskVars, helperVars, clockVars
<1>1. CASE TickInTime
  BY <1>1 DEF TickInTime
<1>2. CASE TickSlow
  BY <1>2 DEF TickSlow
<1>3. CASE TimerGoesOff
  BY <1>3 DEF TimerGoesOff
<1>4. CASE CancelProxy
  BY <1>4 DEF CancelProxy
<1> QED
  BY <1>1, <1>2, <1>3, <1>4

\* The runner's limit cuts off only a helper that was slow for StopTimeout or
\* longer outside of its own deadlines (proxy_ping_cli.py:36-37).
THEOREM AnswerIsAwaited == ProxySpec => []AnswerAwaited
<1>1. LimitInv /\ [ProxyNext]_proxyVars => LimitInv'
  <2> SUFFICES ASSUME LimitInv, [ProxyNext]_proxyVars PROVE LimitInv'
    OBVIOUS
  <2>1. CASE UNCHANGED proxyVars
    BY <2>1 DEF proxyVars, proxyTaskVars, helperVars, clockVars, LimitInv, Clocks, Covered, Allowance
  <2> QED
    BY <2>1, LimitRunner, LimitHelper, LimitTime DEF ProxyNext
<1>2. LimitInv => AnswerAwaited
  BY DEF LimitInv, AnswerAwaited
<1> QED
  BY LimitInit, <1>1, <1>2, PTL DEF ProxySpec

-----------------------------------------------------------------------------

\* What became of the cancellations so far, wherever the task is: one that was
\* thrown is the error, any other is still to be thrown.
Before == {"launch", "launching", "communicating"}

OutcomeInv ==
  /\ requests \in Nat
  /\ pc \in Before \union {"collecting", "end"}
  /\ timer \in {"off", "armed", "fired"}
  /\ timer # "off" => pc = "communicating"
  /\ cancelling = requests + (IF timer = "fired" THEN 1 ELSE 0)
  /\ pc = "launch" => requests = 0 /\ ~interrupt /\ helper \notin Alive
  /\ pc \in Before => error = "none" /\ code = "none"
  /\ pc \in Before => (interrupt <=> requests > 0 \/ timer = "fired")
  /\ pc = "collecting" =>
       /\ error = "CancelledError" <=> code = "raised"
       /\ requests > 0 <=> error = "CancelledError" \/ interrupt
       /\ code # "0"
       /\ code = "none" => helper = "exited"
  /\ ProxyOutcome

LEMMA OutcomeInit == ProxyInit => OutcomeInv
BY DEF ProxyInit, OutcomeInv, ProxyOutcome, Before, Alive

LEMMA OutcomeRunner == OutcomeInv /\ Runner => OutcomeInv'
<1> SUFFICES ASSUME OutcomeInv, Runner PROVE OutcomeInv'
  OBVIOUS
<1> USE DEF OutcomeInv, ProxyOutcome, Before, Alive
<1>1. CASE LaunchFails
  BY <1>1 DEF LaunchFails, Raises, helperVars, clockVars
<1>2. CASE Launch
  BY <1>2 DEF Launch, clockVars
<1>3. CASE LaunchInterrupted
  BY <1>3 DEF LaunchInterrupted, Raises, clockVars
<1>4. CASE Launched
  BY <1>4 DEF Launched, helperVars
<1>5. CASE Communicated
  BY <1>5 DEF Communicated, helperVars, clockVars
<1>6. CASE CommunicateInterrupted
  BY <1>6 DEF CommunicateInterrupted, helperVars, clockVars
<1>7. CASE Collect
  BY <1>7 DEF Collect, clockVars
<1>8. CASE CollectInterrupted
  BY <1>8 DEF CollectInterrupted, helperVars, clockVars
<1> QED
  BY <1>1, <1>2, <1>3, <1>4, <1>5, <1>6, <1>7, <1>8 DEF Runner

\* The helper's steps and the ticks change none of the task's variables; at the
\* end no helper is left to make a step, and what has exited does not change.
LEMMA OutcomeHelper == OutcomeInv /\ (Helper \/ TickInTime \/ TickSlow) => OutcomeInv'
<1> SUFFICES ASSUME OutcomeInv, Helper \/ TickInTime \/ TickSlow PROVE OutcomeInv'
  OBVIOUS
<1>1. UNCHANGED proxyTaskVars
  BY DEF Helper, Loaded, SetUp, Tested, HelperFails, Exits, Crashes, TickInTime, TickSlow
<1>2. helper \in Alive
  BY DEF Helper, Loaded, SetUp, Tested, HelperFails, Exits, Crashes, TickInTime, TickSlow, Alive
<1>3. pc # "end" /\ pc # "launch" /\ (pc = "collecting" => code # "none")
  BY <1>2 DEF OutcomeInv, ProxyOutcome, Alive
<1> QED
  BY <1>1, <1>2, <1>3 DEF OutcomeInv, ProxyOutcome, Before, proxyTaskVars

LEMMA OutcomeCancel == OutcomeInv /\ (TimerGoesOff \/ CancelProxy) => OutcomeInv'
<1> SUFFICES ASSUME OutcomeInv, TimerGoesOff \/ CancelProxy PROVE OutcomeInv'
  OBVIOUS
<1> USE DEF OutcomeInv, ProxyOutcome, Before, helperVars, clockVars
<1>1. CASE TimerGoesOff
  BY <1>1 DEF TimerGoesOff
<1>2. CASE CancelProxy
  BY <1>2 DEF CancelProxy
<1> QED
  BY <1>1, <1>2

\* The runner leaves no helper behind, takes a status 0 from nobody else, and
\* ends with CancelledError exactly when it was cancelled (proxy_ping_cli.py:35-61).
THEOREM OutcomeIsRight == ProxySpec => []ProxyOutcome
<1>1. OutcomeInv /\ [ProxyNext]_proxyVars => OutcomeInv'
  <2> SUFFICES ASSUME OutcomeInv, [ProxyNext]_proxyVars PROVE OutcomeInv'
    OBVIOUS
  <2>1. CASE UNCHANGED proxyVars
    BY <2>1 DEF proxyVars, proxyTaskVars, helperVars, clockVars, OutcomeInv, ProxyOutcome
  <2> QED
    BY <2>1, OutcomeRunner, OutcomeHelper, OutcomeCancel DEF ProxyNext
<1>2. OutcomeInv => ProxyOutcome
  BY DEF OutcomeInv
<1> QED
  BY OutcomeInit, <1>1, <1>2, PTL DEF ProxySpec

-----------------------------------------------------------------------------

\* No tick is spent before the timer runs, and never more than the timer had.
ClockInv ==
  /\ slow + left <= Limit
  /\ pc \in {"launch", "launching"} => slow = 0

LEMMA LimitNat == Limit \in Nat
BY TimeoutsAssumption DEF Limit

LEMMA TypeInit == ProxyInit => ProxyTypeOK /\ ClockInv
<1> SUFFICES ASSUME ProxyInit PROVE ProxyTypeOK /\ ClockInv
  OBVIOUS
<1> USE LimitNat, TimeoutsAssumption, CancelsAssumption DEF ProxyInit
<1>1. ProxyTypeOK
  <2>1. interrupt \in BOOLEAN /\ helper \in Alive \union {"none", "exited", "killed"}
    OBVIOUS
  <2>2. /\ requests \in 0 .. MaxCancels /\ cancelling \in Nat
        /\ left \in 0 .. Limit /\ budget \in 0 .. Timeout /\ slow \in 0 .. Limit
    OBVIOUS
  <2> QED
    BY <2>1, <2>2 DEF ProxyTypeOK
<1>2. ClockInv
  BY DEF ClockInv
<1> QED
  BY <1>1, <1>2

LEMMA TypeStep ==
  ASSUME ProxyTypeOK, ClockInv, OutcomeInv, ProxyNext
  PROVE  (ProxyTypeOK /\ ClockInv)'
<1> USE LimitNat, TimeoutsAssumption, CancelsAssumption
        DEF ProxyTypeOK, ClockInv, Alive, proxyTaskVars, helperVars, clockVars
<1>1. CASE LaunchFails \/ Launch \/ LaunchInterrupted
  BY <1>1 DEF LaunchFails, Launch, LaunchInterrupted, Raises
<1>2. CASE Launched \/ Communicated
  BY <1>2 DEF Launched, Communicated
<1>3. CASE CommunicateInterrupted
  <2>1. pc = "communicating" /\ pc' = "collecting" /\ timer' = "off" /\ interrupt' = FALSE
    BY <1>3 DEF CommunicateInterrupted
  <2>2. cancelling' \in Nat
    BY <1>3 DEF CommunicateInterrupted, OutcomeInv
  <2>3. error' \in {"TimeoutError", "CancelledError"} /\ code' \in {"1", "raised"}
    BY <1>3 DEF CommunicateInterrupted
  <2>4. UNCHANGED <<requests, helper, answer, left, budget, slow>>
    BY <1>3 DEF CommunicateInterrupted
  <2> QED
    BY <2>1, <2>2, <2>3, <2>4
<1>4. CASE Collect \/ CollectInterrupted
  BY <1>4 DEF Collect, CollectInterrupted
<1>5. CASE Helper
  BY <1>5 DEF Helper, Loaded, SetUp, Tested, HelperFails, Exits, Crashes
<1>6. CASE TickInTime
  BY <1>6 DEF TickInTime
<1>7. CASE TickSlow
  BY <1>7 DEF TickSlow
<1>8. CASE TimerGoesOff
  BY <1>8 DEF TimerGoesOff
<1>9. CASE CancelProxy
  BY <1>9 DEF CancelProxy
<1> QED
  BY <1>1, <1>2, <1>3, <1>4, <1>5, <1>6, <1>7, <1>8, <1>9 DEF ProxyNext, Runner
=============================================================================
