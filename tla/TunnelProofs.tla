---------------------------- MODULE TunnelProofs ----------------------------
(***************************************************************************)
(* Proofs about Tunnel, for both kinds of client and any number of         *)
(* cancellations: the type invariant of start_tunnel, the invariants on    *)
(* what it leaves behind and which exception leaves it, and that its call  *)
(* of Tunnel.stop implements Teardown.                                     *)
(***************************************************************************)
EXTENDS Tunnel, TLAPS

\* The awaits before start_tunnel succeeds or begins to stop the process.
Tries == {"spawning", "feeding", "credentials", "connecting", "complaining"}

\* asyncio.timeout is open only around the credentials, and it is left, for
\* good, with the try block.
TimerInv ==
  /\ handshake = "armed" => pc \in {"credentials", "complaining"}
  /\ handshake = "fired" => pc \in {"credentials", "complaining", "aborting", "raised"}

\* cancel() calls that nobody has taken back are those of others, and the one
\* of the timer until the CancelledError has passed it.
CountInv ==
  cancelling = IF handshake = "fired" /\ pc \in Tries THEN requests + 1 ELSE requests

\* Until the process is being stopped, whoever cancelled the task is still to be
\* heard; nobody did when start_tunnel begins or succeeds.
PendingInv ==
  /\ pc \in Tries => (interrupt <=> cancelling > 0)
  /\ pc \in {"begin", "started"} => requests = 0 /\ ~interrupt

\* The process exists from the spawn on, and Tunnel.stop is called only by the
\* handler; when its task is done, nothing is left.
StopInv ==
  /\ pc = "begin" => leader = "none" /\ group = "none" /\ ~config
  /\ pc \in {"begin", "started"} \union Tries => stopTask = "none" /\ ~recorded
  /\ pc \in Tries => group # "none"
  /\ pc = "aborting" => stopTask # "none"
  /\ pc = "raised" => stopTask # "running"
  /\ pc = "raised" /\ stopTask = "none" => leader # "running" /\ group # "up"
  /\ stopTask = "done" => leader = "exited" /\ group = "down" /\ ~config

\* While the process is stopped, a cancellation by others is the error being
\* handled, or recorded, or still to be thrown; and in the end it is the error.
ErrorInv ==
  /\ pc = "aborting" =>
       (requests > 0 <=> error = "CancelledError" \/ recorded \/ interrupt)
  /\ pc = "raised" => (requests > 0 <=> error = "CancelledError")
  /\ pc \in {"aborting", "raised"} /\ handshake = "fired" =>
       error \in {"TimeoutError", "CancelledError"}
  /\ pc = "raised" /\ error = "TimeoutError" => handshake = "fired"
  /\ pc = "aborting" /\ error = "TimeoutError" => handshake = "fired"

IInv ==
  /\ StartTypeOK
  /\ TimerInv
  /\ CountInv
  /\ PendingInv
  /\ StopInv
  /\ ErrorInv

-----------------------------------------------------------------------------
LEMMA InitInv == StartInit => IInv
<1> SUFFICES ASSUME StartInit PROVE IInv
  OBVIOUS
<1>1. requests \in 0 .. MaxCancels
  BY CancelsAssumption DEF StartInit
<1> QED
  BY <1>1 DEF StartInit, IInv, StartTypeOK, TunnelTypeOK, StartLocations, Errors, Tries,
              TimerInv, CountInv, PendingInv, StopInv, ErrorInv

\* A task that resumes without CancelledError was not cancelled by anybody, and
\* the timer has not gone off.
LEMMA Undisturbed ==
  ASSUME IInv, pc \in Tries, ~interrupt
  PROVE  requests = 0 /\ cancelling = 0 /\ handshake # "fired"
<1>1. requests \in Nat
  BY CancelsAssumption DEF IInv, StartTypeOK, TunnelTypeOK
<1>2. cancelling = 0
  BY <1>1 DEF IInv, PendingInv, CountInv
<1> QED
  BY <1>1, <1>2 DEF IInv, CountInv

\* The handler begins: the cancellations by others so far are the error that is
\* being handled, and a timer that went off is the error if there were none.
LEMMA AbortStep ==
  ASSUME IInv, pc \in Tries, NEW e \in Errors, Abort(e),
         interrupt' = FALSE,
         cancelling' = requests,
         requests > 0 <=> e = "CancelledError",
         handshake = "fired" => e \in {"TimeoutError", "CancelledError"},
         e = "TimeoutError" => handshake = "fired"
  PROVE  IInv'
<1> USE DEF Abort, IInv, procVars
<1>1. requests \in Nat
  BY CancelsAssumption DEF StartTypeOK, TunnelTypeOK
<1>2. TunnelTypeOK'
  BY <1>1 DEF StartTypeOK, TunnelTypeOK, Tries, StopInv
<1>3. StartTypeOK'
  BY <1>2 DEF StartTypeOK, StartLocations
<1>4. TimerInv' /\ CountInv' /\ PendingInv'
  BY DEF TimerInv, CountInv, PendingInv, Tries, StartTypeOK, TunnelTypeOK
<1>5. StopInv'
  BY DEF StopInv, Tries
<1>6. ErrorInv'
  BY DEF ErrorInv, Tries, StopInv
<1> QED
  BY <1>3, <1>4, <1>5, <1>6

\* The steps of the task up to the handler of start_tunnel.
LEMMA TryStep ==
  ASSUME IInv,
         \/ StartFails \/ Spawn \/ SpawnInterrupted \/ Spawned
         \/ Fed \/ BrokenPipe \/ Ready \/ ConnectionLost \/ Complain
         \/ Complained \/ NotReady \/ LineTooLong
  PROVE  IInv'
<1> USE DEF IInv, StartTypeOK, TunnelTypeOK, StartLocations, Errors, Tries, TimerInv, CountInv,
            PendingInv, StopInv, ErrorInv, procVars, stopVars, Resumes
<1> pc \in Tries /\ ~interrupt => requests = 0 /\ cancelling = 0 /\ handshake # "fired"
  BY Undisturbed
<1>1. CASE StartFails
  BY <1>1 DEF StartFails
<1>2. CASE Spawn
  BY <1>2, KindsAssumption DEF Spawn
<1>3. CASE SpawnInterrupted
  BY <1>3 DEF SpawnInterrupted
<1>4. CASE Spawned
  BY <1>4 DEF Spawned
<1>5. CASE Fed
  BY <1>5 DEF Fed
<1>6. CASE BrokenPipe
  BY <1>6, Undisturbed, AbortStep DEF BrokenPipe, Resumes, Tries, Errors
<1>7. CASE Ready
  BY <1>7 DEF Ready
<1>8. CASE Complain
  BY <1>8 DEF Complain
<1>9. CASE Complained
  BY <1>9, Undisturbed, AbortStep DEF Complained, Resumes, Tries, Errors
<1>10. CASE NotReady
  BY <1>10, Undisturbed, AbortStep DEF NotReady, Resumes, Tries, Errors
<1>11. CASE LineTooLong
  BY <1>11, Undisturbed, AbortStep DEF LineTooLong, Resumes, Tries, Errors
<1>12. CASE ConnectionLost
  BY <1>12, Undisturbed, AbortStep DEF ConnectionLost, Resumes, Tries, Errors
<1> QED
  BY <1>1, <1>2, <1>3, <1>4, <1>5, <1>6, <1>7, <1>8, <1>9, <1>10, <1>11, <1>12

\* The CancelledError of the try block: what the timer did is taken back, and
\* it is a TimeoutError if nobody else did anything.
LEMMA InterruptStep == IInv /\ StartInterrupted => IInv'
<1> SUFFICES ASSUME IInv, StartInterrupted PROVE IInv'
  OBVIOUS
<1> DEFINE others == IF handshake = "fired" THEN cancelling - 1 ELSE cancelling
           e == IF others = 0 THEN "TimeoutError" ELSE "CancelledError"
<1>1. requests \in Nat /\ pc \in Tries /\ interrupt /\ cancelling > 0
  BY CancelsAssumption
     DEF StartInterrupted, IInv, PendingInv, StartTypeOK, TunnelTypeOK, Tries
<1>2. others = requests
  BY <1>1 DEF IInv, CountInv
<1>3. handshake # "fired" => cancelling = requests
  BY <1>1 DEF IInv, CountInv
<1>4. Abort(e) /\ cancelling' = requests /\ interrupt' = FALSE
  BY <1>2 DEF StartInterrupted
<1>5. e \in Errors /\ (requests > 0 <=> e = "CancelledError")
  <2>1. CASE requests = 0
    BY <2>1, <1>2 DEF Errors
  <2>2. CASE requests > 0
    BY <2>2, <1>1, <1>2 DEF Errors
  <2> QED
    BY <2>1, <2>2, <1>1
<1>6. e = "TimeoutError" => handshake = "fired"
  BY <1>1, <1>2, <1>3
<1> HIDE DEF e
<1>7. e \in {"TimeoutError", "CancelledError"}
  BY DEF e
<1> QED
  BY <1>1, <1>4, <1>5, <1>6, <1>7, AbortStep

\* The handler, Tunnel.stop, and what others do to the task or the process.
LEMMA StopStep ==
  ASSUME IInv,
         \/ AbortInterrupted \/ Aborted
         \/ StopEnds \/ LeaderExits \/ CancelStart \/ HandshakeExpires
  PROVE  IInv'
<1> USE DEF IInv, StartTypeOK, TunnelTypeOK, StartLocations, Errors, Tries, TimerInv, CountInv,
            PendingInv, StopInv, ErrorInv, taskVars, procVars, stopVars, Resumes
<1>1. CASE AbortInterrupted
  <2>1. StartTypeOK'
    BY <1>1 DEF AbortInterrupted, LeaveAbort
  <2>2. TimerInv' /\ CountInv' /\ PendingInv'
    BY <1>1 DEF AbortInterrupted, LeaveAbort
  <2>3. StopInv'
    BY <1>1 DEF AbortInterrupted, LeaveAbort
  <2>4. ErrorInv'
    BY <1>1 DEF AbortInterrupted, LeaveAbort
  <2> QED
    BY <2>1, <2>2, <2>3, <2>4
<1>2. CASE Aborted
  BY <1>2 DEF Aborted, LeaveAbort
<1>3. CASE StopEnds
  BY <1>3 DEF StopEnds
<1>4. CASE LeaderExits
  BY <1>4 DEF LeaderExits
<1>5. CASE CancelStart
  BY <1>5, CancelsAssumption DEF CancelStart, InStart, Interrupt
<1>6. CASE HandshakeExpires
  BY <1>6 DEF HandshakeExpires, Interrupt
<1> QED
  BY <1>1, <1>2, <1>3, <1>4, <1>5, <1>6

LEMMA NextInv == IInv /\ [StartNext]_tunnelVars => IInv'
<1> SUFFICES ASSUME IInv, [StartNext]_tunnelVars PROVE IInv'
  OBVIOUS
<1>1. CASE UNCHANGED tunnelVars
  BY <1>1 DEF tunnelVars, taskVars, procVars, stopVars, IInv, StartTypeOK, TunnelTypeOK,
              TimerInv, CountInv, PendingInv, StopInv, ErrorInv
<1> QED
  BY <1>1, TryStep, InterruptStep, StopStep DEF StartNext, StartTask

LEMMA Invariance == StartSpec => []IInv
BY InitInv, NextInv, PTL DEF StartSpec

-----------------------------------------------------------------------------
\* Every variable keeps its type.
THEOREM StartTypeCorrect == StartSpec => []StartTypeOK
<1>1. IInv => StartTypeOK
  BY DEF IInv
<1> QED
  BY <1>1, Invariance, PTL

\* start_tunnel that raises has stopped what it started, for any number of
\* cancellations (xray.py:257-259, 310-315).
THEOREM AbortDoesLeaveNothing == StartSpec => []AbortLeavesNothing
<1>1. IInv => AbortLeavesNothing
  BY DEF IInv, StartTypeOK, TunnelTypeOK, StopInv, AbortLeavesNothing, Nothing
<1> QED
  BY <1>1, Invariance, PTL

\* No cancellation is absorbed by start_tunnel or replaced by its own error.
THEOREM CancellationDoesSurvive == StartSpec => []CancellationSurvives
<1>1. IInv => CancellationSurvives
  BY DEF IInv, ErrorInv, CancellationSurvives
<1> QED
  BY <1>1, Invariance, PTL

\* TimeoutError leaves start_tunnel exactly when its own timer went off and nobody
\* else cancelled it, in whichever order they come.
THEOREM TimeoutDoesOwn == StartSpec => []TimeoutIsOwn
<1>1. IInv => TimeoutIsOwn
  BY DEF IInv, StartTypeOK, TunnelTypeOK, ErrorInv, TimeoutIsOwn
<1> QED
  BY <1>1, Invariance, PTL

-----------------------------------------------------------------------------
(* Tunnel.stop, called by the handler, step by step.                       *)

LEMMA InitPromise == StartInit => AbortPromise!Init
BY DEF StartInit, AbortPromise!Init

\* The handler begins to wait; nobody has asked it anything yet.
LEMMA AbortsUnasked ==
  ASSUME IInv, pc \in Tries, NEW e, Abort(e), ~interrupt'
  PROVE  UNCHANGED AbortPromise!tvars
<1>1. stopTask = "none" /\ ~recorded /\ pc # "aborting"
  BY DEF IInv, StopInv, Tries
<1>2. pc' = "aborting" /\ stopTask' = "running" /\ recorded' = recorded
  BY DEF Abort
<1> QED
  BY <1>1, <1>2 DEF AbortPromise!tvars

\* Every step of start_tunnel is one of Teardown or changes nothing there: the shield
\* loop leaves with what it recorded, a cancellation in it is an Ask, and the end of
\* _stop the Release.
LEMMA NextPromise ==
  ASSUME IInv, [StartNext]_tunnelVars
  PROVE  [AbortPromise!Next]_(AbortPromise!tvars)
<1> USE DEF AbortPromise!Next, AbortPromise!tvars, AbortPromise!Ask, AbortPromise!Release,
            AbortPromise!Leave
<1>1. CASE UNCHANGED <<stopTask, recorded>> /\ pc # "aborting" /\ pc' # "aborting"
  BY <1>1
<1>2. CASE StartFails \/ Spawn \/ SpawnInterrupted \/ Spawned \/ Fed \/ Ready \/ Complain
  BY <1>1, <1>2
     DEF StartFails, Spawn, SpawnInterrupted, Spawned, Fed, Ready, Complain, Resumes, stopVars
<1>3. CASE BrokenPipe \/ ConnectionLost \/ Complained \/ NotReady \/ LineTooLong
  BY <1>3, AbortsUnasked
     DEF BrokenPipe, ConnectionLost, Complained, NotReady, LineTooLong, Resumes, Tries
<1>4. CASE StartInterrupted
  BY <1>4, AbortsUnasked DEF StartInterrupted, Tries
<1>5. CASE AbortInterrupted
  <2>1. /\ pc = "aborting" /\ interrupt /\ stopTask # "none"
        /\ ~interrupt' /\ recorded' = TRUE /\ stopTask' = stopTask
    BY <1>5 DEF AbortInterrupted, IInv, StopInv
  <2>2. CASE stopTask = "done"
    BY <1>5, <2>1, <2>2 DEF AbortInterrupted, LeaveAbort
  <2>3. CASE stopTask # "done"
    BY <1>5, <2>1, <2>3 DEF AbortInterrupted
  <2> QED
    BY <2>2, <2>3
<1>6. CASE Aborted
  BY <1>6 DEF Aborted, LeaveAbort, Resumes, stopVars, IInv, StartTypeOK, TunnelTypeOK
<1>7. CASE StopEnds
  BY <1>7 DEF StopEnds, taskVars
<1>8. CASE LeaderExits
  BY <1>8 DEF LeaderExits, taskVars, stopVars
<1>9. CASE CancelStart
  <2>1. /\ interrupt' = TRUE
        /\ UNCHANGED <<pc, stopTask, recorded>>
    BY <1>9 DEF CancelStart, Interrupt, stopVars
  <2> QED
    BY <2>1
<1>10. CASE HandshakeExpires
  BY <1>1, <1>10 DEF HandshakeExpires, stopVars, IInv, TimerInv
<1>11. CASE UNCHANGED tunnelVars
  BY <1>11 DEF tunnelVars, taskVars, stopVars
<1> QED
  BY <1>2, <1>3, <1>4, <1>5, <1>6, <1>7, <1>8, <1>9, <1>10, <1>11 DEF StartNext, StartTask

\* Tunnel.stop, as the handler of start_tunnel calls it, implements the safety part of
\* Teardown, for any number of cancellations.
THEOREM AbortPromiseIsKept == StartSpec => AbortPromiseKept
<1>1. IInv /\ [StartNext]_tunnelVars => [AbortPromise!Next]_(AbortPromise!tvars)
  BY NextPromise
<1> QED
  BY <1>1, InitPromise, Invariance, PTL DEF StartSpec, AbortPromiseKept, AbortPromise!Safety
=============================================================================
