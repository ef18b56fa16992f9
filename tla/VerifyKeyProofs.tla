-------------------------- MODULE VerifyKeyProofs --------------------------
(***************************************************************************)
(* Proofs about VerifyKey, for both calls, both kinds of client and any    *)
(* number of cancellations: what is left when the call ends, how it ends,  *)
(* and that the helper of _stop_tunnel keeps the promise of Teardown.      *)
(*                                                                         *)
(* The invariant goes on where that of start_tunnel ends (TunnelProofs),   *)
(* with a second timer around the first one.                               *)
(***************************************************************************)
EXTENDS VerifyKey, TLAPS

\* Awaits of start_tunnel, before it succeeds or begins to stop the process.
Tries == {"spawning", "feeding", "credentials", "connecting", "complaining"}

\* Awaits of the try block of verify_key with a tunnel.
Body == {"settling", "autopsy", "observing", "probing", "confirming"}

\* Between two awaits, with nothing that went wrong.
Calm == {"begin", "started", "verified"}

\* asyncio.timeout(key_check_timeout) is open; and it has been left.
Inside == Tries \union Body \union Calm \union {"aborting", "raised"}
After == {"reobserving", "cleaning", "joining", "stopping", "insisting", "end"}

\* The timer of start_tunnel is open only around the credentials, and has not
\* gone off when a tunnel is handed out; the one of the key is open inside.
TimerInv ==
  /\ handshake = "armed" => pc \in {"credentials", "complaining"}
  /\ handshake = "fired" =>
       ~owned /\ pc \notin {"begin", "spawning", "feeding", "connecting", "started"}
  /\ keyTimer = "armed" => pc \in Inside
  /\ keyTimer = "off" => pc \in After

\* cancel() calls that nobody has taken back are those of others, and one of each
\* timer that has gone off until the CancelledError has passed it.
CountInv ==
  cancelling =
    requests + (IF handshake = "fired" /\ pc \in Tries THEN 1 ELSE 0)
             + (IF keyTimer = "fired" /\ pc \in Inside THEN 1 ELSE 0)

\* Up to the handlers, whoever cancelled the task is still to be heard, is the
\* error on its way, or was recorded while the process was stopped.
PendingInv ==
  /\ pc \in Tries \union Body => (interrupt <=> cancelling > 0)
  /\ pc \in Calm => cancelling = 0 /\ ~interrupt
  /\ pc \in Tries \union Body \union Calm => error = "none"
  /\ pc = "aborting" =>
       (cancelling > 0 <=> error = "CancelledError" \/ recorded \/ interrupt)
  /\ pc = "raised" =>
       /\ cancelling > 0 <=> error = "CancelledError"
       /\ ~interrupt
  /\ pc \in {"aborting", "raised"} /\ handshake = "fired" =>
       error \in {"TimeoutError", "CancelledError"}
  /\ pc \in {"aborting", "raised"} => error # "none"
  /\ error = "TimeoutError" => "fired" \in {handshake, keyTimer}

\* Who has the tunnel, and what has become of its process.
TunnelInv ==
  /\ pc \in StartLocations \ {"raised"} => ~owned
  /\ pc \in Body \union {"verified"} => owned
  /\ pc = "begin" => leader = "none" /\ group = "none" /\ ~config
  /\ pc \in Tries \union {"started"} \/ owned => group # "none"
  /\ pc \in Calm \union Tries => stopTask = "none" /\ ~recorded
  /\ owned /\ pc \in Inside \union {"reobserving", "cleaning", "joining"} =>
       stopTask = "none" /\ ~recorded
  /\ pc = "aborting" => stopTask # "none"
  /\ ~owned /\ pc \in After \union {"raised"} =>
       /\ stopTask # "running"
       /\ stopTask = "none" => leader # "running" /\ group # "up"
  /\ stopTask = "done" => leader = "exited" /\ group = "down" /\ ~config

\* The finally block: its helper has one tunnel to stop, and ends after it.
HelperInv ==
  /\ pc \in Inside \union {"reobserving", "cleaning", "joining"} => helper = "none"
  /\ pc \in {"stopping", "insisting"} => owned
  /\ owned /\ pc \in {"stopping", "insisting", "end"} =>
       helper # "none" /\ stopTask # "none"
  /\ helper = "done" => stopTask = "done"
  /\ helper = "none" => ~helperInterrupt
  /\ pc = "end" => helper # "running"

\* The observer exists only with a host name to look up, is over before the
\* tunnel is stopped; and requests are counted up to the last one.
ObserverInv ==
  /\ pc = "observing" => ~literal /\ ~speed
  /\ pc \in {"stopping", "insisting", "end"} => ObserverOver
  /\ pc \in StartLocations \union {"settling", "observing"} /\ ~(pc = "raised") => stage = 0
  /\ pc = "probing" => stage < Requests

\* After the handlers, a cancellation is the error, is still to be thrown, or has
\* been dropped; and the result goes with the error and the timer.
OutcomeInv ==
  /\ pc \in Inside => result = "none"
  /\ dropped <= requests
  /\ pc \in Inside \union {"reobserving", "cleaning"} => dropped = 0
  /\ pc = "cleaning" => ~interrupt
  /\ pc \in {"cleaning", "joining", "end"} =>
       (error = "CancelledError" <=> requests > dropped)
  /\ pc \in {"reobserving", "stopping"} =>
       (error = "CancelledError" \/ interrupt <=> requests > dropped)
  /\ pc = "insisting" => error = "CancelledError" /\ requests > dropped
  /\ pc \in After => (result = "raised" <=> error \in {"CancelledError", "ValueError"})
  /\ pc \in After /\ keyTimer = "fired" => result \in {"failed", "unknown", "raised"}

\* The ValueError of a line too long comes from xray-knife, which alone prints
\* credentials, and before there is a tunnel.
LineInv ==
  /\ error = "ValueError" => kind = "xray" /\ ~owned
  /\ pc \in {"feeding", "credentials"} => kind = "xray"

\* The type invariant in two halves: the Booleans, and all the rest.
Flags ==
  /\ interrupt \in BOOLEAN
  /\ config \in BOOLEAN
  /\ straggler \in BOOLEAN
  /\ recorded \in BOOLEAN
  /\ speed \in BOOLEAN
  /\ owned \in BOOLEAN
  /\ literal \in BOOLEAN
  /\ observerCancelled \in BOOLEAN
  /\ helperInterrupt \in BOOLEAN

Values ==
  /\ pc \in Locations
  /\ error \in Errors \union {"ServiceUnavailable", "VerificationFailure"}
  /\ requests \in 0 .. MaxCancels
  /\ cancelling \in Nat
  /\ kind \in Kinds
  /\ leader \in {"none", "running", "exited"}
  /\ group \in {"none", "up", "down"}
  /\ handshake \in {"off", "armed", "fired"}
  /\ stopTask \in {"none", "running", "done"}
  /\ config => kind = "hysteria"
  /\ stopTask # "none" => group # "none"
  /\ group = "down" => leader = "exited"
  /\ keyTimer \in {"armed", "fired", "off"}
  /\ entry \in {"unknown", "found"}
  /\ observer \in {"none", "ready", "threading", "sleeping", "done"}
  /\ stage \in 0 .. Requests
  /\ helper \in {"none", "running", "done"}
  /\ result \in {"none", "success", "failed", "inconclusive", "unknown", "raised"}
  /\ dropped \in 0 .. MaxCancels
  /\ observer # "none" => ~literal /\ ~speed
  /\ helper # "none" => owned

Inv ==
  /\ TimerInv
  /\ CountInv
  /\ PendingInv
  /\ TunnelInv
  /\ HelperInv
  /\ ObserverInv
  /\ OutcomeInv

IInv == TypeOK /\ Inv /\ LineInv

-----------------------------------------------------------------------------
\* The type invariant is its two halves.
LEMMA Halves == TypeOK <=> Flags /\ Values
BY DEF TypeOK, TunnelTypeOK, Flags, Values

LEMMA InitInv == Init => IInv
<1> SUFFICES ASSUME Init PROVE IInv
  OBVIOUS
<1> USE DEF Init, StartInit
<1>1. Flags
  BY DEF Flags
<1>2. Values
  BY CancelsAssumption
     DEF Values, Locations, StartLocations, Errors, Requests, KeyRequests, SpeedRequests
<1>3. Inv
  BY DEF Inv, TimerInv, CountInv, PendingInv, TunnelInv, HelperInv, ObserverInv, OutcomeInv,
         Inside, After, Tries, Body, Calm, StartLocations
<1>4. LineInv
  BY DEF LineInv
<1> QED
  BY <1>1, <1>2, <1>3, <1>4, Halves DEF IInv

\* No step needs more than the types to keep a Boolean one.
LEMMA FlagsStep == IInv /\ [Next]_vars => Flags'
<1> SUFFICES ASSUME Flags, [Next]_vars PROVE Flags'
  BY Halves DEF IInv
<1> USE DEF Flags, taskVars, procVars, stopVars, verifyVars, verdictVars, observerVars, helperVars
<1>1. CASE (StartFails \/ Spawn \/ SpawnInterrupted \/ Spawned) /\ UNCHANGED verifyVars
  BY <1>1 DEF StartFails, Spawn, SpawnInterrupted, Spawned, Resumes
<1>2. CASE (Fed \/ Ready \/ Complain \/ Complained \/ Aborted) /\ UNCHANGED verifyVars
  BY <1>2 DEF Fed, Ready, Complain, Complained, Aborted, Abort, LeaveAbort, Resumes
<1>3. CASE (BrokenPipe \/ ConnectionLost \/ NotReady \/ LineTooLong) /\ UNCHANGED verifyVars
  BY <1>3 DEF BrokenPipe, ConnectionLost, NotReady, LineTooLong, Abort, Resumes
<1>4. CASE (StartInterrupted \/ AbortInterrupted) /\ UNCHANGED verifyVars
  BY <1>4 DEF StartInterrupted, AbortInterrupted, Abort, LeaveAbort
<1>5. CASE (StopEnds \/ LeaderExits \/ HandshakeExpires) /\ UNCHANGED verifyVars
  BY <1>5 DEF StopEnds, LeaderExits, HandshakeExpires, Interrupt
<1>6. CASE Started \/ Settled
  BY <1>6 DEF Started, Settled, Goes, Resumes
<1>7. CASE ExitedEarly \/ Observed
  BY <1>7 DEF ExitedEarly, Observed, Goes, Raises, Resumes
<1>8. CASE RequestSucceeds \/ RequestFails
  BY <1>8 DEF RequestSucceeds, RequestFails, Goes, Raises, Resumes
<1>9. CASE DownloadFails \/ Confirmed
  BY <1>9 DEF DownloadFails, Confirmed, Goes, Raises, Resumes
<1>10. CASE Succeed \/ BodyInterrupted
  BY <1>10 DEF Succeed, BodyInterrupted, Goes
<1>11. CASE Handle
  BY <1>11 DEF Handle, Concludes, Unmeasured, Handled
<1>12. CASE Reobserved \/ HandlerInterrupted
  BY <1>12 DEF Reobserved, HandlerInterrupted, Goes, Resumes
<1>13. CASE CleanUp
  BY <1>13 DEF CleanUp, Goes, StopTunnel
<1>14. CASE Joined
  BY <1>14 DEF Joined, StopTunnel
<1>15. CASE Stopped \/ StopInterrupted \/ Insisted
  BY <1>15 DEF Stopped, StopInterrupted, Insisted, Goes, Resumes
<1>16. CASE HelperInterrupted \/ HelperReturns
  BY <1>16 DEF HelperInterrupted, HelperReturns, HelperUnchanged
<1>17. CASE ObserverLooks \/ ObserverSees \/ ObserverEnds
  BY <1>17 DEF ObserverLooks, ObserverSees, ObserverEnds, ObserverUnchanged, tunnelVars
<1>18. CASE Cancel
  BY <1>18 DEF Cancel
<1>19. CASE KeyTimerExpires
  BY <1>19 DEF KeyTimerExpires, Interrupt
<1>20. CASE UNCHANGED vars
  BY <1>20 DEF vars, tunnelVars
<1> QED
  BY <1>1, <1>2, <1>3, <1>4, <1>5, <1>6, <1>7, <1>8, <1>9, <1>10, <1>11, <1>12, <1>13, <1>14, <1>15, <1>16, <1>17, <1>18, <1>19, <1>20
     DEF Next, TunnelStep, StartTask, Try, Except, FinallyBlock, Helper, Observer

\* What the types of the other variables need of the rest of the invariant.
LEMMA Facts ==
  ASSUME IInv
  PROVE  /\ Values
         /\ requests \in Nat /\ dropped \in Nat /\ dropped <= requests
         /\ pc = "begin" => ~config /\ leader = "none" /\ group = "none"
         /\ pc \in Tries \/ owned => group # "none"
         /\ pc = "observing" => ~literal /\ ~speed
         /\ pc = "probing" => stage < Requests
         /\ helper # "none" => pc \in {"stopping", "insisting", "end"}
         /\ handshake = "fired" /\ pc \in Tries => cancelling > 0
         /\ keyTimer = "fired" /\ pc = "raised" => cancelling > 0
<1> USE CancelsAssumption, Halves DEF IInv, Inv
<1>1. Values /\ requests \in Nat /\ dropped \in Nat /\ dropped <= requests
  BY DEF Values, OutcomeInv
<1>2. /\ pc = "begin" => ~config /\ leader = "none" /\ group = "none"
      /\ pc \in Tries \/ owned => group # "none"
  BY DEF TunnelInv
<1>3. /\ pc = "observing" => ~literal /\ ~speed
      /\ pc = "probing" => stage < Requests
  BY DEF ObserverInv
<1>4. helper # "none" => pc \in {"stopping", "insisting", "end"}
  BY DEF Values, HelperInv, Locations, StartLocations, Inside, Tries, Body, Calm
<1>5. /\ handshake = "fired" /\ pc \in Tries => cancelling > 0
      /\ keyTimer = "fired" /\ pc = "raised" => cancelling > 0
  BY <1>1 DEF Values, CountInv, Inside
<1> QED
  BY <1>1, <1>2, <1>3, <1>4, <1>5

\* A ValueError is raised only at the credentials, and no tunnel is handed out while
\* there is an error.
LEMMA LineStep == IInv /\ [Next]_vars => LineInv'
<1> SUFFICES ASSUME IInv, [Next]_vars PROVE LineInv'
  OBVIOUS
<1> USE DEF LineInv, procVars, stopVars, taskVars, verifyVars, verdictVars
<1> LineInv
  BY DEF IInv
<1>1. CASE (StartFails \/ Spawn \/ SpawnInterrupted \/ Spawned) /\ UNCHANGED verifyVars
  BY <1>1 DEF StartFails, Spawn, SpawnInterrupted, Spawned, Resumes
<1>2. CASE (Fed \/ Ready \/ ConnectionLost \/ Complain \/ Complained) /\ UNCHANGED verifyVars
  BY <1>2 DEF Fed, Ready, ConnectionLost, Complain, Complained, Abort, Resumes
<1>3. CASE LineTooLong /\ UNCHANGED verifyVars
  BY <1>3 DEF LineTooLong, Abort, Resumes, IInv, Inv, TunnelInv, StartLocations
<1>4. CASE (BrokenPipe \/ NotReady) /\ UNCHANGED verifyVars
  BY <1>4 DEF BrokenPipe, NotReady, Abort, Resumes
<1>5. CASE (StartInterrupted \/ AbortInterrupted \/ Aborted) /\ UNCHANGED verifyVars
  BY <1>5 DEF StartInterrupted, AbortInterrupted, Aborted, Abort, LeaveAbort, Resumes
<1>6. CASE (StopEnds \/ LeaderExits \/ HandshakeExpires) /\ UNCHANGED verifyVars
  BY <1>6 DEF StopEnds, LeaderExits, HandshakeExpires
<1>7. CASE Started
  BY <1>7 DEF Started, Goes, IInv, Inv, PendingInv, Calm
<1>8. CASE Settled \/ ExitedEarly \/ Observed \/ RequestSucceeds
  BY <1>8 DEF Settled, ExitedEarly, Observed, RequestSucceeds, Goes, Raises, Resumes
<1>9. CASE RequestFails \/ DownloadFails \/ Confirmed \/ Succeed \/ BodyInterrupted
  BY <1>9 DEF RequestFails, DownloadFails, Confirmed, Succeed, BodyInterrupted, Goes, Raises,
              Resumes
<1>10. CASE Handle
  BY <1>10 DEF Handle, Concludes, Unmeasured, Handled
<1>11. CASE Reobserved \/ HandlerInterrupted
  BY <1>11 DEF Reobserved, HandlerInterrupted, Goes, Resumes
<1>12. CASE FinallyBlock
  BY <1>12 DEF FinallyBlock, CleanUp, Joined, Stopped, StopInterrupted, Insisted, StopTunnel,
               Goes, Resumes
<1>13. CASE Helper \/ Observer
  BY <1>13 DEF Helper, HelperInterrupted, HelperReturns, HelperUnchanged, Observer,
               ObserverLooks, ObserverSees, ObserverEnds, ObserverUnchanged, tunnelVars
<1>14. CASE Cancel \/ KeyTimerExpires
  BY <1>14 DEF Cancel, KeyTimerExpires
<1>15. CASE UNCHANGED vars
  BY <1>15 DEF vars, tunnelVars
<1> QED
  BY <1>1, <1>2, <1>3, <1>4, <1>5, <1>6, <1>7, <1>8, <1>9, <1>10, <1>11, <1>12, <1>13, <1>14, <1>15
     DEF Next, TunnelStep, StartTask, Try, Except

\* Steps of the processes do not concern the observer and the requests.
LEMMA ObserverKept ==
  ASSUME ObserverInv, UNCHANGED <<pc, observer, literal, speed, stage>>
  PROVE  ObserverInv'
BY DEF ObserverInv, ObserverOver, Requests

\* Whoever cancels the task leaves it with a CancelledError to be thrown, unless it
\* joins the observer, whose CancelledError is dropped, or already has one to
\* raise.
LEMMA CancelStep == IInv /\ Cancel => (PendingInv /\ OutcomeInv)'
<1> SUFFICES ASSUME IInv, Cancel PROVE (PendingInv /\ OutcomeInv)'
  OBVIOUS
<1>1. requests \in Nat /\ dropped \in Nat /\ dropped <= requests /\ cancelling \in Nat
  BY Facts DEF Values
<1>2. pc' = pc /\ pc \notin Calm \union {"raised", "cleaning", "end"}
  BY DEF Cancel, Suspended, Calm
<1>3. cancelling' > 0 /\ requests' = requests + 1
  BY <1>1 DEF Cancel
<1>4. UNCHANGED <<error, handshake, keyTimer, recorded, result>>
  BY DEF Cancel, stopVars
<1>5. pc \notin {"joining", "insisting"} => interrupt'
  BY DEF Cancel
<1>6. dropped' = IF pc = "joining" THEN dropped + 1 ELSE dropped
  BY DEF Cancel
<1>7. PendingInv /\ OutcomeInv
  BY DEF IInv, Inv
<1>8. PendingInv'
  BY <1>2, <1>3, <1>4, <1>5, <1>7 DEF PendingInv, Tries, Body, Calm
<1>9. OutcomeInv'
  BY <1>1, <1>2, <1>3, <1>4, <1>5, <1>6, <1>7
     DEF OutcomeInv, Inside, After, StartLocations, Tries, Body, Calm
<1> QED
  BY <1>8, <1>9

\* The exception leaves the timeout of the key.  With CountInv, "count back to
\* zero" is the same as "cancelled by nobody else"; so the error e it goes on with
\* is CancelledError exactly if somebody did.
LEMMA HandleStep == IInv /\ Handle => (Values /\ Inv)'
<1> SUFFICES ASSUME IInv, Handle PROVE (Values /\ Inv)'
  OBVIOUS
<1> DEFINE e == IF keyTimer = "fired" /\ error = "CancelledError" /\ cancelling' = 0
                THEN "TimeoutError" ELSE error
<1>1. /\ pc = "raised" /\ ~interrupt /\ requests \in Nat /\ keyTimer \in {"armed", "fired"}
      /\ error \in (Errors \union {"ServiceUnavailable", "VerificationFailure"}) \ {"none"}
      /\ cancelling > 0 <=> error = "CancelledError"
      /\ cancelling = requests + (IF keyTimer = "fired" THEN 1 ELSE 0)
  BY Facts DEF Handle, Values, IInv, Inv, PendingInv, TimerInv, CountInv, Inside, After, Tries
<1>2. cancelling' = requests /\ keyTimer' = (IF keyTimer = "fired" THEN "fired" ELSE "off")
  BY <1>1 DEF Handle
<1>3. e = "CancelledError" <=> requests > 0
  BY <1>1, <1>2
<1>4. keyTimer = "fired" => e \in {"TimeoutError", "CancelledError"}
  BY <1>1
<1>5. /\ e \in (Errors \union {"ServiceUnavailable", "VerificationFailure"}) \ {"none"}
      /\ e = "TimeoutError" => "fired" \in {handshake, keyTimer}
  BY <1>1 DEF Errors, IInv, Inv, PendingInv
<1>6. Concludes(e)
  BY DEF Handle
<1> HIDE DEF e
<1>7. /\ error' = e
      /\ result' \in {"failed", "inconclusive", "unknown", "raised"}
      /\ result' = "raised" <=> e \in {"CancelledError", "ValueError"}
      /\ keyTimer = "fired" => result' \in {"failed", "unknown", "raised"}
      /\ pc' \in {"reobserving", "cleaning"}
      /\ pc' = "reobserving" => result' # "raised"
      /\ entry' \in {"found", entry}
      /\ UNCHANGED <<interrupt, requests, kind, procVars, handshake, stopVars>>
      /\ UNCHANGED <<speed, owned, literal, stage, dropped, observerVars, helperVars>>
  <2>1. CASE speed
    BY <1>4, <1>5, <1>6, <2>1 DEF Concludes, Unmeasured
  <2>2. CASE ~speed
    BY <1>4, <1>5, <1>6, <2>2 DEF Concludes, Handled, Verdict, Errors
  <2> QED
    BY <2>1, <2>2
<1> USE DEF procVars, stopVars, observerVars, helperVars
<1>8. Values'
  BY <1>1, <1>2, <1>5, <1>7, Facts DEF Values, Locations, Requests
<1>9. (TimerInv /\ CountInv)'
  BY <1>1, <1>2, <1>7 DEF IInv, Inv, TimerInv, CountInv, Inside, After, Tries, Body, Calm
<1>10. (PendingInv /\ TunnelInv /\ HelperInv)'
  BY <1>1, <1>2, <1>5, <1>7
     DEF IInv, Inv, PendingInv, TunnelInv, HelperInv, StartLocations, Inside, After, Tries, Body,
         Calm
<1>11. ObserverInv'
  BY <1>7 DEF ObserverInv, StartLocations
<1>12. OutcomeInv'
  BY <1>1, <1>2, <1>3, <1>4, <1>5, <1>7
     DEF IInv, Inv, OutcomeInv, Inside, After, StartLocations, Tries, Body, Calm
<1> QED
  BY <1>8, <1>9, <1>10, <1>11, <1>12 DEF Inv

\* The types of the other values, for the steps of each part of the call.
LEMMA StartValues ==
  ASSUME IInv,
         \/ StartFails \/ Spawn \/ SpawnInterrupted \/ Spawned \/ Fed \/ Ready \/ Complain,
         UNCHANGED verifyVars
  PROVE  Values'
<1> USE Facts, CancelsAssumption, KindsAssumption
        DEF Values, Requests, KeyRequests, SpeedRequests, Locations, StartLocations, Tries,
            Errors, vars, tunnelVars, taskVars, procVars, stopVars, verifyVars, verdictVars,
            observerVars, helperVars, Resumes
<1>1. CASE StartFails
  BY <1>1 DEF StartFails
<1>2. CASE Spawn
  <2>1. config' => kind' = "hysteria"
    BY <1>2 DEF Spawn
  <2>2. group' # "none" /\ (group' = "down" => leader' = "exited")
    BY <1>2 DEF Spawn
  <2>3. leader' \in {"none", "running", "exited"} /\ group' \in {"none", "up", "down"}
    BY <1>2 DEF Spawn
  <2>4. /\ pc' = "spawning"
        /\ UNCHANGED <<error, interrupt, requests, cancelling, kind, handshake, stopTask>>
        /\ UNCHANGED <<speed, stage>>
    BY <1>2 DEF Spawn
  <2> QED
    BY <2>1, <2>2, <2>3, <2>4
<1>3. CASE SpawnInterrupted
  BY <1>3 DEF SpawnInterrupted
<1>4. CASE Spawned
  BY <1>4 DEF Spawned
<1>5. CASE Fed
  BY <1>5 DEF Fed
<1>6. CASE Ready
  BY <1>6 DEF Ready
<1>7. CASE Complain
  BY <1>7 DEF Complain
<1> QED
  BY <1>1, <1>2, <1>3, <1>4, <1>5, <1>6, <1>7

LEMMA AbortValues ==
  ASSUME IInv,
         \/ BrokenPipe \/ ConnectionLost \/ Complained \/ NotReady \/ LineTooLong
         \/ StartInterrupted \/ AbortInterrupted \/ Aborted,
         UNCHANGED verifyVars
  PROVE  Values'
<1> USE Facts, CancelsAssumption, KindsAssumption
        DEF Values, Requests, KeyRequests, SpeedRequests, Locations, StartLocations, Tries,
            Errors, vars, tunnelVars, taskVars, procVars, stopVars, verifyVars, verdictVars,
            observerVars, helperVars, Resumes, Abort, LeaveAbort, StderrEnded
<1>1. CASE BrokenPipe
  BY <1>1 DEF BrokenPipe
<1>2. CASE Complained
  BY <1>2 DEF Complained
<1>3. CASE NotReady
  BY <1>3 DEF NotReady
<1>4. CASE LineTooLong
  BY <1>4 DEF LineTooLong
<1>5. CASE StartInterrupted
  BY <1>5 DEF StartInterrupted
<1>6. CASE AbortInterrupted
  BY <1>6 DEF AbortInterrupted
<1>7. CASE Aborted
  BY <1>7 DEF Aborted
<1>8. CASE ConnectionLost
  BY <1>8 DEF ConnectionLost
<1> QED
  BY <1>1, <1>2, <1>3, <1>4, <1>5, <1>6, <1>7, <1>8

LEMMA ProcessValues ==
  ASSUME IInv,
         \/ StopEnds \/ LeaderExits \/ HandshakeExpires,
         UNCHANGED verifyVars
  PROVE  Values'
<1> USE Facts, CancelsAssumption, KindsAssumption
        DEF Values, Requests, KeyRequests, SpeedRequests, Locations, StartLocations, Tries,
            Errors, vars, tunnelVars, taskVars, procVars, stopVars, verifyVars, verdictVars,
            observerVars, helperVars, Resumes, Interrupt
<1>1. CASE StopEnds
  BY <1>1 DEF StopEnds
<1>2. CASE LeaderExits
  BY <1>2 DEF LeaderExits
<1>3. CASE HandshakeExpires
  BY <1>3 DEF HandshakeExpires
<1> QED
  BY <1>1, <1>2, <1>3

LEMMA BodyValues ==
  ASSUME IInv,
         \/ Started \/ Settled \/ ExitedEarly \/ Observed \/ RequestSucceeds \/ RequestFails
         \/ DownloadFails \/ Confirmed \/ Succeed \/ BodyInterrupted
  PROVE  Values'
<1> USE Facts, CancelsAssumption, KindsAssumption
        DEF Values, Requests, KeyRequests, SpeedRequests, Locations, StartLocations, Tries,
            Errors, vars, tunnelVars, taskVars, procVars, stopVars, verifyVars, verdictVars,
            observerVars, helperVars, Resumes, Goes, Raises, StderrEnded
<1>1. CASE Started
  BY <1>1 DEF Started
<1>2. CASE Settled
  BY <1>2 DEF Settled
<1>3. CASE ExitedEarly
  BY <1>3 DEF ExitedEarly
<1>4. CASE Observed
  BY <1>4 DEF Observed
<1>5. CASE RequestSucceeds
  BY <1>5 DEF RequestSucceeds
<1>6. CASE RequestFails
  BY <1>6 DEF RequestFails
<1>7. CASE DownloadFails
  BY <1>7 DEF DownloadFails
<1>8. CASE Confirmed
  BY <1>8 DEF Confirmed
<1>9. CASE Succeed
  BY <1>9 DEF Succeed
<1>10. CASE BodyInterrupted
  BY <1>10 DEF BodyInterrupted
<1> QED
  BY <1>1, <1>2, <1>3, <1>4, <1>5, <1>6, <1>7, <1>8, <1>9, <1>10

LEMMA ExceptValues ==
  ASSUME IInv,
         \/ Handle \/ Reobserved \/ HandlerInterrupted
  PROVE  Values'
<1> USE Facts, CancelsAssumption, KindsAssumption
        DEF Values, Requests, KeyRequests, SpeedRequests, Locations, StartLocations, Tries,
            Errors, vars, tunnelVars, taskVars, procVars, stopVars, verifyVars, verdictVars,
            observerVars, helperVars, Resumes, Goes, Concludes, Unmeasured, Handled, Verdict
<1>1. CASE Handle
  BY <1>1, HandleStep
<1>2. CASE Reobserved
  BY <1>2 DEF Reobserved
<1>3. CASE HandlerInterrupted
  BY <1>3 DEF HandlerInterrupted
<1> QED
  BY <1>1, <1>2, <1>3

LEMMA FinallyValues ==
  ASSUME IInv,
         \/ CleanUp \/ Joined \/ Stopped \/ StopInterrupted \/ Insisted
  PROVE  Values'
<1> USE Facts, CancelsAssumption, KindsAssumption
        DEF Values, Requests, KeyRequests, SpeedRequests, Locations, StartLocations, Tries,
            Errors, vars, tunnelVars, taskVars, procVars, stopVars, verifyVars, verdictVars,
            observerVars, helperVars, Resumes, Goes, StopTunnel, ObserverOver
<1>1. CASE CleanUp
  BY <1>1 DEF CleanUp
<1>2. CASE Joined
  BY <1>2 DEF Joined
<1>3. CASE Stopped
  BY <1>3 DEF Stopped
<1>4. CASE StopInterrupted
  BY <1>4 DEF StopInterrupted
<1>5. CASE Insisted
  BY <1>5 DEF Insisted
<1> QED
  BY <1>1, <1>2, <1>3, <1>4, <1>5

LEMMA OthersValues ==
  ASSUME IInv,
         \/ HelperInterrupted \/ HelperReturns \/ ObserverLooks \/ ObserverSees
         \/ ObserverEnds \/ Cancel \/ KeyTimerExpires
  PROVE  Values'
<1> USE Facts, CancelsAssumption, KindsAssumption
        DEF Values, Requests, KeyRequests, SpeedRequests, Locations, StartLocations, Tries,
            Errors, vars, tunnelVars, taskVars, procVars, stopVars, verifyVars, verdictVars,
            observerVars, helperVars, Resumes, HelperUnchanged, ObserverUnchanged, ObserverOver,
            Suspended, Interrupt
<1>1. CASE HelperInterrupted
  BY <1>1 DEF HelperInterrupted
<1>2. CASE HelperReturns
  BY <1>2 DEF HelperReturns
<1>3. CASE ObserverLooks
  BY <1>3 DEF ObserverLooks
<1>4. CASE ObserverSees
  BY <1>4 DEF ObserverSees
<1>5. CASE ObserverEnds
  BY <1>5 DEF ObserverEnds
<1>6. CASE Cancel
  BY <1>6 DEF Cancel
<1>7. CASE KeyTimerExpires
  BY <1>7 DEF KeyTimerExpires
<1> QED
  BY <1>1, <1>2, <1>3, <1>4, <1>5, <1>6, <1>7

\* The rest of the invariant, for the steps of each part of the call.  First,
\* start_tunnel up to the client being ready,
LEMMA StartStep ==
  ASSUME IInv,
         \/ StartFails \/ Spawn \/ SpawnInterrupted \/ Spawned \/ Fed \/ Ready \/ Complain,
         UNCHANGED verifyVars
  PROVE  Inv'
<1> USE CancelsAssumption
        DEF IInv, Inv, TypeOK, TunnelTypeOK, TimerInv, CountInv, PendingInv, TunnelInv,
            HelperInv, ObserverInv, OutcomeInv, Locations, Inside, After, StartLocations, Tries,
            Body, Calm, Requests, KeyRequests, SpeedRequests, vars, tunnelVars, taskVars,
            procVars, stopVars, verifyVars, verdictVars, observerVars, helperVars, Resumes
<1>1. CASE StartFails
  BY <1>1 DEF StartFails
<1>2. CASE Spawn
  BY <1>2 DEF Spawn
<1>3. CASE SpawnInterrupted
  BY <1>3 DEF SpawnInterrupted
<1>4. CASE Spawned
  BY <1>4 DEF Spawned
<1>5. CASE Fed
  BY <1>5 DEF Fed
<1>6. CASE Ready
  BY <1>6 DEF Ready
<1>7. CASE Complain
  BY <1>7 DEF Complain
<1> QED
  BY <1>1, <1>2, <1>3, <1>4, <1>5, <1>6, <1>7

\* its failures and the handler that stops the process,
LEMMA AbortStep ==
  ASSUME IInv,
         \/ BrokenPipe \/ ConnectionLost \/ Complained \/ NotReady \/ LineTooLong
         \/ StartInterrupted \/ AbortInterrupted \/ Aborted,
         UNCHANGED verifyVars
  PROVE  Inv'
<1> USE CancelsAssumption
        DEF IInv, Inv, TypeOK, TunnelTypeOK, TimerInv, CountInv, PendingInv, TunnelInv,
            HelperInv, ObserverInv, OutcomeInv, Locations, Inside, After, StartLocations, Tries,
            Body, Calm, Requests, KeyRequests, SpeedRequests, vars, tunnelVars, taskVars,
            procVars, stopVars, verifyVars, verdictVars, observerVars, helperVars, Resumes,
            Abort, LeaveAbort, StderrEnded
<1>1. CASE BrokenPipe
  BY <1>1 DEF BrokenPipe
<1>2. CASE Complained
  BY <1>2 DEF Complained
<1>3. CASE NotReady
  BY <1>3 DEF NotReady
<1>4. CASE LineTooLong
  BY <1>4 DEF LineTooLong
<1>5. CASE StartInterrupted
  BY <1>5 DEF StartInterrupted
<1>6. CASE AbortInterrupted
  BY <1>6 DEF AbortInterrupted
<1>7. CASE Aborted
  BY <1>7 DEF Aborted
<1>8. CASE ConnectionLost
  BY <1>8 DEF ConnectionLost
<1> QED
  BY <1>1, <1>2, <1>3, <1>4, <1>5, <1>6, <1>7, <1>8

\* the stop task, the process and the timer,
LEMMA ProcessStep ==
  ASSUME IInv,
         \/ StopEnds \/ LeaderExits \/ HandshakeExpires,
         UNCHANGED verifyVars
  PROVE  Inv'
<1> USE CancelsAssumption
        DEF IInv, Inv, TypeOK, TunnelTypeOK, TimerInv, CountInv, PendingInv, TunnelInv,
            HelperInv, ObserverInv, OutcomeInv, Locations, Inside, After, StartLocations, Tries,
            Body, Calm, Requests, KeyRequests, SpeedRequests, vars, tunnelVars, taskVars,
            procVars, stopVars, verifyVars, verdictVars, observerVars, helperVars, Resumes,
            Interrupt
<1>1. CASE StopEnds
  <2>1. TimerInv'
    BY <1>1 DEF StopEnds
  <2>2. CountInv'
    BY <1>1 DEF StopEnds
  <2>3. PendingInv'
    BY <1>1 DEF StopEnds
  <2>4. TunnelInv'
    BY <1>1 DEF StopEnds
  <2>5. HelperInv'
    BY <1>1 DEF StopEnds
  <2>6. ObserverInv'
    BY <1>1, ObserverKept DEF StopEnds
  <2>7. OutcomeInv'
    BY <1>1 DEF StopEnds
  <2> QED
    BY <2>1, <2>2, <2>3, <2>4, <2>5, <2>6, <2>7
<1>2. CASE LeaderExits
  <2>1. TimerInv'
    BY <1>2 DEF LeaderExits
  <2>2. CountInv'
    BY <1>2 DEF LeaderExits
  <2>3. PendingInv'
    BY <1>2 DEF LeaderExits
  <2>4. TunnelInv'
    BY <1>2 DEF LeaderExits
  <2>5. HelperInv'
    BY <1>2 DEF LeaderExits
  <2>6. ObserverInv'
    BY <1>2, ObserverKept DEF LeaderExits
  <2>7. OutcomeInv'
    BY <1>2 DEF LeaderExits
  <2> QED
    BY <2>1, <2>2, <2>3, <2>4, <2>5, <2>6, <2>7
<1>3. CASE HandshakeExpires
  BY <1>3 DEF HandshakeExpires
<1> QED
  BY <1>1, <1>2, <1>3

\* the try block with a tunnel,
LEMMA BodyStep ==
  ASSUME IInv,
         \/ Started \/ Settled \/ ExitedEarly \/ Observed \/ RequestSucceeds \/ RequestFails
         \/ DownloadFails \/ Confirmed \/ Succeed \/ BodyInterrupted
  PROVE  Inv'
<1> USE CancelsAssumption
        DEF IInv, Inv, TypeOK, TunnelTypeOK, TimerInv, CountInv, PendingInv, TunnelInv,
            HelperInv, ObserverInv, OutcomeInv, Locations, Inside, After, StartLocations, Tries,
            Body, Calm, Requests, KeyRequests, SpeedRequests, vars, tunnelVars, taskVars,
            procVars, stopVars, verifyVars, verdictVars, observerVars, helperVars, Resumes,
            Goes, Raises, StderrEnded
<1>1. CASE Started
  BY <1>1 DEF Started
<1>2. CASE Settled
  BY <1>2 DEF Settled
<1>3. CASE ExitedEarly
  BY <1>3 DEF ExitedEarly
<1>4. CASE Observed
  BY <1>4 DEF Observed
<1>5. CASE RequestSucceeds
  BY <1>5 DEF RequestSucceeds
<1>6. CASE RequestFails
  BY <1>6 DEF RequestFails
<1>7. CASE DownloadFails
  BY <1>7 DEF DownloadFails
<1>8. CASE Confirmed
  BY <1>8 DEF Confirmed
<1>9. CASE Succeed
  BY <1>9 DEF Succeed
<1>10. CASE BodyInterrupted
  BY <1>10 DEF BodyInterrupted
<1> QED
  BY <1>1, <1>2, <1>3, <1>4, <1>5, <1>6, <1>7, <1>8, <1>9, <1>10

\* the handlers,
LEMMA ExceptStep ==
  ASSUME IInv,
         \/ Handle \/ Reobserved \/ HandlerInterrupted
  PROVE  Inv'
<1> USE CancelsAssumption
        DEF IInv, Inv, TypeOK, TunnelTypeOK, TimerInv, CountInv, PendingInv, TunnelInv,
            HelperInv, ObserverInv, OutcomeInv, Locations, Inside, After, StartLocations, Tries,
            Body, Calm, Requests, KeyRequests, SpeedRequests, vars, tunnelVars, taskVars,
            procVars, stopVars, verifyVars, verdictVars, observerVars, helperVars, Resumes,
            Goes, Concludes, Unmeasured, Handled, Verdict
<1>1. CASE Handle
  BY <1>1, HandleStep DEF Inv
<1>2. CASE Reobserved
  BY <1>2 DEF Reobserved
<1>3. CASE HandlerInterrupted
  BY <1>3 DEF HandlerInterrupted
<1> QED
  BY <1>1, <1>2, <1>3

\* the finally block,
LEMMA FinallyStep ==
  ASSUME IInv,
         \/ CleanUp \/ Joined \/ Stopped \/ StopInterrupted \/ Insisted
  PROVE  Inv'
<1> USE CancelsAssumption
        DEF IInv, Inv, TypeOK, TunnelTypeOK, TimerInv, CountInv, PendingInv, TunnelInv,
            HelperInv, ObserverInv, OutcomeInv, Locations, Inside, After, StartLocations, Tries,
            Body, Calm, Requests, KeyRequests, SpeedRequests, vars, tunnelVars, taskVars,
            procVars, stopVars, verifyVars, verdictVars, observerVars, helperVars, Resumes,
            Goes, StopTunnel, ObserverOver
<1>1. CASE CleanUp
  BY <1>1 DEF CleanUp
<1>2. CASE Joined
  BY <1>2 DEF Joined
<1>3. CASE Stopped
  BY <1>3 DEF Stopped
<1>4. CASE StopInterrupted
  BY <1>4 DEF StopInterrupted
<1>5. CASE Insisted
  BY <1>5 DEF Insisted
<1> QED
  BY <1>1, <1>2, <1>3, <1>4, <1>5

\* the helper, the observer, and cancellation.
LEMMA OthersStep ==
  ASSUME IInv,
         \/ HelperInterrupted \/ HelperReturns \/ ObserverLooks \/ ObserverSees
         \/ ObserverEnds \/ Cancel \/ KeyTimerExpires
  PROVE  Inv'
<1> USE CancelsAssumption
        DEF IInv, Inv, TypeOK, TunnelTypeOK, TimerInv, CountInv, PendingInv, TunnelInv,
            HelperInv, ObserverInv, OutcomeInv, Locations, Inside, After, StartLocations, Tries,
            Body, Calm, Requests, KeyRequests, SpeedRequests, vars, tunnelVars, taskVars,
            procVars, stopVars, verifyVars, verdictVars, observerVars, helperVars, Resumes,
            HelperUnchanged, ObserverUnchanged, ObserverOver, Suspended, Interrupt
<1>1. CASE HelperInterrupted
  BY <1>1 DEF HelperInterrupted
<1>2. CASE HelperReturns
  BY <1>2 DEF HelperReturns
<1>3. CASE ObserverLooks
  BY <1>3 DEF ObserverLooks
<1>4. CASE ObserverSees
  BY <1>4 DEF ObserverSees
<1>5. CASE ObserverEnds
  BY <1>5 DEF ObserverEnds
<1>6. CASE Cancel
  <2>1. TimerInv'
    BY <1>6 DEF Cancel
  <2>2. CountInv'
    BY <1>6 DEF Cancel
  <2>3. PendingInv'
    BY <1>6, CancelStep
  <2>4. TunnelInv'
    BY <1>6 DEF Cancel
  <2>5. HelperInv'
    BY <1>6 DEF Cancel
  <2>6. ObserverInv'
    BY <1>6 DEF Cancel
  <2>7. OutcomeInv'
    BY <1>6, CancelStep
  <2> QED
    BY <2>1, <2>2, <2>3, <2>4, <2>5, <2>6, <2>7
<1>7. CASE KeyTimerExpires
  BY <1>7 DEF KeyTimerExpires
<1> QED
  BY <1>1, <1>2, <1>3, <1>4, <1>5, <1>6, <1>7

LEMMA NextInv == IInv /\ [Next]_vars => IInv'
<1> SUFFICES ASSUME IInv, [Next]_vars PROVE IInv'
  OBVIOUS
<1>1. Flags'
  BY FlagsStep
<1>2. (Values /\ Inv)'
  <2>1. CASE TunnelStep /\ UNCHANGED verifyVars
    BY <2>1, StartValues, AbortValues, ProcessValues, StartStep, AbortStep, ProcessStep
       DEF TunnelStep, StartTask
  <2>2. CASE Try
    BY <2>2, BodyValues, BodyStep DEF Try
  <2>3. CASE Except
    BY <2>3, ExceptValues, ExceptStep DEF Except
  <2>4. CASE FinallyBlock
    BY <2>4, FinallyValues, FinallyStep DEF FinallyBlock
  <2>5. CASE Helper \/ Observer \/ Cancel \/ KeyTimerExpires
    BY <2>5, OthersValues, OthersStep DEF Helper, Observer
  <2>6. CASE UNCHANGED vars
    BY <2>6, Halves
       DEF vars, tunnelVars, taskVars, procVars, stopVars, verifyVars, verdictVars, observerVars,
           helperVars, IInv, Inv, Values, TimerInv, CountInv, PendingInv, TunnelInv, HelperInv,
           ObserverInv, ObserverOver, OutcomeInv, Requests
  <2> QED
    BY <2>1, <2>2, <2>3, <2>4, <2>5, <2>6 DEF Next
<1>3. TypeOK'
  BY <1>1, <1>2 DEF TypeOK, TunnelTypeOK, Flags, Values
<1> QED
  BY <1>2, <1>3, LineStep DEF IInv

LEMMA Invariance == Spec => []IInv
BY InitInv, NextInv, PTL DEF Spec

-----------------------------------------------------------------------------
\* Every variable keeps its type.
THEOREM TypeCorrect == Spec => []TypeOK
<1>1. IInv => TypeOK
  BY DEF IInv
<1> QED
  BY <1>1, Invariance, PTL

\* Whenever and however often the call is cancelled, and whichever of its timers
\* goes off: when it ends, no process, no file and no task of it is left
\* (verification.py:209, 289).
THEOREM IsTornDown == Spec => []TornDown
<1>1. IInv => TornDown
  BY DEF IInv, Inv, TypeOK, TunnelTypeOK, TunnelInv, HelperInv, ObserverInv, TornDown, Nothing,
         After
<1> QED
  BY <1>1, Invariance, PTL

\* A key whose time was up is never reported as working.
THEOREM SuccessIsInTime == Spec => []NoLateSuccess
<1>1. IInv => NoLateSuccess
  BY DEF IInv, Inv, OutcomeInv, NoLateSuccess, After
<1> QED
  BY <1>1, Invariance, PTL

\* CancelledError leaves the call exactly if others cancelled it, but for those that
\* are suppressed with the observer's (verification.py:275-277); and the one other
\* exception of verify_key is the ValueError of xray-knife's overlong line.
THEOREM RaisesOnlyThen == Spec => []RaisesExactly
<1>1. IInv => RaisesExactly
  BY DEF IInv, Inv, OutcomeInv, LineInv, RaisesExactly, After
<1> QED
  BY <1>1, Invariance, PTL

\* A verdict of "timed out" has a timer that went off behind it, and nobody's
\* cancellation.
THEOREM TimeoutAlwaysHasCause == Spec => []TimeoutHasCause
<1>1. IInv => TimeoutHasCause
  <2> SUFFICES ASSUME IInv, pc = "end", error = "TimeoutError"
               PROVE  "fired" \in {keyTimer, handshake} /\ requests = dropped
    BY DEF TimeoutHasCause
  <2>1. requests \in Nat /\ dropped \in Nat /\ dropped <= requests
    BY Facts
  <2>2. ~(requests > dropped)
    BY DEF IInv, Inv, OutcomeInv
  <2> QED
    BY <2>1, <2>2 DEF IInv, Inv, PendingInv
<1> QED
  BY <1>1, Invariance, PTL

-----------------------------------------------------------------------------
(* The refinement of Teardown by the helper of _stop_tunnel.               *)

LEMMA InitPromise == Init => StopPromise!Init
BY DEF Init, StartInit, StopPromise!Init

\* The steps that touch what Teardown sees: the stop task releases the tunnel, a
\* cancellation is passed on to the helper, and the helper leaves after the release.
\* Before _stop_tunnel is called, start_tunnel may have stopped a tunnel of its own.
LEMMA NextPromise ==
  ASSUME IInv, IInv', [Next]_vars
  PROVE  [StopPromise!Next]_(StopPromise!tvars)
<1> USE DEF StopPromise!Next, StopPromise!tvars, StopPromise!Ask, StopPromise!Release,
            StopPromise!Leave
<1>1. CASE UNCHANGED <<stopTask, recorded, helper, helperInterrupt>>
  BY <1>1
<1>2. CASE /\ \/ BrokenPipe \/ ConnectionLost \/ Complained \/ NotReady \/ LineTooLong
              \/ StartInterrupted \/ AbortInterrupted
           /\ UNCHANGED verifyVars
  <2>1. pc \in Tries \union {"aborting"}
    BY <1>2
       DEF BrokenPipe, ConnectionLost, Complained, NotReady, LineTooLong, StartInterrupted,
           AbortInterrupted, Resumes, Tries
  <2>2. helper = "none" /\ UNCHANGED <<helper, helperInterrupt>>
    BY <1>2, <2>1 DEF IInv, Inv, HelperInv, Inside, verifyVars, helperVars
  <2>3. (stopTask' # "done") = (stopTask # "done")
    BY <1>2, <2>1 DEF BrokenPipe, ConnectionLost, Complained, NotReady, LineTooLong,
                      StartInterrupted, AbortInterrupted, Abort, Resumes, Tries, IInv, Inv,
                      TunnelInv
  <2>4. recorded' = recorded \/ recorded' = TRUE
    BY <1>2
       DEF BrokenPipe, ConnectionLost, Complained, NotReady, LineTooLong, StartInterrupted,
           AbortInterrupted, Abort
  <2>5. CASE recorded' = recorded
    BY <2>2, <2>3, <2>5
  <2>6. CASE recorded' = TRUE
    BY <2>2, <2>3, <2>6
  <2> QED
    BY <2>4, <2>5, <2>6
<1>3. CASE StopEnds /\ UNCHANGED verifyVars
  BY <1>3 DEF StopEnds, verifyVars, helperVars, IInv, Inv, HelperInv
<1>4. CASE CleanUp \/ Joined
  <2>1. helper = "none" /\ ~helperInterrupt /\ pc \in {"cleaning", "joining"}
    BY <1>4 DEF CleanUp, Joined, IInv, Inv, HelperInv
  <2>2. owned => stopTask = "none"
    BY <2>1 DEF IInv, Inv, TunnelInv
  <2>3. helper' \in {"none", "running"} /\ UNCHANGED <<recorded, helperInterrupt>>
    BY <1>4, <2>1 DEF CleanUp, Joined, StopTunnel, Goes, helperVars, stopVars
  <2>4. stopTask' = stopTask \/ (owned /\ stopTask' = "running")
    BY <1>4 DEF CleanUp, Joined, StopTunnel, Goes, stopVars
  <2> QED
    BY <2>1, <2>2, <2>3, <2>4
<1>5. CASE HelperInterrupted
  BY <1>5 DEF HelperInterrupted, HelperUnchanged
<1>6. CASE HelperReturns
  BY <1>6 DEF HelperReturns, HelperUnchanged
<1>7. CASE Cancel
  BY <1>7 DEF Cancel, stopVars
<1>8. CASE /\ \/ StartFails \/ Spawn \/ SpawnInterrupted \/ Spawned \/ Fed \/ Ready \/ Complain
              \/ Aborted \/ LeaderExits \/ HandshakeExpires
           /\ UNCHANGED verifyVars
  BY <1>1, <1>8
     DEF StartFails, Spawn, SpawnInterrupted, Spawned, Fed, Ready, Complain, Aborted, LeaderExits,
         HandshakeExpires, stopVars, verifyVars, helperVars
<1>9. CASE Try \/ Except \/ Stopped \/ StopInterrupted \/ Insisted
  BY <1>1, <1>9
     DEF Try, Started, Settled, ExitedEarly, Observed, RequestSucceeds, RequestFails,
         DownloadFails, Confirmed, Succeed, BodyInterrupted, Except, Handle, Concludes, Unmeasured,
         Handled, Reobserved, HandlerInterrupted, Stopped, StopInterrupted, Insisted, Goes, Raises,
         stopVars, verifyVars, helperVars
<1>10. CASE Observer \/ KeyTimerExpires
  BY <1>1, <1>10
     DEF Observer, ObserverLooks, ObserverSees, ObserverEnds, ObserverUnchanged, KeyTimerExpires,
         tunnelVars, stopVars, helperVars
<1>11. CASE UNCHANGED vars
  BY <1>1, <1>11 DEF vars, tunnelVars, stopVars, verifyVars, helperVars
<1> QED
  BY <1>2, <1>3, <1>4, <1>5, <1>6, <1>7, <1>8, <1>9, <1>10, <1>11
     DEF Next, TunnelStep, StartTask, FinallyBlock, Helper

\* Tunnel.stop, as _stop_tunnel calls it in its helper, implements the safety part of
\* Teardown: it reports every cancellation passed on to it, and no other, and only
\* when the tunnel has been stopped.
THEOREM StopPromiseIsKept == Spec => StopPromiseKept
<1>1. IInv /\ IInv' /\ [Next]_vars => [StopPromise!Next]_(StopPromise!tvars)
  BY NextPromise
<1> QED
  BY <1>1, InitPromise, Invariance, PTL DEF Spec, StopPromiseKept, StopPromise!Safety
=============================================================================
