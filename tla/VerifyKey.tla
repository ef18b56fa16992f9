----------------------------- MODULE VerifyKey -----------------------------
(***************************************************************************)
(* verification.py: verify_key, the check of one VPN configuration, and    *)
(* measure_speed, which downloads through a tunnel of its own.  They share *)
(* the timeout, NetworkProbe and the teardown; measure_speed has neither   *)
(* an observer nor a verdict.  Up to five tasks run in verify_key:         *)
(*   - the main task: it starts the tunnel (module Tunnel), lets it        *)
(*     settle, looks for its entry IP and sends requests through it, all   *)
(*     under one asyncio.timeout; then a handler and the finally block;    *)
(*   - the observer, which goes on looking for the entry IP meanwhile;     *)
(*   - the helper of _stop_tunnel, which runs Tunnel.stop, and the stop    *)
(*     task of module Tunnel below it;                                     *)
(* and whoever cancels the main task: verify_subscription's own timeout,   *)
(* or Ctrl-C.                                                              *)
(***************************************************************************)
EXTENDS Tunnel

VARIABLES
  keyTimer,     \* asyncio.timeout(key_check_timeout): "armed", "fired", "off"
  speed,        \* is the call measure_speed, not verify_key?
  owned,        \* the local "tunnel" is not None
  literal,      \* is the server's address an IP literal?
  entry,        \* the shared local "entry_ip": "unknown" or "found"
  observer,     \* where the observer task is, "none" before it exists
  observerCancelled,  \* entry_observer.cancel() was called
  stage,        \* requests of NetworkProbe.run that have succeeded
  helper,       \* the helper task of _stop_tunnel: "none", "running", "done"
  helperInterrupt,    \* a CancelledError will be thrown in the helper
  result,       \* the outcome returned; "raised" for an exception
  dropped       \* history: cancellations that arrived while joining the observer

verdictVars == <<keyTimer, speed, owned, literal, stage, result, dropped>>
observerVars == <<observer, observerCancelled>>
helperVars == <<helper, helperInterrupt>>
verifyVars == <<verdictVars, entry, observerVars, helperVars>>
vars == <<tunnelVars, verifyVars>>

\* NetworkProbe.run: a connectivity check, GeoIP, and the latency requests,
\* one to warm up and three that are timed.
KeyRequests == 1 + 1 + 4

\* NetworkProbe.run_speed: a connectivity check and the download.
SpeedRequests == 1 + 1

Requests == IF speed THEN SpeedRequests ELSE KeyRequests

\* The main task's locations after start_tunnel.
\* "verified" and "cleaning" are no awaits, as are those outside InStart there.
Locations ==
  StartLocations \union
  {"settling", "autopsy", "observing", "probing", "confirming",
   "verified", "reobserving", "cleaning", "joining", "stopping", "insisting", "end"}

TypeOK ==
  /\ TunnelTypeOK
  /\ pc \in Locations
  /\ error \in Errors \union {"ServiceUnavailable", "VerificationFailure"}
  /\ keyTimer \in {"armed", "fired", "off"}
  /\ speed \in BOOLEAN
  /\ owned \in BOOLEAN
  /\ literal \in BOOLEAN
  /\ entry \in {"unknown", "found"}
  /\ observer \in {"none", "ready", "threading", "sleeping", "done"}
  /\ observerCancelled \in BOOLEAN
  /\ stage \in 0 .. Requests
  /\ helper \in {"none", "running", "done"}
  /\ helperInterrupt \in BOOLEAN
  /\ result \in {"none", "success", "failed", "inconclusive", "unknown", "raised"}
  /\ dropped \in 0 .. MaxCancels
  /\ observer # "none" => ~literal /\ ~speed
  /\ helper # "none" => owned

Init ==
  /\ StartInit
  /\ keyTimer = "armed"
  /\ speed \in BOOLEAN
  /\ owned = FALSE
  /\ literal \in BOOLEAN
  /\ entry = "unknown"
  /\ observer = "none"
  /\ observerCancelled = FALSE
  /\ stage = 0
  /\ helper = "none"
  /\ helperInterrupt = FALSE
  /\ result = "none"
  /\ dropped = 0

\* A step of the main task that changes pc and nothing else of module Tunnel.
Goes(l) ==
  /\ pc' = l
  /\ UNCHANGED <<error, interrupt, requests, cancelling, kind, procVars, handshake, stopVars>>

\* An exception on its way out of the try block.
Raises(e) ==
  /\ pc' = "raised"
  /\ error' = e
  /\ UNCHANGED <<interrupt, requests, cancelling, kind, procVars, handshake, stopVars>>

-----------------------------------------------------------------------------
(* The try block.                                                          *)

Started ==
  /\ pc = "started"
  /\ owned' = TRUE
  /\ Goes("settling")
  /\ UNCHANGED <<keyTimer, speed, literal, stage, result, dropped, entry, observerVars, helperVars>>

\* Faulty: a thread is asked for literal addresses too.
SettledSlow ==
  /\ Resumes("settling")
  /\ Goes(IF leader = "exited" THEN "autopsy" ELSE "observing")
  /\ UNCHANGED <<entry, verdictVars, observerVars, helperVars>>

\* The settle delay is over.  A process that has exited: its stderr is read.
\* Otherwise verify_key looks up the entry IP, at once if the address is a
\* literal, else in a thread.
Settled ==
  /\ Resumes("settling")
  /\ IF leader = "exited" THEN Goes("autopsy") /\ UNCHANGED entry
     ELSE IF speed THEN Goes("probing") /\ UNCHANGED entry
     ELSE IF literal THEN Goes("probing") /\ entry' = "found"
     ELSE Goes("observing") /\ UNCHANGED entry
  /\ UNCHANGED <<verdictVars, observerVars, helperVars>>

ExitedEarly ==
  /\ Resumes("autopsy")
  /\ StderrEnded
  /\ Raises("TunnelError")
  /\ UNCHANGED verifyVars

\* The thread is done.  The main task assigns what it found, None as well.
Observed ==
  /\ Resumes("observing")
  /\ entry' \in {"unknown", "found"}
  /\ observer' = IF entry' = "unknown" THEN "ready" ELSE "none"
  /\ Goes("probing")
  /\ UNCHANGED <<verdictVars, observerCancelled, helperVars>>

\* A request succeeds; after the last one, verify_key looks up the entry IP
\* again if it is not known.
RequestSucceeds ==
  /\ Resumes("probing")
  /\ stage' = stage + 1
  /\ Goes(IF stage' < Requests THEN "probing"
          ELSE IF entry = "unknown" /\ ~speed THEN "confirming" ELSE "verified")
  /\ UNCHANGED <<keyTimer, speed, owned, literal, result, dropped, entry, observerVars, helperVars>>

\* The connectivity check fails at its own deadline, with VerificationFailure;
\* every other request at once, with the service's status or the connection's.  Its
\* aiohttp timeout is the key's, and begins later: it cannot be the first to go off.
RequestFails ==
  /\ Resumes("probing")
  /\ ~(speed /\ stage > 0)
  /\ \E e \in {"VerificationFailure", "ServiceUnavailable"} :
       /\ stage = 0 => e = "VerificationFailure"
       /\ Raises(e)
  /\ UNCHANGED verifyVars

\* The download ends with the service's status, a broken connection, or nothing.
DownloadFails ==
  /\ Resumes("probing")
  /\ speed /\ stage > 0
  /\ \E e \in {"VerificationFailure", "ServiceUnavailable"} : Raises(e)
  /\ UNCHANGED verifyVars

Confirmed ==
  /\ Resumes("confirming")
  /\ entry' \in {"unknown", "found"}
  /\ Goes("verified")
  /\ UNCHANGED <<verdictVars, observerVars, helperVars>>

\* The timeout is left in time, and SUCCESS, or the speed, is on its way out.
Succeed ==
  /\ pc = "verified"
  /\ keyTimer' = "off"
  /\ result' = "success"
  /\ Goes("cleaning")
  /\ UNCHANGED <<speed, owned, literal, stage, dropped, entry, observerVars, helperVars>>

\* Faulty: NetworkProbe takes a CancelledError for a failed request, and tries
\* again.
BodyInsists ==
  /\ pc \in {"settling", "autopsy", "observing", "probing", "confirming"}
  /\ interrupt
  /\ interrupt' = FALSE
  /\ IF pc = "probing" THEN UNCHANGED <<pc, error>>
     ELSE pc' = "raised" /\ error' = "CancelledError"
  /\ UNCHANGED <<requests, cancelling, kind, procVars, handshake, stopVars, verifyVars>>

BodyInterrupted ==
  /\ pc \in {"settling", "autopsy", "observing", "probing", "confirming"}
  /\ interrupt
  /\ interrupt' = FALSE
  /\ pc' = "raised"
  /\ error' = "CancelledError"
  /\ UNCHANGED <<requests, cancelling, kind, procVars, handshake, stopVars, verifyVars>>

-----------------------------------------------------------------------------
(* The handlers.                                                           *)

\* What the except clauses make of an exception; the last two are in none.
Verdict(e) ==
  CASE e = "ServiceUnavailable" -> "inconclusive"
    [] e \in {"TimeoutError", "VerificationFailure", "TunnelError", "OSError"} -> "failed"
    [] e \in {"CancelledError", "ValueError"} -> "raised"

\* How a handler goes on with the exception e.
Handled(e) ==
  /\ error' = e
  /\ result' = Verdict(e)
  /\ LET looks == Verdict(e) # "raised" /\ owned /\ entry = "unknown"
     IN /\ pc' = IF looks /\ ~literal THEN "reobserving" ELSE "cleaning"
        /\ entry' = IF looks /\ literal THEN "found" ELSE entry
  /\ UNCHANGED <<interrupt, requests, kind, procVars, handshake, stopVars>>
  /\ UNCHANGED <<speed, owned, literal, stage, dropped, observerVars, helperVars>>

\* measure_speed: every exception it names is an unknown speed; the ValueError
\* of start_tunnel is not among them.
Unmeasured(e) ==
  /\ error' = e
  /\ result' = IF e \in {"CancelledError", "ValueError"} THEN "raised" ELSE "unknown"
  /\ pc' = "cleaning"
  /\ UNCHANGED <<interrupt, requests, kind, procVars, handshake, stopVars>>
  /\ UNCHANGED <<speed, owned, literal, stage, dropped, entry, observerVars, helperVars>>

Concludes(e) == IF speed THEN Unmeasured(e) ELSE Handled(e)

\* Faulty: the handlers are inside of the timeout, and see its CancelledError.
HandleInside ==
  /\ pc = "raised"
  /\ keyTimer' = IF keyTimer = "fired" THEN "fired" ELSE "off"
  /\ UNCHANGED cancelling
  /\ Concludes(error)

\* Faulty: a timeout that went off always gives TimeoutError.
HandleTimeout ==
  /\ pc = "raised"
  /\ keyTimer' = IF keyTimer = "fired" THEN "fired" ELSE "off"
  /\ cancelling' = IF keyTimer = "fired" THEN cancelling - 1 ELSE cancelling
  /\ Concludes(IF keyTimer = "fired" /\ error = "CancelledError"
               THEN "TimeoutError" ELSE error)

\* The exception leaves the timeout, which takes its own cancel() back and
\* makes it a TimeoutError if nobody else cancelled the task.  A handler of
\* verify_key then looks for the entry IP once more, outside of any timeout.
Handle ==
  /\ pc = "raised"
  /\ keyTimer' = IF keyTimer = "fired" THEN "fired" ELSE "off"
  /\ cancelling' = IF keyTimer = "fired" THEN cancelling - 1 ELSE cancelling
  /\ Concludes(IF keyTimer = "fired" /\ error = "CancelledError" /\ cancelling' = 0
               THEN "TimeoutError" ELSE error)

Reobserved ==
  /\ Resumes("reobserving")
  /\ entry' \in {"unknown", "found"}
  /\ Goes("cleaning")
  /\ UNCHANGED <<verdictVars, observerVars, helperVars>>

HandlerInterrupted ==
  /\ pc = "reobserving"
  /\ interrupt
  /\ interrupt' = FALSE
  /\ pc' = "cleaning"
  /\ error' = "CancelledError"
  /\ result' = "raised"
  /\ UNCHANGED <<requests, cancelling, kind, procVars, handshake, stopVars>>
  /\ UNCHANGED <<keyTimer, speed, owned, literal, stage, dropped, entry, observerVars, helperVars>>

-----------------------------------------------------------------------------
(* The finally block.                                                      *)

\* _stop_tunnel: the helper is created, begins Tunnel.stop at once, and is
\* awaited; without a tunnel there is nothing left to do.
StopTunnel ==
  /\ pc' = IF owned THEN "stopping" ELSE "end"
  /\ helper' = IF owned THEN "running" ELSE "none"
  /\ stopTask' = IF owned THEN "running" ELSE stopTask
  /\ UNCHANGED <<error, requests, cancelling, kind, procVars, handshake, recorded>>
  /\ UNCHANGED <<verdictVars, entry, helperInterrupt>>

ObserverOver == observer \in {"none", "done"}

\* The observer is cancelled and awaited; a finished one needs no await.
CleanUp ==
  /\ pc = "cleaning"
  /\ UNCHANGED <<interrupt, observer>>
  /\ IF ObserverOver
     THEN StopTunnel /\ UNCHANGED observerCancelled
     ELSE /\ observerCancelled' = TRUE
          /\ Goes("joining")
          /\ UNCHANGED <<verdictVars, entry, helperVars>>

\* Faulty: the observer's CancelledError is not suppressed.
JoinedRaises ==
  /\ pc = "joining"
  /\ ObserverOver
  /\ interrupt' = FALSE
  /\ pc' = "end"
  /\ error' = "CancelledError"
  /\ result' = "raised"
  /\ UNCHANGED <<requests, cancelling, kind, procVars, handshake, stopVars, observerVars>>
  /\ UNCHANGED <<keyTimer, speed, owned, literal, stage, dropped, entry, helperVars>>

\* The observer has ended.  Whatever CancelledError arrives here, the
\* observer's or the main task's own, is suppressed.
Joined ==
  /\ pc = "joining"
  /\ ObserverOver
  /\ interrupt' = FALSE
  /\ StopTunnel
  /\ UNCHANGED observerVars

Stopped ==
  /\ Resumes("stopping")
  /\ helper = "done"
  /\ Goes("end")
  /\ UNCHANGED verifyVars

\* Faulty: awaits the helper, and does not raise again.
StopAbsorbs ==
  /\ pc = "stopping"
  /\ interrupt
  /\ interrupt' = FALSE
  /\ pc' = IF helper = "done" THEN "end" ELSE "insisting"
  /\ UNCHANGED <<error, requests, cancelling, kind, procVars, handshake, stopVars, verifyVars>>

\* Cancelled in the shielded await: the helper is awaited directly.
StopInterrupted ==
  /\ pc = "stopping"
  /\ interrupt
  /\ interrupt' = FALSE
  /\ pc' = IF helper = "done" THEN "end" ELSE "insisting"
  /\ error' = "CancelledError"
  /\ result' = "raised"
  /\ UNCHANGED <<requests, cancelling, kind, procVars, handshake, stopVars>>
  /\ UNCHANGED <<keyTimer, speed, owned, literal, stage, dropped, entry, observerVars, helperVars>>

Insisted ==
  /\ pc = "insisting"
  /\ helper = "done"
  /\ interrupt' = FALSE
  /\ pc' = "end"
  /\ UNCHANGED <<error, requests, cancelling, kind, procVars, handshake, stopVars, verifyVars>>

-----------------------------------------------------------------------------
(* The helper, in the shield loop of Tunnel.stop.                          *)

HelperUnchanged ==
  UNCHANGED <<taskVars, kind, procVars, handshake, stopTask, verdictVars, entry, observerVars>>

\* Faulty: leaves the loop with the first cancellation.
HelperLeaves ==
  /\ helper = "running"
  /\ helperInterrupt
  /\ helperInterrupt' = FALSE
  /\ recorded' = TRUE
  /\ helper' = "done"
  /\ HelperUnchanged

HelperInterrupted ==
  /\ helper = "running"
  /\ helperInterrupt
  /\ helperInterrupt' = FALSE
  /\ recorded' = TRUE
  /\ helper' = IF stopTask = "done" THEN "done" ELSE "running"
  /\ HelperUnchanged

HelperReturns ==
  /\ helper = "running"
  /\ ~helperInterrupt
  /\ stopTask = "done"
  /\ helper' = "done"
  /\ UNCHANGED <<recorded, helperInterrupt>>
  /\ HelperUnchanged

-----------------------------------------------------------------------------
(* The observer, observe_entry_until_found.                                *)

ObserverUnchanged ==
  UNCHANGED <<tunnelVars, verdictVars, observerCancelled, helperVars>>

\* The turn of the loop: done if the IP is known by now, else a thread looks.
ObserverLooks ==
  /\ observer \in {"ready", "sleeping"}
  /\ ~observerCancelled
  /\ observer' = IF entry = "found" THEN "done" ELSE "threading"
  /\ UNCHANGED entry
  /\ ObserverUnchanged

\* The thread is done, and the observer assigns what it found.
ObserverSees ==
  /\ observer = "threading"
  /\ ~observerCancelled
  /\ entry' \in {"unknown", "found"}
  /\ observer' = IF entry' = "found" THEN "done" ELSE "sleeping"
  /\ ObserverUnchanged

\* Faulty: observe_entry_ip suppresses CancelledError as well.
ObserverGoesOn ==
  /\ observer \in {"ready", "threading", "sleeping"}
  /\ observerCancelled
  /\ observer' = "sleeping"
  /\ observerCancelled' = FALSE
  /\ UNCHANGED <<tunnelVars, verdictVars, entry, helperVars>>

ObserverEnds ==
  /\ observer \in {"ready", "threading", "sleeping"}
  /\ observerCancelled
  /\ observer' = "done"
  /\ UNCHANGED entry
  /\ ObserverUnchanged

-----------------------------------------------------------------------------
(* Cancellation.                                                           *)

Suspended == pc \notin {"begin", "started", "raised", "verified", "cleaning", "end"}

\* Somebody cancels the main task.  If it awaits another task that is not
\* done, cancel() cancels that one instead of interrupting the main task.
Cancel ==
  /\ Suspended
  /\ requests < MaxCancels
  /\ requests' = requests + 1
  /\ cancelling' = cancelling + 1
  /\ LET joins == pc = "joining" /\ ~ObserverOver
         insists == pc = "insisting" /\ helper = "running"
     IN /\ interrupt' = (interrupt \/ ~(joins \/ insists))
        /\ helperInterrupt' = (helperInterrupt \/ insists)
  /\ dropped' = IF pc = "joining" THEN dropped + 1 ELSE dropped
  /\ UNCHANGED <<pc, error, kind, procVars, handshake, stopVars>>
  /\ UNCHANGED <<keyTimer, speed, owned, literal, stage, result, entry, observerVars, helper>>

KeyTimerExpires ==
  /\ Suspended
  /\ keyTimer = "armed"
  /\ keyTimer' = "fired"
  /\ Interrupt
  /\ UNCHANGED <<pc, error, requests, kind, procVars, handshake, stopVars>>
  /\ UNCHANGED <<speed, owned, literal, stage, result, dropped, entry, observerVars, helperVars>>

-----------------------------------------------------------------------------
Try ==
  \/ Started \/ Settled \/ ExitedEarly \/ Observed \/ RequestSucceeds \/ RequestFails
  \/ DownloadFails \/ Confirmed \/ Succeed \/ BodyInterrupted

Except == Handle \/ Reobserved \/ HandlerInterrupted

FinallyBlock == CleanUp \/ Joined \/ Stopped \/ StopInterrupted \/ Insisted

Helper == HelperInterrupted \/ HelperReturns

Observer == ObserverLooks \/ ObserverSees \/ ObserverEnds

\* What VerifyKey takes from Tunnel as it is.
TunnelStep == StartTask \/ StopEnds \/ LeaderExits \/ HandshakeExpires

Next ==
  \/ TunnelStep /\ UNCHANGED verifyVars
  \/ Try \/ Except \/ FinallyBlock \/ Helper \/ Observer
  \/ Cancel \/ KeyTimerExpires

Interrupted == SpawnInterrupted \/ StartInterrupted \/ AbortInterrupted \/ Aborted

\* The event loop runs ready tasks and timers, threads that walk the process
\* tree end, and stop_process_group ends.  No service answers for certain, and
\* no client closes its pipes.
Fairness ==
  /\ WF_vars(Interrupted /\ UNCHANGED verifyVars)
  /\ WF_vars((StartFails \/ Spawn) /\ UNCHANGED verifyVars)
  /\ WF_vars(StopEnds /\ UNCHANGED verifyVars)
  /\ WF_vars(Started \/ Settled \/ Succeed \/ BodyInterrupted)
  /\ WF_vars(Observed \/ Confirmed)
  /\ WF_vars(Except)
  /\ WF_vars(FinallyBlock)
  /\ WF_vars(Helper)
  /\ WF_vars(Observer)
  /\ WF_vars(KeyTimerExpires)

Spec == Init /\ [][Next]_vars /\ Fairness

-----------------------------------------------------------------------------
(* Properties.                                                             *)

\* "always tear down its tunnel" (verification.py:209, 289): when the call ends, with
\* whichever outcome and however often it was cancelled and timed out, no
\* process of the client runs, the tunnel handed out was stopped as a whole and
\* its file removed, and no task of the call is left.
TornDown ==
  pc = "end" =>
    /\ Nothing
    /\ owned => stopTask = "done" /\ ~config
    /\ ObserverOver
    /\ helper # "running"

\* A key that used up key_check_timeout is never reported as working, nor the
\* speed it had, even if the last answer and the timer race
\* (verification.py:229-250, 298-317).
NoLateSuccess ==
  pc = "end" /\ keyTimer = "fired" => result \in {"failed", "unknown", "raised"}

\* Either call ends with CancelledError exactly when somebody cancelled it, but
\* for the cancellations that arrive while the observer is joined
\* (verification.py:275-277): neither the timers nor the handlers nor the teardown
\* absorb one, and what the two nested timers do to the task stays inside.  All
\* that verify_key raises besides is the ValueError of xray-knife's overlong line,
\* before it has a tunnel (xray.py:300); measure_speed is to raise nothing besides,
\* of which SpeedIsOptional speaks.
RaisesExactly ==
  pc = "end" =>
    /\ result = "raised" /\ error = "CancelledError" <=> requests > dropped
    /\ ~speed /\ result = "raised" /\ error # "CancelledError" =>
         error = "ValueError" /\ kind = "xray" /\ ~owned

\* "any failure yields an unknown speed (`None`) instead of an exception"
\* (README.md:61-63, verification.py:290-291): nothing but a cancellation makes
\* measure_speed raise.
SpeedIsOptional ==
  pc = "end" /\ speed /\ result = "raised" => error = "CancelledError"

\* A key is reported as timed out only if a timer went off and nobody cancelled
\* the call before (verification.py:256-260, 302-303).
TimeoutHasCause ==
  pc = "end" /\ result \in {"failed", "unknown"} /\ error = "TimeoutError" =>
    "fired" \in {keyTimer, handshake} /\ requests = dropped

\* Either call ends, whatever the client and the services do.
VerifyEnds == <>(pc = "end")

\* Tunnel.stop as the helper of _stop_tunnel calls it implements the promise of
\* Teardown: it outlasts the cancellations it is passed, and reports them.
StopPromise ==
  INSTANCE Teardown WITH
    held <- stopTask # "done",
    caller <- IF helper = "done" THEN (IF recorded THEN "cancelled" ELSE "returned")
              ELSE "waiting",
    asked <- helperInterrupt \/ recorded

StopPromiseKept == StopPromise!Safety

\* When the observer has ended by itself, having found the entry IP while the
\* probe ran, the verdict reports one
\* (test_verify_key_observes_entry_while_probe_runs).
FoundIsReported ==
  pc = "cleaning" /\ result = "success" /\ observer = "done" => entry = "found"
=============================================================================
