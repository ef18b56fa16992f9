------------------------------- MODULE VpnPing -------------------------------
(***************************************************************************)
(* vpn_ping_cli.py: run_vpn_ping, the command "vpnprobe ping" for a VPN.   *)
(* One task: it prints the decoded configuration (print_details, with a    *)
(* short-lived xray-knife of its own), starts a tunnel (module Tunnel),    *)
(* asks the connectivity endpoint until it answers or the deadline passes, *)
(* perhaps measures a download, and calls Tunnel.stop.                     *)
(*                                                                         *)
(* At most one asyncio.timeout outside of start_tunnel is open at a time;  *)
(* "timer" is that one.  stop_process_group is taken from ProcessGroup, as *)
(* in Tunnel.  "checking" and "cleaning" are no awaits.                    *)
(***************************************************************************)
EXTENDS Tunnel

VARIABLES
  details,     \* where print_details is: an await, or "done"
  parser,      \* its process: "none", "up", "down" (stopped as a whole)
  speedtest,   \* the argument of that name
  timer,       \* the timeout that is open: "off", "armed", "fired"
  late,        \* has "deadline" passed?
  owned,       \* the local "tunnel" is not None
  code         \* the exit code, "none" yet, or "raised" for an exception

pingVars == <<details, parser, speedtest, timer, late, owned, code>>
vars == <<tunnelVars, pingVars>>

Locations ==
  StartLocations \union
  {"checking", "autopsy", "requesting", "pausing", "downloading", "cleaning", "stopping", "end"}

TypeOK ==
  /\ TunnelTypeOK
  /\ pc \in Locations
  /\ error \in Errors
  /\ details \in {"spawning", "reading", "stopping", "done"}
  /\ parser \in {"none", "up", "down"}
  /\ speedtest \in BOOLEAN
  /\ timer \in {"off", "armed", "fired"}
  /\ late \in BOOLEAN
  /\ owned \in BOOLEAN
  /\ code \in {"none", "0", "1", "raised"}
  /\ details # "done" => ~owned /\ group = "none"
  /\ pc = "end" => code # "none" /\ timer # "armed"

Init ==
  /\ StartInit
  /\ details = "spawning"
  /\ parser = "none"
  /\ speedtest \in BOOLEAN
  /\ timer = "armed"
  /\ late = FALSE
  /\ owned = FALSE
  /\ code = "none"

\* A step of the task that changes pc and nothing else of module Tunnel.
Goes(l) ==
  /\ pc' = l
  /\ UNCHANGED <<error, interrupt, requests, cancelling, kind, procVars, handshake, stopVars>>

\* What the open timeout makes of CancelledError as it leaves it: cancel() calls
\* of its own are taken back, and it is a TimeoutError if there were no others.
OthersCancelled == IF timer = "fired" THEN cancelling - 1 ELSE cancelling
Own == timer = "fired" /\ OthersCancelled = 0

\* CancelledError thrown at an await, as seen outside of the open timeout.
Interrupted(l) ==
  /\ pc = l
  /\ interrupt
  /\ interrupt' = FALSE
  /\ cancelling' = OthersCancelled
  /\ timer' = "off"
  /\ UNCHANGED <<requests, kind, procVars, handshake, stopVars>>

-----------------------------------------------------------------------------
(* print_details, while pc is still "begin".                               *)

AtDetails(l) == pc = "begin" /\ details = l

\* The end of print_details; what it printed, or that it failed, is forgotten.
\* The next timeout is the one around start_tunnel.
DetailsEnd ==
  /\ details' = "done"
  /\ timer' = "armed"

\* xray-knife cannot be started.
DetailsFail ==
  /\ AtDetails("spawning")
  /\ ~interrupt
  /\ DetailsEnd
  /\ UNCHANGED <<tunnelVars, parser, speedtest, late, owned, code>>

\* Until its pipes are connected the process is asyncio's, which kills it when
\* create_subprocess_exec is cancelled.
DetailsSpawned ==
  /\ AtDetails("spawning")
  /\ ~interrupt
  /\ parser' = "up"
  /\ details' = "reading"
  /\ UNCHANGED <<tunnelVars, speedtest, timer, late, owned, code>>

\* xray-knife closed its output and exited.
DetailsRead ==
  /\ AtDetails("reading")
  /\ ~interrupt
  /\ details' = "stopping"
  /\ UNCHANGED <<tunnelVars, parser, speedtest, timer, late, owned, code>>

\* stop_process_group has returned in the finally block.
DetailsStopped ==
  /\ AtDetails("stopping")
  /\ ~interrupt
  /\ error = "none"
  /\ parser' = "down"
  /\ DetailsEnd
  /\ UNCHANGED <<tunnelVars, speedtest, late, owned, code>>

\* CancelledError in communicate: the group is stopped first.
DetailsInterrupted ==
  /\ AtDetails("reading")
  /\ interrupt
  /\ interrupt' = FALSE
  /\ error' = "CancelledError"
  /\ details' = "stopping"
  /\ UNCHANGED <<pc, requests, cancelling, kind, procVars, handshake, stopVars>>
  /\ UNCHANGED <<parser, speedtest, timer, late, owned, code>>

\* CancelledError leaves the timeout of print_details.  stop_process_group
\* notes one that arrives while it waits, and raises it in the end.
DetailsLeave ==
  /\ \/ AtDetails("spawning") /\ interrupt
     \/ AtDetails("stopping") /\ (interrupt \/ error = "CancelledError")
  /\ parser' = IF details = "stopping" THEN "down" ELSE parser
  /\ interrupt' = FALSE
  /\ cancelling' = OthersCancelled
  /\ details' = "done"
  /\ IF Own
     THEN timer' = "armed" /\ error' = "none" /\ UNCHANGED <<pc, code>>
     ELSE timer' = "off" /\ error' = "CancelledError" /\ pc' = "end" /\ code' = "raised"
  /\ UNCHANGED <<requests, kind, procVars, handshake, stopVars, speedtest, late, owned>>

Details ==
  \/ DetailsFail \/ DetailsSpawned \/ DetailsRead \/ DetailsStopped
  \/ DetailsInterrupted \/ DetailsLeave

-----------------------------------------------------------------------------
(* The try block.                                                          *)

\* The exception e is on its way out of the try block: PROBE_ERRORS are printed
\* and give code 1.
Fails(e) ==
  /\ pc' = "cleaning"
  /\ error' = e
  /\ code' = IF e \in {"CancelledError", "ValueError"} THEN "raised" ELSE "1"

\* A failure that is not CancelledError: the open timeout is left.
FailsWith(e) ==
  /\ Fails(e)
  /\ timer' = "off"
  /\ UNCHANGED <<interrupt, requests, cancelling, kind, procVars, handshake, stopVars>>
  /\ UNCHANGED <<details, parser, speedtest, late, owned>>

Started ==
  /\ pc = "started"
  /\ owned' = TRUE
  /\ timer' = "off"
  /\ Goes("checking")
  /\ UNCHANGED <<details, parser, speedtest, late, code>>

\* Faulty: a timer that only cancels the task, and converts nothing.
StartRaisedAsIs ==
  /\ pc = "raised"
  /\ cancelling' = OthersCancelled
  /\ timer' = "off"
  /\ Fails(IF error = "TimeoutError" THEN "TunnelError" ELSE error)
  /\ UNCHANGED <<interrupt, requests, kind, procVars, handshake, stopVars>>
  /\ UNCHANGED <<details, parser, speedtest, late, owned>>

\* start_tunnel raised.  TimeoutError, of this timeout or of the one inside,
\* becomes TunnelError.
StartRaised ==
  /\ pc = "raised"
  /\ cancelling' = OthersCancelled
  /\ timer' = "off"
  /\ Fails(IF error = "TimeoutError" \/ (error = "CancelledError" /\ Own)
           THEN "TunnelError" ELSE error)
  /\ UNCHANGED <<interrupt, requests, kind, procVars, handshake, stopVars>>
  /\ UNCHANGED <<details, parser, speedtest, late, owned>>

\* The turn of the loop of _wait_for_connectivity.
TooLate ==
  /\ pc = "checking"
  /\ late
  /\ FailsWith("TunnelError")

SeesExit ==
  /\ pc = "checking"
  /\ ~late
  /\ leader = "exited"
  /\ Goes("autopsy")
  /\ UNCHANGED pingVars

\* Its stderr is read up to the end of file, with no timeout open.
ExitedEarly ==
  /\ Resumes("autopsy")
  /\ StderrEnded
  /\ FailsWith("TunnelError")

\* Faulty: without asyncio.timeout(remaining).
AsksUnbounded ==
  /\ pc = "checking"
  /\ ~late
  /\ leader # "exited"
  /\ Goes("requesting")
  /\ UNCHANGED pingVars

Asks ==
  /\ pc = "checking"
  /\ ~late
  /\ leader # "exited"
  /\ timer' = "armed"
  /\ Goes("requesting")
  /\ UNCHANGED <<details, parser, speedtest, late, owned, code>>

\* HTTP 204: done, or the download is next, under a timeout of its own.
Answered ==
  /\ Resumes("requesting")
  /\ timer' = IF speedtest THEN "armed" ELSE "off"
  /\ code' = IF speedtest THEN code ELSE "0"
  /\ Goes(IF speedtest THEN "downloading" ELSE "cleaning")
  /\ UNCHANGED <<details, parser, speedtest, late, owned>>

\* Another status or an error.  Out of time, or a pause before the next turn.
Retries ==
  IF late THEN Fails("TunnelError")
  ELSE pc' = "pausing" /\ UNCHANGED <<error, code>>

RequestFails ==
  /\ Resumes("requesting")
  /\ timer' = "off"
  /\ Retries
  /\ UNCHANGED <<interrupt, requests, cancelling, kind, procVars, handshake, stopVars>>
  /\ UNCHANGED <<details, parser, speedtest, late, owned>>

\* Faulty: CancelledError counts as a failed request.
RequestAbsorbs ==
  /\ Interrupted("requesting")
  /\ Retries
  /\ UNCHANGED <<details, parser, speedtest, late, owned>>

RequestInterrupted ==
  /\ Interrupted("requesting")
  /\ IF Own THEN Retries ELSE Fails("CancelledError")
  /\ UNCHANGED <<details, parser, speedtest, late, owned>>

Paused ==
  /\ Resumes("pausing")
  /\ Goes("checking")
  /\ UNCHANGED pingVars

\* No timeout is open in these two.
WaitInterrupted ==
  /\ Interrupted("pausing") \/ Interrupted("autopsy")
  /\ Fails("CancelledError")
  /\ UNCHANGED <<details, parser, speedtest, late, owned>>

Downloaded ==
  /\ Resumes("downloading")
  /\ timer' = "off"
  /\ code' = "0"
  /\ Goes("cleaning")
  /\ UNCHANGED <<details, parser, speedtest, late, owned>>

\* Another status, an empty response, a broken connection.
DownloadFails ==
  /\ Resumes("downloading")
  /\ FailsWith("TunnelError")

DownloadInterrupted ==
  /\ Interrupted("downloading")
  /\ Fails(IF Own THEN "TimeoutError" ELSE "CancelledError")
  /\ UNCHANGED <<details, parser, speedtest, late, owned>>

Try ==
  \/ Started \/ StartRaised \/ TooLate \/ SeesExit \/ ExitedEarly \/ Asks \/ Answered
  \/ RequestFails \/ RequestInterrupted \/ Paused \/ WaitInterrupted
  \/ Downloaded \/ DownloadFails \/ DownloadInterrupted

-----------------------------------------------------------------------------
(* The finally block: Tunnel.stop in the task itself.                      *)

\* Faulty: the tunnel is stopped only after an error.
CleanUpErrors ==
  /\ pc = "cleaning"
  /\ LET stops == owned /\ error # "none"
     IN /\ pc' = IF stops THEN "stopping" ELSE "end"
        /\ stopTask' = IF stops THEN "running" ELSE stopTask
  /\ UNCHANGED <<error, interrupt, requests, cancelling, kind, procVars, handshake, recorded>>
  /\ UNCHANGED pingVars

CleanUp ==
  /\ pc = "cleaning"
  /\ pc' = IF owned THEN "stopping" ELSE "end"
  /\ stopTask' = IF owned THEN "running" ELSE stopTask
  /\ UNCHANGED <<error, interrupt, requests, cancelling, kind, procVars, handshake, recorded>>
  /\ UNCHANGED pingVars

\* Tunnel.stop raises the CancelledError it has recorded.
Leaves(cancelled) ==
  /\ pc' = "end"
  /\ error' = IF cancelled THEN "CancelledError" ELSE error
  /\ code' = IF cancelled THEN "raised" ELSE code

\* Faulty: the first cancellation ends the loop.
StopGivesUp ==
  /\ pc = "stopping"
  /\ interrupt
  /\ interrupt' = FALSE
  /\ recorded' = TRUE
  /\ Leaves(TRUE)
  /\ UNCHANGED <<requests, cancelling, kind, procVars, handshake, stopTask>>
  /\ UNCHANGED <<details, parser, speedtest, timer, late, owned>>

StopInterrupted ==
  /\ pc = "stopping"
  /\ interrupt
  /\ interrupt' = FALSE
  /\ recorded' = TRUE
  /\ IF stopTask = "done" THEN Leaves(TRUE) ELSE UNCHANGED <<pc, error, code>>
  /\ UNCHANGED <<requests, cancelling, kind, procVars, handshake, stopTask>>
  /\ UNCHANGED <<details, parser, speedtest, timer, late, owned>>

Stopped ==
  /\ pc = "stopping"
  /\ ~interrupt
  /\ stopTask = "done"
  /\ Leaves(recorded)
  /\ UNCHANGED <<interrupt, requests, cancelling, kind, procVars, handshake, stopVars>>
  /\ UNCHANGED <<details, parser, speedtest, timer, late, owned>>

-----------------------------------------------------------------------------
(* Cancellation and time.                                                  *)

Suspended ==
  IF pc = "begin" THEN details # "done"
  ELSE pc \notin {"started", "raised", "checking", "cleaning", "end"}

Cancel ==
  /\ Suspended
  /\ requests < MaxCancels
  /\ requests' = requests + 1
  /\ Interrupt
  /\ UNCHANGED <<pc, error, kind, procVars, handshake, stopVars, pingVars>>

TimerExpires ==
  /\ Suspended
  /\ timer = "armed"
  /\ timer' = "fired"
  /\ Interrupt
  /\ UNCHANGED <<pc, error, requests, kind, procVars, handshake, stopVars>>
  /\ UNCHANGED <<details, parser, speedtest, late, owned, code>>

DeadlinePasses ==
  /\ details = "done"
  /\ ~late
  /\ late' = TRUE
  /\ UNCHANGED <<tunnelVars, details, parser, speedtest, timer, owned, code>>

-----------------------------------------------------------------------------
InTunnel == StartTask \/ StopEnds \/ LeaderExits \/ HandshakeExpires

Next ==
  \/ Details
  \/ details = "done" /\ InTunnel /\ UNCHANGED pingVars
  \/ Try \/ CleanUp \/ StopInterrupted \/ Stopped
  \/ Cancel \/ TimerExpires \/ DeadlinePasses

\* Ready tasks and timers run, and stop_process_group ends.  Nothing makes the
\* client, xray-knife's parser or the endpoint answer or close a pipe.
Fairness ==
  /\ WF_vars(DetailsFail \/ DetailsSpawned \/ DetailsStopped)
  /\ WF_vars(DetailsInterrupted \/ DetailsLeave)
  /\ WF_vars(details = "done" /\ (StartFails \/ Spawn \/ SpawnInterrupted \/ Spawned)
             /\ UNCHANGED pingVars)
  /\ WF_vars((Fed \/ BrokenPipe \/ NotReady \/ (leader = "exited" /\ Complained))
             /\ UNCHANGED pingVars)
  /\ WF_vars((StartInterrupted \/ AbortInterrupted \/ Aborted) /\ UNCHANGED pingVars)
  /\ WF_vars(StopEnds /\ UNCHANGED pingVars)
  /\ WF_vars(HandshakeExpires /\ UNCHANGED pingVars)
  /\ WF_vars(Started \/ StartRaised \/ TooLate \/ SeesExit \/ ExitedEarly \/ Asks \/ Paused)
  /\ WF_vars(RequestInterrupted \/ WaitInterrupted \/ DownloadInterrupted)
  /\ WF_vars(CleanUp \/ StopInterrupted \/ Stopped)
  /\ WF_vars(TimerExpires)
  /\ WF_vars(DeadlinePasses)

Spec == Init /\ [][Next]_vars /\ Fairness

-----------------------------------------------------------------------------
(* Properties; those of the whole command are in module Ping.              *)

\* Tunnel.stop in the task itself, whether start_tunnel calls it or the finally
\* block, implements the promise of Teardown.
StopPromise ==
  INSTANCE Teardown WITH
    held <- stopTask # "done",
    caller <- IF stopTask = "none" \/ pc \in {"aborting", "stopping"} THEN "waiting"
              ELSE IF recorded THEN "cancelled" ELSE "returned",
    asked <- recorded \/ (pc \in {"aborting", "stopping"} /\ interrupt)

\* "Request the connectivity endpoint until it answers 204 or the deadline
\* passes" (vpn_ping_cli.py:71): the wait is over some time after the deadline.
DeadlineEndsWait ==
  (pc \in {"autopsy", "requesting", "pausing"} /\ late)
    ~> (pc \notin {"autopsy", "requesting", "pausing"})
=============================================================================
