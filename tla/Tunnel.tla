------------------------------- MODULE Tunnel -------------------------------
(***************************************************************************)
(* xray.py: start_tunnel, with _start_hysteria_tunnel and _wait_for_socks, *)
(* and Tunnel.stop.  The caller of start_tunnel is one asyncio task; "pc"  *)
(* says at which await it is suspended.  Modules of what is done with the  *)
(* tunnel (VerifyKey) extend this one and go on with the same pc.          *)
(*                                                                         *)
(* A task that is suspended can be cancelled, by somebody else or by an    *)
(* asyncio.timeout of its own; it then gets CancelledError at its next     *)
(* step, even if what it awaited is ready.  "begin", "started" and "raised"  *)
(* are no awaits: nothing else of the event loop runs there.               *)
(*                                                                         *)
(* What stop_process_group does is taken from ProcessGroup, as far as its  *)
(* properties go: it ends, and then the process group has ended.           *)
(***************************************************************************)
EXTENDS Naturals

CONSTANTS
  Kinds,        \* kinds of configuration: "xray", "hysteria" or both
  MaxCancels    \* bound: how often the caller's task is cancelled by others

ASSUME KindsAssumption == Kinds \subseteq {"xray", "hysteria"}
ASSUME CancelsAssumption == MaxCancels \in Nat

VARIABLES
  pc,           \* where the caller's task is
  error,        \* the exception it is handling or has raised, or "none"
  interrupt,    \* a CancelledError will be thrown at its next step
  requests,     \* how often others cancelled the task
  cancelling,   \* Task.cancelling(): cancel() calls not taken back by uncancel()
  kind,         \* the kind of the configuration to start
  config,       \* is the temporary file with the Hysteria configuration there?
  leader,       \* the process started: "none", "running", "exited"
  group,        \* its process group: "none", "up", "down" (stopped as a whole)
  straggler,    \* does a descendant of an exited leader hold its stderr open?
  handshake,    \* asyncio.timeout around the credentials: "off", "armed", "fired"
  stopTask,     \* Tunnel._stop_task: "none", "running", "done"
  recorded      \* "cancellation" in Tunnel.stop is not None

taskVars == <<pc, error, interrupt, requests, cancelling>>
procVars == <<config, leader, group, straggler>>
stopVars == <<stopTask, recorded>>
tunnelVars == <<taskVars, kind, procVars, handshake, stopVars>>

\* The locations of start_tunnel.  "started" and "raised": it is over.
StartLocations ==
  {"begin", "spawning", "feeding", "credentials", "connecting", "complaining",
   "aborting", "started", "raised"}

Errors ==
  {"none", "TunnelError", "OSError", "ValueError", "TimeoutError", "CancelledError"}

TunnelTypeOK ==
  /\ interrupt \in BOOLEAN
  /\ requests \in 0 .. MaxCancels
  /\ cancelling \in Nat
  /\ kind \in Kinds
  /\ config \in BOOLEAN
  /\ leader \in {"none", "running", "exited"}
  /\ group \in {"none", "up", "down"}
  /\ straggler \in BOOLEAN
  /\ handshake \in {"off", "armed", "fired"}
  /\ stopTask \in {"none", "running", "done"}
  /\ recorded \in BOOLEAN
  /\ config => kind = "hysteria"
  /\ stopTask # "none" => group # "none"
  /\ group = "down" => leader = "exited"

StartTypeOK ==
  /\ TunnelTypeOK
  /\ pc \in StartLocations
  /\ error \in Errors

StartInit ==
  /\ pc = "begin"
  /\ error = "none"
  /\ interrupt = FALSE
  /\ requests = 0
  /\ cancelling = 0
  /\ kind \in Kinds
  /\ config = FALSE
  /\ leader = "none"
  /\ group = "none"
  /\ straggler = FALSE
  /\ handshake = "off"
  /\ stopTask = "none"
  /\ recorded = FALSE

\* The task resumes at location l with nothing but the result of its await.
Resumes(l) == pc = l /\ ~interrupt

-----------------------------------------------------------------------------
(* Spawning the client.                                                    *)

\* No free port, an unusable Hysteria URL (the file is unlinked again), or an
\* executable that cannot be started, which unlinks the file too: a TunnelError.
\* The OSError of a socket or a temporary file that cannot be made or written is
\* passed on as it is.
StartFails ==
  /\ pc = "begin"
  /\ pc' = "raised"
  /\ error' \in {"TunnelError", "OSError"}
  /\ UNCHANGED <<interrupt, requests, cancelling, kind, procVars, handshake, stopVars>>

\* The configuration file is written and the process forked; the task awaits
\* the connection of its pipes.
Spawn ==
  /\ pc = "begin"
  /\ pc' = "spawning"
  /\ config' = (kind = "hysteria")
  /\ leader' = "running"
  /\ group' = "up"
  /\ UNCHANGED <<error, interrupt, requests, cancelling, kind, straggler, handshake, stopVars>>

\* create_subprocess_exec is cancelled: asyncio kills the process, which is
\* taken to have forked nothing yet, and waits for it.  Only OSError removes
\* the file.
SpawnInterrupted ==
  /\ pc = "spawning"
  /\ interrupt
  /\ interrupt' = FALSE
  /\ pc' = "raised"
  /\ error' = "CancelledError"
  /\ leader' = "exited"
  /\ group' = "down"
  /\ UNCHANGED <<requests, cancelling, kind, config, straggler, handshake, stopVars>>

Spawned ==
  /\ Resumes("spawning")
  /\ pc' = IF kind = "xray" THEN "feeding" ELSE "connecting"
  /\ UNCHANGED <<error, interrupt, requests, cancelling, kind, procVars, handshake, stopVars>>

-----------------------------------------------------------------------------
(* Waiting until the client accepts connections.                           *)

\* An exception leaves the try block with a process started: Tunnel.stop is
\* called, creates its task, and is awaited.
Abort(e) ==
  /\ pc' = "aborting"
  /\ error' = e
  /\ stopTask' = "running"
  /\ handshake' = IF handshake = "fired" THEN "fired" ELSE "off"
  /\ UNCHANGED <<requests, kind, procVars, recorded>>

\* Faulty: no timeout around the credentials.
FedUnbounded ==
  /\ Resumes("feeding")
  /\ pc' = "credentials"
  /\ UNCHANGED <<error, interrupt, requests, cancelling, kind, procVars, handshake, stopVars>>

\* The URL is written to stdin, and stdin is closed.
Fed ==
  /\ Resumes("feeding")
  /\ pc' = "credentials"
  /\ handshake' = "armed"
  /\ UNCHANGED <<error, interrupt, requests, cancelling, kind, procVars, stopVars>>

\* xray-knife closed stdin before it read the configuration.
BrokenPipe ==
  /\ Resumes("feeding")
  /\ Abort("TunnelError")
  /\ UNCHANGED <<interrupt, cancelling>>

\* Both credentials were read, or the SOCKS port accepted a connection.
Ready ==
  /\ Resumes("credentials") \/ Resumes("connecting")
  /\ pc' = "started"
  /\ handshake' = "off"
  /\ UNCHANGED <<error, interrupt, requests, cancelling, kind, procVars, stopVars>>

\* The SOCKS port accepted the connection and resets it: wait_closed raises outside
\* of the except clause.
ConnectionLost ==
  /\ Resumes("connecting")
  /\ Abort("OSError")
  /\ UNCHANGED <<interrupt, cancelling>>

\* End of file on stdout before both credentials, or a Hysteria process that
\* has exited: its stderr is read, up to the end of file.
Complain ==
  /\ \/ Resumes("credentials")
     \/ Resumes("connecting") /\ leader = "exited"
  /\ pc' = "complaining"
  /\ UNCHANGED <<error, interrupt, requests, cancelling, kind, procVars, handshake, stopVars>>

\* A client that runs on may have closed its stderr by itself.
StderrEnded == ~straggler

Complained ==
  /\ Resumes("complaining")
  /\ StderrEnded
  /\ Abort("TunnelError")
  /\ UNCHANGED <<interrupt, cancelling>>

\* The deadline of _wait_for_socks passed without a connection.
NotReady ==
  /\ Resumes("connecting")
  /\ Abort("TunnelError")
  /\ UNCHANGED <<interrupt, cancelling>>

\* readline() raises ValueError on a line longer than the stream's limit.
LineTooLong ==
  /\ Resumes("credentials")
  /\ Abort("ValueError")
  /\ UNCHANGED <<interrupt, cancelling>>

\* Faulty: "except Exception", which CancelledError passes by.
StartEscapes ==
  /\ pc \in {"feeding", "credentials", "connecting", "complaining"}
  /\ interrupt
  /\ interrupt' = FALSE
  /\ pc' = "raised"
  /\ error' = "CancelledError"
  /\ UNCHANGED <<requests, cancelling, kind, procVars, handshake, stopVars>>

\* Faulty: a timeout that went off always gives TimeoutError.
StartTimesOut ==
  /\ pc \in {"feeding", "credentials", "connecting", "complaining"}
  /\ interrupt
  /\ interrupt' = FALSE
  /\ Abort(IF handshake = "fired" THEN "TimeoutError" ELSE "CancelledError")
  /\ cancelling' = IF handshake = "fired" THEN cancelling - 1 ELSE cancelling

\* CancelledError at an await of the try block.  asyncio.timeout takes its own
\* cancel() back, and makes it a TimeoutError if nobody else cancelled too.
StartInterrupted ==
  /\ pc \in {"feeding", "credentials", "connecting", "complaining"}
  /\ interrupt
  /\ interrupt' = FALSE
  /\ LET others == IF handshake = "fired" THEN cancelling - 1 ELSE cancelling
     IN /\ Abort(IF others = 0 THEN "TimeoutError" ELSE "CancelledError")
        /\ cancelling' = others

-----------------------------------------------------------------------------
(* Tunnel.stop: the shield loop, in whichever task it runs, and _stop.     *)

\* stop_process_group has returned, and _stop unlinks the file.
StopEnds ==
  /\ stopTask = "running"
  /\ stopTask' = "done"
  /\ leader' = "exited"
  /\ group' = "down"
  /\ straggler' = FALSE
  /\ config' = FALSE
  /\ UNCHANGED <<taskVars, kind, handshake, recorded>>

\* The handler of start_tunnel leaves the loop, and raises.
LeaveAbort(cancelled) ==
  /\ pc' = "raised"
  /\ error' = IF cancelled THEN "CancelledError" ELSE error

\* Faulty: the loop does not record the cancellation.
AbortForgets ==
  /\ pc = "aborting"
  /\ interrupt
  /\ interrupt' = FALSE
  /\ IF stopTask = "done" THEN LeaveAbort(recorded) ELSE UNCHANGED <<pc, error>>
  /\ UNCHANGED <<requests, cancelling, kind, procVars, handshake, stopVars>>

AbortInterrupted ==
  /\ pc = "aborting"
  /\ interrupt
  /\ interrupt' = FALSE
  /\ recorded' = TRUE
  /\ IF stopTask = "done" THEN LeaveAbort(TRUE) ELSE UNCHANGED <<pc, error>>
  /\ UNCHANGED <<requests, cancelling, kind, procVars, handshake, stopTask>>

Aborted ==
  /\ Resumes("aborting")
  /\ stopTask = "done"
  /\ LeaveAbort(recorded)
  /\ UNCHANGED <<interrupt, requests, cancelling, kind, procVars, handshake, stopVars>>

-----------------------------------------------------------------------------
(* The environment.                                                        *)

\* The leader exits, of its own accord or because its server failed; it may
\* leave a descendant behind, once it runs long enough to have one.
LeaderExits ==
  /\ leader = "running"
  /\ leader' = "exited"
  /\ straggler' \in (IF pc = "spawning" THEN {FALSE} ELSE BOOLEAN)
  /\ UNCHANGED <<taskVars, kind, config, group, handshake, stopVars>>

\* What cancel() does to a suspended task that awaits no other task.
Interrupt == interrupt' = TRUE /\ cancelling' = cancelling + 1

InStart == pc \in StartLocations \ {"begin", "started", "raised"}

CancelStart ==
  /\ InStart
  /\ requests < MaxCancels
  /\ requests' = requests + 1
  /\ Interrupt
  /\ UNCHANGED <<pc, error, kind, procVars, handshake, stopVars>>

HandshakeExpires ==
  /\ handshake = "armed"
  /\ handshake' = "fired"
  /\ Interrupt
  /\ UNCHANGED <<pc, error, requests, kind, procVars, stopVars>>

-----------------------------------------------------------------------------
StartTask ==
  \/ StartFails \/ Spawn \/ SpawnInterrupted \/ Spawned
  \/ Fed \/ BrokenPipe \/ Ready \/ ConnectionLost \/ Complain \/ Complained
  \/ NotReady \/ LineTooLong
  \/ StartInterrupted \/ AbortInterrupted \/ Aborted

StartNext == StartTask \/ StopEnds \/ LeaderExits \/ CancelStart \/ HandshakeExpires

\* The event loop runs ready tasks and timers; pipes to a process are written
\* or break; the deadline of _wait_for_socks passes; stop_process_group ends.
\* Nothing makes a process print credentials, listen, or close its pipes.
StartFairness ==
  /\ WF_tunnelVars(StartFails \/ Spawn \/ SpawnInterrupted \/ Spawned)
  /\ WF_tunnelVars(Fed \/ BrokenPipe)
  /\ WF_tunnelVars(NotReady \/ (leader = "exited" /\ Complained))
  /\ WF_tunnelVars(StartInterrupted \/ AbortInterrupted \/ Aborted)
  /\ WF_tunnelVars(StopEnds)
  /\ WF_tunnelVars(HandshakeExpires)

StartSpec == StartInit /\ [][StartNext]_tunnelVars /\ StartFairness

-----------------------------------------------------------------------------
(* Properties.                                                             *)

\* Nothing of a client is left to run; and its configuration file is there
\* only if nobody was ever in a position to stop the tunnel.
Nothing == leader # "running" /\ group # "up" /\ (config => stopTask = "none")

\* start_tunnel that does not hand out a tunnel has stopped what it started,
\* however often its task is cancelled and whichever exception ends it
\* (xray.py:257-259, 310-315).
AbortLeavesNothing == pc = "raised" => Nothing

\* A cancellation by somebody else is never replaced by the error that
\* start_tunnel was raising, nor absorbed by its timeout (xray.py:297-315).
CancellationSurvives == pc = "raised" /\ requests > 0 => error = "CancelledError"

\* TimeoutError leaves start_tunnel only when its own timer went off and nobody
\* else cancels the task, be it while the process is stopped; and whenever that is
\* so, it is what leaves it (xray.py:297-315).
TimeoutIsOwn ==
  pc = "raised" =>
    (error = "TimeoutError" <=> handshake = "fired" /\ requests = 0)

\* Tunnel.stop, as the handler of start_tunnel calls it, implements the promise of
\* Teardown: it returns only when the tunnel is stopped, and raises CancelledError
\* exactly when the task was cancelled in it (xray.py:92-103, 308-315).
AbortPromise ==
  INSTANCE Teardown WITH
    held <- stopTask # "done",
    caller <- IF stopTask = "none" \/ pc = "aborting" THEN "waiting"
              ELSE IF recorded THEN "cancelled" ELSE "returned",
    asked <- recorded \/ (pc = "aborting" /\ interrupt)

AbortPromiseKept == AbortPromise!Safety

\* start_tunnel comes to an end with every configuration xray-knife reads: its
\* timer covers every wait for the process (xray.py:297-307).
StartEnds == kind = "xray" => <>(pc \in {"started", "raised"})

\* "Temporary tunnel and TDLib state is removed after each check" (README.md):
\* no configuration file outlives a start_tunnel that failed.
NoConfigLeft == pc = "raised" => ~config
=============================================================================
