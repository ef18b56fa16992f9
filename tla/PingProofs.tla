----------------------------- MODULE PingProofs -----------------------------
(***************************************************************************)
(* Proofs about Ping, for both kinds of client, every timeout and any      *)
(* number of cancellations: what is left when the command ends, how it     *)
(* ends, and that it stops its tunnel as Teardown promises.  The proxy's   *)
(* half rests on ProxyPingProofs.  That of the VPN goes on where the       *)
(* invariant of start_tunnel ends (TunnelProofs), with the timeouts of     *)
(* print_details, of start_tunnel's caller, of a request and of the        *)
(* download around it, one at a time.                                      *)
(***************************************************************************)
EXTENDS Ping, ProxyPingProofs

\* Awaits of start_tunnel, before it succeeds or begins to stop the process.
Tries == {"spawning", "feeding", "credentials", "connecting", "complaining"}

\* Awaits of the try block with a tunnel; and where its outcome is settled.
Body == {"autopsy", "requesting", "pausing", "downloading"}
Over == {"cleaning", "stopping", "end"}

\* print_details comes first, and its process is gone when it is over.
DetailsInv ==
  /\ details # "done" => pc = "begin"
  /\ parser = "up" <=> details \in {"reading", "stopping"}

\* The timer of start_tunnel is open only around the credentials, and has not
\* gone off when a tunnel is handed out.  One of the others is open until
\* start_tunnel has returned, and in a request.
TimerInv ==
  /\ handshake = "armed" => pc \in {"credentials", "complaining"}
  /\ handshake = "fired" =>
       ~owned /\ pc \in {"credentials", "complaining", "aborting", "raised"} \union Over
  /\ timer = "off" <=> pc \notin V!StartLocations \union {"requesting", "downloading"}

\* cancel() calls that nobody has taken back are those of others, and one of each
\* timer that has gone off until the CancelledError has passed it.
CountInv ==
  cancelling =
    requests + (IF handshake = "fired" /\ pc \in Tries THEN 1 ELSE 0)
             + (IF timer = "fired" THEN 1 ELSE 0)

\* Before the outcome is settled, whoever cancelled the task is still to be heard, is
\* the error on its way, or was recorded while a process was stopped.
PendingInv ==
  /\ pc \in Tries \union Body \/ details \in {"spawning", "reading"} =>
       (interrupt <=> cancelling > 0)
  /\ (pc = "begin" /\ details = "done") \/ pc \in {"started", "checking"} =>
       cancelling = 0 /\ ~interrupt
  /\ pc \in {"begin", "started", "checking"} \union Tries \union Body /\ details # "stopping" =>
       error = "none"
  /\ details = "stopping" =>
       /\ error \in {"none", "CancelledError"}
       /\ cancelling > 0 <=> error = "CancelledError" \/ interrupt
  /\ pc = "aborting" =>
       (cancelling > 0 <=> error = "CancelledError" \/ recorded \/ interrupt)
  /\ pc = "raised" =>
       /\ cancelling > 0 <=> error = "CancelledError"
       /\ ~interrupt
  /\ pc \in {"aborting", "raised"} => error # "none"

\* Who has the tunnel, and what has become of its process.
TunnelInv ==
  /\ pc \in V!StartLocations => ~owned
  /\ pc \in Body \union {"checking", "stopping"} => owned
  /\ pc = "begin" => leader = "none" /\ group = "none" /\ ~config
  /\ pc \in Tries \union {"started"} \/ owned => group # "none"
  /\ pc \in Tries \union Body \union {"begin", "started", "checking"} =>
       stopTask = "none" /\ ~recorded
  /\ pc = "cleaning" /\ owned => stopTask = "none" /\ ~recorded
  /\ pc \in {"aborting", "stopping"} => stopTask # "none"
  /\ pc = "end" /\ owned => stopTask = "done"
  /\ ~owned /\ pc \in {"raised", "cleaning", "end"} =>
       /\ stopTask # "running"
       /\ stopTask = "none" => leader # "running" /\ group # "up"
  /\ stopTask = "done" => leader = "exited" /\ group = "down" /\ ~config

\* The exit code is settled with the outcome, and goes with the error; a
\* cancellation is then the error, or on its way to be.
ResultInv ==
  /\ code = "none" <=> pc \notin Over
  /\ pc = "cleaning" => ~interrupt
  /\ pc \in {"cleaning", "end"} => (requests > 0 <=> error = "CancelledError")
  /\ pc = "stopping" =>
       (requests > 0 <=> error = "CancelledError" \/ recorded \/ interrupt)
  /\ pc \in Over => (code = "raised" <=> error \in {"CancelledError", "ValueError"})

VpnInv ==
  /\ DetailsInv
  /\ TimerInv
  /\ CountInv
  /\ PendingInv
  /\ TunnelInv
  /\ ResultInv

VpnIInv == V!TypeOK /\ VpnInv

\* The type invariant of VpnPing in two halves: the Booleans, and all the rest.
VpnFlags ==
  /\ interrupt \in BOOLEAN
  /\ config \in BOOLEAN
  /\ straggler \in BOOLEAN
  /\ recorded \in BOOLEAN
  /\ speedtest \in BOOLEAN
  /\ late \in BOOLEAN
  /\ owned \in BOOLEAN

VpnValues ==
  /\ pc \in V!Locations
  /\ error \in V!Errors
  /\ requests \in 0 .. MaxCancels
  /\ cancelling \in Nat
  /\ kind \in Kinds
  /\ leader \in {"none", "running", "exited"}
  /\ group \in {"none", "up", "down"}
  /\ handshake \in {"off", "armed", "fired"}
  /\ stopTask \in {"none", "running", "done"}
  /\ config => kind = "hysteria"
  /\ stopTask # "none" => group # "none"
  /\ group = "down" => leader = "exited"
  /\ details \in {"spawning", "reading", "stopping", "done"}
  /\ parser \in {"none", "up", "down"}
  /\ timer \in {"off", "armed", "fired"}
  /\ code \in {"none", "0", "1", "raised"}
  /\ details # "done" => ~owned /\ group = "none"
  /\ pc = "end" => code # "none" /\ timer # "armed"

\* The whole command: one of the two, or a refusal.
IInv ==
  /\ route \in {"vpn", "proxy", "refused"}
  /\ route = "vpn" => VpnIInv /\ Helperless
  /\ route = "proxy" => ProxyTypeOK /\ ClockInv /\ LimitInv /\ OutcomeInv /\ Tunnelless
  /\ route = "refused" =>
       /\ pc = "end" /\ error = "ConfigurationError" /\ requests = 0
       /\ Helperless /\ Tunnelless

-----------------------------------------------------------------------------
(* The VPN's command.                                                      *)

LEMMA Halves == V!TypeOK <=> VpnFlags /\ VpnValues
BY DEF V!TypeOK, V!TunnelTypeOK, VpnFlags, VpnValues

LEMMA VpnInit == V!Init => VpnIInv
<1> SUFFICES ASSUME V!Init PROVE VpnIInv
  OBVIOUS
<1> USE DEF V!Init, V!StartInit
<1>1. VpnFlags
  BY DEF VpnFlags
<1>2. VpnValues
  BY CancelsAssumption DEF VpnValues, V!Locations, V!StartLocations, V!Errors
<1>3. VpnInv
  BY DEF VpnInv, DetailsInv, TimerInv, CountInv, PendingInv, TunnelInv, ResultInv, Tries, Body,
         Over, V!StartLocations
<1> QED
  BY <1>1, <1>2, <1>3, Halves DEF VpnIInv

\* A cancellation leaves print_details.  What is left of the count is what others
\* asked for: with none, the command goes on as if nothing had been cancelled
\* ("it never changes the status", README.md:82), else it ends with CancelledError.
LEMMA LeaveStep == VpnIInv /\ V!DetailsLeave => (VpnValues /\ VpnInv)'
<1> SUFFICES ASSUME VpnIInv, V!DetailsLeave PROVE (VpnValues /\ VpnInv)'
  OBVIOUS
<1> USE DEF VpnIInv, VpnInv
<1>1. /\ pc = "begin" /\ details \in {"spawning", "stopping"} /\ VpnValues
      /\ requests \in Nat /\ timer \in {"armed", "fired"} /\ handshake = "off"
  BY Halves, CancelsAssumption
     DEF V!DetailsLeave, V!AtDetails, VpnValues, DetailsInv, TimerInv, V!StartLocations, Over
<1>2. cancelling = requests + (IF timer = "fired" THEN 1 ELSE 0) /\ cancelling > 0
  BY <1>1 DEF V!DetailsLeave, V!AtDetails, CountInv, PendingInv
<1>3. V!OthersCancelled = requests /\ (V!Own <=> requests = 0)
  BY <1>1, <1>2 DEF V!OthersCancelled, V!Own
<1>4. /\ interrupt' = FALSE /\ cancelling' = requests /\ details' = "done"
      /\ parser' \in {"down", parser} /\ (details = "stopping" => parser' = "down")
      /\ UNCHANGED <<requests, kind, config, leader, group, straggler, handshake>>
      /\ UNCHANGED <<stopTask, recorded, speedtest, late, owned>>
  BY <1>3 DEF V!DetailsLeave, V!procVars, V!stopVars
<1>5. /\ ~owned /\ leader = "none" /\ group = "none" /\ ~config
      /\ stopTask = "none" /\ ~recorded /\ code = "none"
  BY <1>1 DEF TunnelInv, ResultInv, V!StartLocations, Over
<1>6. \/ requests = 0 /\ timer' = "armed" /\ error' = "none" /\ UNCHANGED <<pc, code>>
      \/ requests > 0 /\ timer' = "off" /\ error' = "CancelledError" /\ pc' = "end" /\ code' = "raised"
  BY <1>1, <1>3 DEF V!DetailsLeave
<1>7. VpnValues'
  BY <1>1, <1>4, <1>5, <1>6 DEF VpnValues, V!Locations, V!Errors
<1>8. (DetailsInv /\ TimerInv /\ CountInv)'
  BY <1>1, <1>4, <1>5, <1>6 DEF DetailsInv, TimerInv, CountInv, V!StartLocations, Over, Tries
<1>9. (PendingInv /\ TunnelInv /\ ResultInv)'
  BY <1>1, <1>4, <1>5, <1>6
     DEF PendingInv, TunnelInv, ResultInv, V!StartLocations, Over, Tries, Body
<1> QED
  BY <1>7, <1>8, <1>9

\* No step needs more than the types to keep a Boolean one.
LEMMA FlagsStep == VpnIInv /\ V!Next => VpnFlags'
<1> SUFFICES ASSUME VpnFlags, V!Next PROVE VpnFlags'
  BY Halves DEF VpnIInv
<1> USE DEF VpnFlags, V!taskVars, V!procVars, V!stopVars, V!pingVars
<1>1. CASE /\ \/ V!StartFails \/ V!Spawn \/ V!SpawnInterrupted \/ V!Spawned
           /\ UNCHANGED V!pingVars
  BY <1>1 DEF V!StartFails, V!Spawn, V!SpawnInterrupted, V!Spawned, V!Resumes
<1>2. CASE /\ \/ V!Fed \/ V!Ready \/ V!Complain \/ V!Complained \/ V!Aborted
           /\ UNCHANGED V!pingVars
  BY <1>2
     DEF V!Fed, V!Ready, V!Complain, V!Complained, V!Aborted, V!Abort, V!LeaveAbort, V!Resumes
<1>3. CASE /\ \/ V!BrokenPipe \/ V!ConnectionLost \/ V!NotReady \/ V!LineTooLong
           /\ UNCHANGED V!pingVars
  BY <1>3 DEF V!BrokenPipe, V!ConnectionLost, V!NotReady, V!LineTooLong, V!Abort, V!Resumes
<1>4. CASE /\ \/ V!StartInterrupted \/ V!AbortInterrupted
           /\ UNCHANGED V!pingVars
  BY <1>4 DEF V!StartInterrupted, V!AbortInterrupted, V!Abort, V!LeaveAbort
<1>5. CASE /\ \/ V!StopEnds \/ V!LeaderExits \/ V!HandshakeExpires
           /\ UNCHANGED V!pingVars
  BY <1>5 DEF V!StopEnds, V!LeaderExits, V!HandshakeExpires, V!Interrupt
<1>6. CASE V!DetailsFail \/ V!DetailsSpawned \/ V!DetailsRead \/ V!DetailsStopped
  BY <1>6
     DEF V!DetailsFail, V!DetailsSpawned, V!DetailsRead, V!DetailsStopped, V!AtDetails,
         V!DetailsEnd, V!tunnelVars
<1>7. CASE V!DetailsInterrupted \/ V!DetailsLeave
  BY <1>7 DEF V!DetailsInterrupted, V!DetailsLeave, V!AtDetails
<1>8. CASE V!Started \/ V!StartRaised
  BY <1>8 DEF V!Started, V!StartRaised, V!Goes, V!Fails
<1>9. CASE V!TooLate \/ V!SeesExit \/ V!ExitedEarly \/ V!DownloadFails
  BY <1>9
     DEF V!TooLate, V!SeesExit, V!ExitedEarly, V!DownloadFails, V!Goes, V!Fails, V!FailsWith,
         V!Resumes
<1>10. CASE V!Asks \/ V!Answered \/ V!Downloaded
  BY <1>10 DEF V!Asks, V!Answered, V!Downloaded, V!Goes, V!Resumes
<1>11. CASE V!RequestFails \/ V!RequestInterrupted \/ V!DownloadInterrupted
  BY <1>11
     DEF V!RequestFails, V!RequestInterrupted, V!DownloadInterrupted, V!Interrupted, V!Retries,
         V!Fails, V!Resumes
<1>12. CASE V!Paused \/ V!WaitInterrupted
  BY <1>12 DEF V!Paused, V!WaitInterrupted, V!Goes, V!Interrupted, V!Fails, V!Resumes
<1>13. CASE V!CleanUp \/ V!StopInterrupted \/ V!Stopped
  BY <1>13 DEF V!CleanUp, V!StopInterrupted, V!Stopped, V!Leaves
<1>14. CASE V!Cancel \/ V!TimerExpires \/ V!DeadlinePasses
  BY <1>14 DEF V!Cancel, V!TimerExpires, V!DeadlinePasses, V!Interrupt, V!tunnelVars
<1> QED
  BY <1>1, <1>2, <1>3, <1>4, <1>5, <1>6, <1>7, <1>8, <1>9, <1>10, <1>11, <1>12, <1>13, <1>14
     DEF V!Next, V!InTunnel, V!StartTask, V!Details, V!Try

\* The types of the other values, for the steps of each part of the command.
LEMMA StartValues ==
  ASSUME VpnIInv,
         \/ V!StartFails \/ V!Spawn \/ V!SpawnInterrupted \/ V!Spawned \/ V!Fed \/ V!Ready
         \/ V!Complain,
         details = "done", UNCHANGED V!pingVars
  PROVE  VpnValues'
<1> USE Halves, CancelsAssumption, KindsAssumption
        DEF VpnValues, VpnIInv, VpnInv, DetailsInv, TimerInv, CountInv, PendingInv, TunnelInv,
            ResultInv, Tries, Body, Over, V!Locations, V!StartLocations, V!Errors, V!tunnelVars,
            V!taskVars, V!procVars, V!stopVars, V!pingVars, V!Resumes
<1>1. CASE V!StartFails
  BY <1>1 DEF V!StartFails
<1>2. CASE V!Spawn
  BY <1>2 DEF V!Spawn
<1>3. CASE V!SpawnInterrupted
  BY <1>3 DEF V!SpawnInterrupted
<1>4. CASE V!Spawned
  BY <1>4 DEF V!Spawned
<1>5. CASE V!Fed
  BY <1>5 DEF V!Fed
<1>6. CASE V!Ready
  BY <1>6 DEF V!Ready
<1>7. CASE V!Complain
  BY <1>7 DEF V!Complain
<1> QED
  BY <1>1, <1>2, <1>3, <1>4, <1>5, <1>6, <1>7

LEMMA AbortValues ==
  ASSUME VpnIInv,
         \/ V!BrokenPipe \/ V!ConnectionLost \/ V!Complained \/ V!NotReady \/ V!LineTooLong
         \/ V!StartInterrupted \/ V!AbortInterrupted \/ V!Aborted,
         details = "done", UNCHANGED V!pingVars
  PROVE  VpnValues'
<1> USE Halves, CancelsAssumption, KindsAssumption
        DEF VpnValues, VpnIInv, VpnInv, DetailsInv, TimerInv, CountInv, PendingInv, TunnelInv,
            ResultInv, Tries, Body, Over, V!Locations, V!StartLocations, V!Errors, V!tunnelVars,
            V!taskVars, V!procVars, V!stopVars, V!pingVars, V!Resumes, V!Abort, V!LeaveAbort
<1>1. CASE V!BrokenPipe
  BY <1>1 DEF V!BrokenPipe
<1>2. CASE V!Complained
  BY <1>2 DEF V!Complained
<1>3. CASE V!NotReady
  BY <1>3 DEF V!NotReady
<1>4. CASE V!LineTooLong
  BY <1>4 DEF V!LineTooLong
<1>5. CASE V!StartInterrupted
  BY <1>5 DEF V!StartInterrupted
<1>6. CASE V!AbortInterrupted
  BY <1>6 DEF V!AbortInterrupted
<1>7. CASE V!Aborted
  BY <1>7 DEF V!Aborted
<1>8. CASE V!ConnectionLost
  BY <1>8 DEF V!ConnectionLost
<1> QED
  BY <1>1, <1>2, <1>3, <1>4, <1>5, <1>6, <1>7, <1>8

LEMMA ProcessValues ==
  ASSUME VpnIInv,
         \/ V!StopEnds \/ V!LeaderExits \/ V!HandshakeExpires,
         details = "done", UNCHANGED V!pingVars
  PROVE  VpnValues'
<1> USE Halves, CancelsAssumption, KindsAssumption
        DEF VpnValues, VpnIInv, VpnInv, DetailsInv, TimerInv, CountInv, PendingInv, TunnelInv,
            ResultInv, Tries, Body, Over, V!Locations, V!StartLocations, V!Errors, V!tunnelVars,
            V!taskVars, V!procVars, V!stopVars, V!pingVars, V!Interrupt
<1>1. CASE V!StopEnds
  BY <1>1 DEF V!StopEnds
<1>2. CASE V!LeaderExits
  BY <1>2 DEF V!LeaderExits
<1>3. CASE V!HandshakeExpires
  BY <1>3 DEF V!HandshakeExpires
<1> QED
  BY <1>1, <1>2, <1>3

LEMMA DetailsValues ==
  ASSUME VpnIInv,
         \/ V!DetailsFail \/ V!DetailsSpawned \/ V!DetailsRead \/ V!DetailsStopped
         \/ V!DetailsInterrupted \/ V!DetailsLeave
  PROVE  VpnValues'
<1> USE Halves, CancelsAssumption, KindsAssumption
        DEF VpnValues, VpnIInv, VpnInv, DetailsInv, TimerInv, CountInv, PendingInv, TunnelInv,
            ResultInv, Tries, Body, Over, V!Locations, V!StartLocations, V!Errors, V!tunnelVars,
            V!taskVars, V!procVars, V!stopVars, V!pingVars, V!AtDetails, V!DetailsEnd
<1>1. CASE V!DetailsFail
  BY <1>1 DEF V!DetailsFail
<1>2. CASE V!DetailsSpawned
  BY <1>2 DEF V!DetailsSpawned
<1>3. CASE V!DetailsRead
  BY <1>3 DEF V!DetailsRead
<1>4. CASE V!DetailsStopped
  BY <1>4 DEF V!DetailsStopped
<1>5. CASE V!DetailsInterrupted
  BY <1>5 DEF V!DetailsInterrupted
<1>6. CASE V!DetailsLeave
  BY <1>6, LeaveStep
<1> QED
  BY <1>1, <1>2, <1>3, <1>4, <1>5, <1>6

LEMMA WaitValues ==
  ASSUME VpnIInv,
         \/ V!Started \/ V!StartRaised \/ V!TooLate \/ V!SeesExit \/ V!ExitedEarly \/ V!Asks
         \/ V!Paused \/ V!WaitInterrupted
  PROVE  VpnValues'
<1> USE Halves, CancelsAssumption, KindsAssumption
        DEF VpnValues, VpnIInv, VpnInv, DetailsInv, TimerInv, CountInv, PendingInv, TunnelInv,
            ResultInv, Tries, Body, Over, V!Locations, V!StartLocations, V!Errors, V!tunnelVars,
            V!taskVars, V!procVars, V!stopVars, V!pingVars, V!Resumes, V!Goes, V!Fails,
            V!FailsWith, V!Interrupted, V!OthersCancelled, V!Own
<1>1. CASE V!Started
  BY <1>1 DEF V!Started
<1>2. CASE V!StartRaised
  BY <1>2 DEF V!StartRaised
<1>3. CASE V!TooLate
  BY <1>3 DEF V!TooLate
<1>4. CASE V!SeesExit
  BY <1>4 DEF V!SeesExit
<1>5. CASE V!ExitedEarly
  BY <1>5 DEF V!ExitedEarly
<1>6. CASE V!Asks
  BY <1>6 DEF V!Asks
<1>7. CASE V!Paused
  BY <1>7 DEF V!Paused
<1>8. CASE V!WaitInterrupted
  BY <1>8 DEF V!WaitInterrupted
<1> QED
  BY <1>1, <1>2, <1>3, <1>4, <1>5, <1>6, <1>7, <1>8

LEMMA RequestValues ==
  ASSUME VpnIInv,
         \/ V!Answered \/ V!RequestFails \/ V!RequestInterrupted \/ V!Downloaded
         \/ V!DownloadFails \/ V!DownloadInterrupted
  PROVE  VpnValues'
<1> USE Halves, CancelsAssumption, KindsAssumption
        DEF VpnValues, VpnIInv, VpnInv, DetailsInv, TimerInv, CountInv, PendingInv, TunnelInv,
            ResultInv, Tries, Body, Over, V!Locations, V!StartLocations, V!Errors, V!tunnelVars,
            V!taskVars, V!procVars, V!stopVars, V!pingVars, V!Resumes, V!Goes, V!Fails,
            V!FailsWith, V!Interrupted, V!OthersCancelled, V!Own, V!Retries
<1>1. CASE V!Answered
  BY <1>1 DEF V!Answered
<1>2. CASE V!RequestFails
  BY <1>2 DEF V!RequestFails
<1>3. CASE V!RequestInterrupted
  BY <1>3 DEF V!RequestInterrupted
<1>4. CASE V!Downloaded
  BY <1>4 DEF V!Downloaded
<1>5. CASE V!DownloadFails
  BY <1>5 DEF V!DownloadFails
<1>6. CASE V!DownloadInterrupted
  BY <1>6 DEF V!DownloadInterrupted
<1> QED
  BY <1>1, <1>2, <1>3, <1>4, <1>5, <1>6

LEMMA OthersValues ==
  ASSUME VpnIInv,
         \/ V!CleanUp \/ V!StopInterrupted \/ V!Stopped \/ V!Cancel \/ V!TimerExpires
         \/ V!DeadlinePasses
  PROVE  VpnValues'
<1> USE Halves, CancelsAssumption, KindsAssumption
        DEF VpnValues, VpnIInv, VpnInv, DetailsInv, TimerInv, CountInv, PendingInv, TunnelInv,
            ResultInv, Tries, Body, Over, V!Locations, V!StartLocations, V!Errors, V!tunnelVars,
            V!taskVars, V!procVars, V!stopVars, V!pingVars, V!Leaves, V!Suspended, V!Interrupt
<1>1. CASE V!CleanUp
  BY <1>1 DEF V!CleanUp
<1>2. CASE V!StopInterrupted
  BY <1>2 DEF V!StopInterrupted
<1>3. CASE V!Stopped
  BY <1>3 DEF V!Stopped
<1>4. CASE V!Cancel
  BY <1>4 DEF V!Cancel
<1>5. CASE V!TimerExpires
  BY <1>5 DEF V!TimerExpires
<1>6. CASE V!DeadlinePasses
  BY <1>6 DEF V!DeadlinePasses
<1> QED
  BY <1>1, <1>2, <1>3, <1>4, <1>5, <1>6

\* The rest of the invariant, likewise: start_tunnel up to the client being ready,
LEMMA StartStep ==
  ASSUME VpnIInv,
         \/ V!StartFails \/ V!Spawn \/ V!SpawnInterrupted \/ V!Spawned \/ V!Fed \/ V!Ready
         \/ V!Complain,
         details = "done", UNCHANGED V!pingVars
  PROVE  VpnInv'
<1> USE CancelsAssumption
        DEF V!TypeOK, V!TunnelTypeOK, VpnIInv, VpnInv, DetailsInv, TimerInv, CountInv,
            PendingInv, TunnelInv, ResultInv, Tries, Body, Over, V!Locations, V!StartLocations,
            V!Errors, V!tunnelVars, V!taskVars, V!procVars, V!stopVars, V!pingVars, V!Resumes
<1>1. CASE V!StartFails
  BY <1>1 DEF V!StartFails
<1>2. CASE V!Spawn
  BY <1>2 DEF V!Spawn
<1>3. CASE V!SpawnInterrupted
  BY <1>3 DEF V!SpawnInterrupted
<1>4. CASE V!Spawned
  BY <1>4 DEF V!Spawned
<1>5. CASE V!Fed
  BY <1>5 DEF V!Fed
<1>6. CASE V!Ready
  BY <1>6 DEF V!Ready
<1>7. CASE V!Complain
  BY <1>7 DEF V!Complain
<1> QED
  BY <1>1, <1>2, <1>3, <1>4, <1>5, <1>6, <1>7

\* its failures and the handler that stops the process,
LEMMA AbortStep ==
  ASSUME VpnIInv,
         \/ V!BrokenPipe \/ V!ConnectionLost \/ V!Complained \/ V!NotReady \/ V!LineTooLong
         \/ V!StartInterrupted \/ V!AbortInterrupted \/ V!Aborted,
         details = "done", UNCHANGED V!pingVars
  PROVE  VpnInv'
<1> USE CancelsAssumption
        DEF V!TypeOK, V!TunnelTypeOK, VpnIInv, VpnInv, DetailsInv, TimerInv, CountInv,
            PendingInv, TunnelInv, ResultInv, Tries, Body, Over, V!Locations, V!StartLocations,
            V!Errors, V!tunnelVars, V!taskVars, V!procVars, V!stopVars, V!pingVars, V!Resumes,
            V!Abort, V!LeaveAbort
<1>1. CASE V!BrokenPipe
  BY <1>1 DEF V!BrokenPipe
<1>2. CASE V!Complained
  BY <1>2 DEF V!Complained
<1>3. CASE V!NotReady
  BY <1>3 DEF V!NotReady
<1>4. CASE V!LineTooLong
  BY <1>4 DEF V!LineTooLong
<1>5. CASE V!StartInterrupted
  BY <1>5 DEF V!StartInterrupted
<1>6. CASE V!AbortInterrupted
  BY <1>6 DEF V!AbortInterrupted
<1>7. CASE V!Aborted
  BY <1>7 DEF V!Aborted
<1>8. CASE V!ConnectionLost
  BY <1>8 DEF V!ConnectionLost
<1> QED
  BY <1>1, <1>2, <1>3, <1>4, <1>5, <1>6, <1>7, <1>8

\* the stop task, the process and the inner timer,
LEMMA ProcessStep ==
  ASSUME VpnIInv,
         \/ V!StopEnds \/ V!LeaderExits \/ V!HandshakeExpires,
         details = "done", UNCHANGED V!pingVars
  PROVE  VpnInv'
<1> USE CancelsAssumption
        DEF V!TypeOK, V!TunnelTypeOK, VpnIInv, VpnInv, DetailsInv, TimerInv, CountInv,
            PendingInv, TunnelInv, ResultInv, Tries, Body, Over, V!Locations, V!StartLocations,
            V!Errors, V!tunnelVars, V!taskVars, V!procVars, V!stopVars, V!pingVars, V!Interrupt
<1>1. CASE V!StopEnds
  BY <1>1 DEF V!StopEnds
<1>2. CASE V!LeaderExits
  BY <1>2 DEF V!LeaderExits
<1>3. CASE V!HandshakeExpires
  BY <1>3 DEF V!HandshakeExpires
<1> QED
  BY <1>1, <1>2, <1>3

\* print_details,
LEMMA DetailsStep ==
  ASSUME VpnIInv,
         \/ V!DetailsFail \/ V!DetailsSpawned \/ V!DetailsRead \/ V!DetailsStopped
         \/ V!DetailsInterrupted \/ V!DetailsLeave
  PROVE  VpnInv'
<1> USE CancelsAssumption
        DEF V!TypeOK, V!TunnelTypeOK, VpnIInv, VpnInv, DetailsInv, TimerInv, CountInv,
            PendingInv, TunnelInv, ResultInv, Tries, Body, Over, V!Locations, V!StartLocations,
            V!Errors, V!tunnelVars, V!taskVars, V!procVars, V!stopVars, V!pingVars, V!AtDetails,
            V!DetailsEnd
<1>1. CASE V!DetailsFail
  BY <1>1 DEF V!DetailsFail
<1>2. CASE V!DetailsSpawned
  BY <1>2 DEF V!DetailsSpawned
<1>3. CASE V!DetailsRead
  BY <1>3 DEF V!DetailsRead
<1>4. CASE V!DetailsStopped
  BY <1>4 DEF V!DetailsStopped
<1>5. CASE V!DetailsInterrupted
  BY <1>5 DEF V!DetailsInterrupted
<1>6. CASE V!DetailsLeave
  BY <1>6, LeaveStep
<1> QED
  BY <1>1, <1>2, <1>3, <1>4, <1>5, <1>6

\* the wait for the tunnel to carry a request,
LEMMA WaitStep ==
  ASSUME VpnIInv,
         \/ V!Started \/ V!StartRaised \/ V!TooLate \/ V!SeesExit \/ V!ExitedEarly \/ V!Asks
         \/ V!Paused \/ V!WaitInterrupted
  PROVE  VpnInv'
<1> USE CancelsAssumption
        DEF V!TypeOK, V!TunnelTypeOK, VpnIInv, VpnInv, DetailsInv, TimerInv, CountInv,
            PendingInv, TunnelInv, ResultInv, Tries, Body, Over, V!Locations, V!StartLocations,
            V!Errors, V!tunnelVars, V!taskVars, V!procVars, V!stopVars, V!pingVars, V!Resumes,
            V!Goes, V!Fails, V!FailsWith, V!Interrupted, V!OthersCancelled, V!Own
<1>1. CASE V!Started
  BY <1>1 DEF V!Started
<1>2. CASE V!StartRaised
  BY <1>2 DEF V!StartRaised
<1>3. CASE V!TooLate
  BY <1>3 DEF V!TooLate
<1>4. CASE V!SeesExit
  BY <1>4 DEF V!SeesExit
<1>5. CASE V!ExitedEarly
  BY <1>5 DEF V!ExitedEarly
<1>6. CASE V!Asks
  BY <1>6 DEF V!Asks
<1>7. CASE V!Paused
  BY <1>7 DEF V!Paused
<1>8. CASE V!WaitInterrupted
  BY <1>8 DEF V!WaitInterrupted
<1> QED
  BY <1>1, <1>2, <1>3, <1>4, <1>5, <1>6, <1>7, <1>8

\* the requests themselves,
LEMMA RequestStep ==
  ASSUME VpnIInv,
         \/ V!Answered \/ V!RequestFails \/ V!RequestInterrupted \/ V!Downloaded
         \/ V!DownloadFails \/ V!DownloadInterrupted
  PROVE  VpnInv'
<1> USE CancelsAssumption
        DEF V!TypeOK, V!TunnelTypeOK, VpnIInv, VpnInv, DetailsInv, TimerInv, CountInv,
            PendingInv, TunnelInv, ResultInv, Tries, Body, Over, V!Locations, V!StartLocations,
            V!Errors, V!tunnelVars, V!taskVars, V!procVars, V!stopVars, V!pingVars, V!Resumes,
            V!Goes, V!Fails, V!FailsWith, V!Interrupted, V!OthersCancelled, V!Own, V!Retries
<1>1. CASE V!Answered
  BY <1>1 DEF V!Answered
<1>2. CASE V!RequestFails
  BY <1>2 DEF V!RequestFails
<1>3. CASE V!RequestInterrupted
  BY <1>3 DEF V!RequestInterrupted
<1>4. CASE V!Downloaded
  BY <1>4 DEF V!Downloaded
<1>5. CASE V!DownloadFails
  BY <1>5 DEF V!DownloadFails
<1>6. CASE V!DownloadInterrupted
  BY <1>6 DEF V!DownloadInterrupted
<1> QED
  BY <1>1, <1>2, <1>3, <1>4, <1>5, <1>6

\* the finally block, cancellation and time.
LEMMA OthersStep ==
  ASSUME VpnIInv,
         \/ V!CleanUp \/ V!StopInterrupted \/ V!Stopped \/ V!Cancel \/ V!TimerExpires
         \/ V!DeadlinePasses
  PROVE  VpnInv'
<1> USE CancelsAssumption
        DEF V!TypeOK, V!TunnelTypeOK, VpnIInv, VpnInv, DetailsInv, TimerInv, CountInv,
            PendingInv, TunnelInv, ResultInv, Tries, Body, Over, V!Locations, V!StartLocations,
            V!Errors, V!tunnelVars, V!taskVars, V!procVars, V!stopVars, V!pingVars, V!Leaves,
            V!Suspended, V!Interrupt
<1>1. CASE V!CleanUp
  BY <1>1 DEF V!CleanUp
<1>2. CASE V!StopInterrupted
  BY <1>2 DEF V!StopInterrupted
<1>3. CASE V!Stopped
  BY <1>3 DEF V!Stopped
<1>4. CASE V!Cancel
  BY <1>4 DEF V!Cancel
<1>5. CASE V!TimerExpires
  BY <1>5 DEF V!TimerExpires
<1>6. CASE V!DeadlinePasses
  BY <1>6 DEF V!DeadlinePasses
<1> QED
  BY <1>1, <1>2, <1>3, <1>4, <1>5, <1>6

LEMMA VpnNext == VpnIInv /\ V!Next => VpnIInv'
<1> SUFFICES ASSUME VpnIInv, V!Next PROVE VpnIInv'
  OBVIOUS
<1>1. VpnFlags'
  BY FlagsStep
<1>2. (VpnValues /\ VpnInv)'
  <2>1. CASE V!Details
    BY <2>1, DetailsValues, DetailsStep DEF V!Details
  <2>2. CASE details = "done" /\ V!InTunnel /\ UNCHANGED V!pingVars
    BY <2>2, StartValues, AbortValues, ProcessValues, StartStep, AbortStep, ProcessStep
       DEF V!InTunnel, V!StartTask
  <2>3. CASE V!Try
    BY <2>3, WaitValues, RequestValues, WaitStep, RequestStep DEF V!Try
  <2>4. CASE \/ V!CleanUp \/ V!StopInterrupted \/ V!Stopped
             \/ V!Cancel \/ V!TimerExpires \/ V!DeadlinePasses
    BY <2>4, OthersValues, OthersStep
  <2> QED
    BY <2>1, <2>2, <2>3, <2>4 DEF V!Next
<1>3. V!TypeOK'
  BY <1>1, <1>2 DEF V!TypeOK, V!TunnelTypeOK, VpnFlags, VpnValues
<1> QED
  BY <1>2, <1>3 DEF VpnIInv

-----------------------------------------------------------------------------
(* The whole command.                                                      *)

LEMMA InitInv == Init => IInv
<1> SUFFICES ASSUME Init PROVE IInv
  OBVIOUS
<1>1. route \in {"vpn", "proxy", "refused"}
  BY DEF Init, Route
<1>2. CASE route = "vpn"
  BY <1>2, VpnInit DEF Init, IInv
<1>3. CASE route = "proxy"
  BY <1>3, TypeInit, LimitInit, OutcomeInit DEF Init, IInv
<1>4. CASE route = "refused"
  BY <1>4 DEF Init, IInv
<1> QED
  BY <1>1, <1>2, <1>3, <1>4

LEMMA NextInv == IInv /\ [Next]_vars => IInv'
<1> SUFFICES ASSUME IInv, [Next]_vars PROVE IInv'
  OBVIOUS
<1>1. CASE route = "vpn" /\ V!Next /\ UNCHANGED <<route, helperVars, clockVars>>
  <2>1. VpnIInv'
    BY <1>1, VpnNext DEF IInv
  <2> QED
    BY <1>1, <2>1 DEF IInv, Helperless, helperVars, clockVars
<1>2. CASE route = "proxy" /\ ProxyNext /\ UNCHANGED <<route, vpnVars>>
  <2>1. (ProxyTypeOK /\ ClockInv)'
    BY <1>2, TypeStep DEF IInv
  <2>2. (LimitInv /\ OutcomeInv)'
    BY <1>2, LimitRunner, LimitHelper, LimitTime, OutcomeRunner, OutcomeHelper, OutcomeCancel
       DEF IInv, ProxyNext
  <2> QED
    BY <1>2, <2>1, <2>2 DEF IInv, Tunnelless, vpnVars
<1>3. CASE UNCHANGED vars
  <2> USE <1>3 DEF vars, vpnVars, proxyVars, proxyTaskVars, helperVars, clockVars
  <2>1. VpnIInv => VpnIInv'
    BY DEF VpnIInv, VpnInv, V!TypeOK, V!TunnelTypeOK, DetailsInv, TimerInv, CountInv, PendingInv,
           TunnelInv, ResultInv
  <2>2. ProxyTypeOK /\ ClockInv => (ProxyTypeOK /\ ClockInv)'
    BY DEF ProxyTypeOK, ClockInv
  <2>3. LimitInv /\ OutcomeInv => (LimitInv /\ OutcomeInv)'
    BY DEF LimitInv, Clocks, Covered, Allowance, OutcomeInv, ProxyOutcome
  <2>4. (Helperless => Helperless') /\ (Tunnelless => Tunnelless')
    BY DEF Helperless, Tunnelless
  <2> QED
    BY <2>1, <2>2, <2>3, <2>4 DEF IInv
<1> QED
  BY <1>1, <1>2, <1>3 DEF Next

LEMMA Invariance == Spec => []IInv
BY InitInv, NextInv, PTL DEF Spec

-----------------------------------------------------------------------------
\* Every variable keeps its type, and those of the command that was not called
\* their initial values.
THEOREM TypeCorrect == Spec => []TypeOK
<1>1. IInv => TypeOK
  BY DEF IInv, VpnIInv, TypeOK
<1> QED
  BY <1>1, Invariance, PTL

\* Whichever command runs, whenever it is cancelled and whichever timeout goes off:
\* no process of it is left when it ends (vpn_ping_cli.py:55-56, 154-156, proxy_ping_cli.py:46-47).
THEOREM IsTornDown == Spec => []TornDown
<1>1. IInv => TornDown
  <2> SUFFICES ASSUME IInv, pc = "end" PROVE V!Nothing /\ parser # "up" /\ helper \notin Alive
    BY DEF TornDown
  <2>1. CASE route = "vpn"
    <3>1. helper \notin Alive
      BY <2>1 DEF IInv, Helperless, Alive
    <3>2. parser # "up"
      BY <2>1 DEF IInv, VpnIInv, VpnInv, DetailsInv
    <3>3. V!Nothing
      BY <2>1 DEF IInv, VpnIInv, VpnInv, V!TypeOK, V!TunnelTypeOK, TunnelInv, V!Nothing
    <3> QED
      BY <3>1, <3>2, <3>3
  <2>2. CASE route = "proxy"
    BY <2>2 DEF IInv, OutcomeInv, ProxyOutcome, Tunnelless, V!Nothing
  <2>3. CASE route = "refused"
    BY <2>3 DEF IInv, Helperless, Tunnelless, V!Nothing, Alive
  <2> QED
    BY <2>1, <2>2, <2>3 DEF IInv
<1> QED
  BY <1>1, Invariance, PTL

\* No timeout of the command absorbs a cancellation, nor lets its own one out.
THEOREM CancelledOnlyThen == Spec => []CancelledExactly
<1>1. IInv => CancelledExactly
  <2> SUFFICES ASSUME IInv, pc = "end"
               PROVE  code = "raised" /\ error = "CancelledError" <=> requests > 0
    BY DEF CancelledExactly
  <2>1. CASE route = "vpn"
    BY <2>1 DEF IInv, VpnIInv, VpnInv, ResultInv, Over
  <2>2. CASE route = "proxy"
    BY <2>2 DEF IInv, OutcomeInv, ProxyOutcome
  <2>3. CASE route = "refused"
    BY <2>3 DEF IInv
  <2> QED
    BY <2>1, <2>2, <2>3 DEF IInv
<1> QED
  BY <1>1, Invariance, PTL

\* AnswerAwaited, of the proxy's command as the whole one calls it.
THEOREM AnswerIsAwaitedInPing == Spec => []AnswerAwaited
<1>1. IInv => AnswerAwaited
  BY DEF IInv, Helperless, LimitInv, AnswerAwaited
<1> QED
  BY <1>1, Invariance, PTL

-----------------------------------------------------------------------------
(* Tunnel.stop in the command's task, step by step.                        *)

LEMMA InitPromise == Init => V!StopPromise!Init
<1> SUFFICES ASSUME Init
             PROVE  stopTask = "none" /\ recorded = FALSE /\ pc \notin {"aborting", "stopping"}
  BY DEF V!StopPromise!Init
<1>1. route \in {"vpn", "proxy", "refused"}
  BY DEF Init, Route
<1> QED
  BY <1>1 DEF Init, V!Init, V!StartInit, ProxyInit, Tunnelless

\* start_tunnel's handler begins to wait; nobody has asked it anything yet.
LEMMA AbortsUnasked ==
  ASSUME VpnIInv, pc \in Tries, NEW e, V!Abort(e), ~interrupt'
  PROVE  UNCHANGED V!StopPromise!tvars
<1>1. stopTask = "none" /\ ~recorded /\ pc \notin {"aborting", "stopping"}
  BY DEF VpnIInv, VpnInv, TunnelInv, Tries
<1>2. pc' = "aborting" /\ stopTask' = "running" /\ recorded' = recorded
  BY DEF V!Abort
<1> QED
  BY <1>1, <1>2 DEF V!StopPromise!tvars

\* The steps outside of the two loops change nothing that Teardown speaks of.
LEMMA OutsidePromise ==
  ASSUME VpnIInv,
         \/ /\ \/ V!StartFails \/ V!Spawn \/ V!SpawnInterrupted \/ V!Spawned
               \/ V!Fed \/ V!Ready \/ V!Complain \/ V!HandshakeExpires
            /\ UNCHANGED V!pingVars
         \/ V!Details
         \/ V!Try
  PROVE  UNCHANGED V!StopPromise!tvars
<1> USE DEF V!StopPromise!tvars, V!stopVars
<1>1. CASE /\ UNCHANGED <<stopTask, recorded>>
           /\ pc \notin {"aborting", "stopping"} /\ pc' \notin {"aborting", "stopping"}
  BY <1>1
<1>2. CASE \/ V!StartFails \/ V!Spawn \/ V!SpawnInterrupted \/ V!Spawned
           \/ V!Fed \/ V!Ready \/ V!Complain
  BY <1>1, <1>2 DEF V!StartFails, V!Spawn, V!SpawnInterrupted, V!Spawned, V!Fed, V!Ready,
                    V!Complain, V!Resumes
<1>3. CASE V!HandshakeExpires
  BY <1>1, <1>3 DEF V!HandshakeExpires, VpnIInv, VpnInv, TimerInv
<1>4. CASE V!Details
  BY <1>1, <1>4
     DEF V!Details, V!DetailsFail, V!DetailsSpawned, V!DetailsRead, V!DetailsStopped,
         V!DetailsInterrupted, V!DetailsLeave, V!AtDetails, V!tunnelVars, V!taskVars
<1>5. CASE \/ V!Started \/ V!StartRaised \/ V!TooLate \/ V!SeesExit \/ V!ExitedEarly \/ V!Asks
           \/ V!Answered
  BY <1>1, <1>5
     DEF V!Started, V!StartRaised, V!TooLate, V!SeesExit, V!ExitedEarly, V!Asks, V!Answered,
         V!Resumes, V!Goes, V!Fails, V!FailsWith
<1>6. CASE \/ V!RequestFails \/ V!RequestInterrupted \/ V!Paused \/ V!WaitInterrupted
           \/ V!Downloaded \/ V!DownloadFails \/ V!DownloadInterrupted
  BY <1>1, <1>6
     DEF V!RequestFails, V!RequestInterrupted, V!Paused, V!WaitInterrupted, V!Downloaded,
         V!DownloadFails, V!DownloadInterrupted, V!Resumes, V!Goes, V!Fails, V!FailsWith,
         V!Retries, V!Interrupted
<1> QED
  BY <1>2, <1>3, <1>4, <1>5, <1>6 DEF V!Try

\* A turn of the loop: the cancellation was asked for, and the loop is left only when
\* the task that stops the process is done.
LEMMA LoopPromise ==
  ASSUME VpnIInv,
         V!AbortInterrupted \/ V!Aborted \/ V!StopInterrupted \/ V!Stopped
  PROVE  [V!StopPromise!Leave]_(V!StopPromise!tvars)
<1> USE DEF V!StopPromise!tvars, V!StopPromise!Leave
<1>1. stopTask # "none" /\ pc \in {"aborting", "stopping"} /\ stopTask' = stopTask
  BY DEF V!AbortInterrupted, V!Aborted, V!StopInterrupted, V!Stopped, V!Resumes, V!stopVars,
         VpnIInv, VpnInv, TunnelInv
<1>2. CASE V!AbortInterrupted \/ V!StopInterrupted
  <2>1. interrupt /\ ~interrupt' /\ recorded' = TRUE
    BY <1>2 DEF V!AbortInterrupted, V!StopInterrupted
  <2>2. CASE stopTask = "done"
    <3>1. pc' \in {"raised", "end"}
      BY <1>2, <2>2 DEF V!AbortInterrupted, V!StopInterrupted, V!LeaveAbort, V!Leaves
    <3> QED
      BY <1>1, <2>1, <2>2, <3>1
  <2>3. CASE stopTask # "done"
    <3>1. pc' = pc
      BY <1>2, <2>3 DEF V!AbortInterrupted, V!StopInterrupted
    <3> QED
      BY <1>1, <2>1, <2>3, <3>1
  <2> QED
    BY <2>2, <2>3
<1>3. CASE V!Aborted \/ V!Stopped
  <2>1. ~interrupt /\ stopTask = "done" /\ pc' \in {"raised", "end"} /\ recorded' = recorded
    BY <1>3 DEF V!Aborted, V!Stopped, V!Resumes, V!LeaveAbort, V!Leaves, V!stopVars
  <2> QED
    BY <1>1, <2>1
<1> QED
  BY <1>2, <1>3

\* Every step of the VPN's command is one of Teardown, or changes nothing there.
LEMMA VpnPromise ==
  ASSUME VpnIInv, V!Next
  PROVE  [V!StopPromise!Next]_(V!StopPromise!tvars)
<1> USE DEF V!StopPromise!Next, V!StopPromise!tvars
<1>1. CASE /\ \/ V!BrokenPipe \/ V!ConnectionLost \/ V!Complained \/ V!NotReady
              \/ V!LineTooLong \/ V!StartInterrupted
           /\ UNCHANGED V!pingVars
  BY <1>1, AbortsUnasked
     DEF V!BrokenPipe, V!ConnectionLost, V!Complained, V!NotReady, V!LineTooLong,
         V!StartInterrupted, V!Resumes, Tries
<1>2. CASE V!StopEnds
  BY <1>2 DEF V!StopEnds, V!taskVars, V!StopPromise!Release
<1>3. CASE V!LeaderExits
  BY <1>3 DEF V!LeaderExits, V!taskVars, V!stopVars
<1>4. CASE V!CleanUp
  <2>1. pc = "cleaning" /\ (owned => stopTask = "none" /\ ~recorded) /\ ~interrupt
    BY <1>4 DEF V!CleanUp, VpnIInv, VpnInv, TunnelInv, ResultInv
  <2>2. CASE owned
    BY <1>4, <2>1, <2>2 DEF V!CleanUp
  <2>3. CASE ~owned
    BY <1>4, <2>1, <2>3 DEF V!CleanUp
  <2> QED
    BY <2>2, <2>3
<1>5. CASE V!Cancel \/ V!TimerExpires
  <2>1. interrupt' = TRUE /\ UNCHANGED <<pc, stopTask, recorded>>
    BY <1>5 DEF V!Cancel, V!TimerExpires, V!Interrupt, V!stopVars
  <2> QED
    BY <2>1 DEF V!StopPromise!Ask
<1>6. CASE V!DeadlinePasses
  BY <1>6 DEF V!DeadlinePasses, V!tunnelVars, V!taskVars, V!stopVars
<1>7. CASE V!AbortInterrupted \/ V!Aborted \/ V!StopInterrupted \/ V!Stopped
  BY <1>7, LoopPromise
<1>8. CASE \/ /\ \/ V!StartFails \/ V!Spawn \/ V!SpawnInterrupted \/ V!Spawned
                 \/ V!Fed \/ V!Ready \/ V!Complain \/ V!HandshakeExpires
              /\ UNCHANGED V!pingVars
           \/ V!Details
           \/ V!Try
  BY <1>8, OutsidePromise
<1> QED
  BY <1>1, <1>2, <1>3, <1>4, <1>5, <1>6, <1>7, <1>8 DEF V!Next, V!InTunnel, V!StartTask

\* The proxy's command never has a tunnel to stop.
LEMMA NextPromise ==
  ASSUME IInv, IInv', [Next]_vars
  PROVE  [V!StopPromise!Next]_(V!StopPromise!tvars)
<1>1. CASE route = "vpn" /\ V!Next
  BY <1>1, VpnPromise DEF IInv
<1>2. CASE route = "proxy" /\ UNCHANGED <<route, vpnVars>>
  <2>1. /\ stopTask = "none" /\ recorded = FALSE
        /\ UNCHANGED <<stopTask, recorded>>
    BY <1>2 DEF IInv, Tunnelless, vpnVars
  <2>2. pc \notin {"aborting", "stopping"} /\ pc' \notin {"aborting", "stopping"}
    BY <1>2 DEF IInv, ProxyTypeOK
  <2> QED
    BY <2>1, <2>2 DEF V!StopPromise!tvars
<1>3. CASE UNCHANGED vars
  BY <1>3 DEF vars, vpnVars, proxyVars, proxyTaskVars, V!StopPromise!tvars
<1> QED
  BY <1>1, <1>2, <1>3 DEF Next

\* The stop of a tunnel, at both its places in the command, implements the safety
\* part of Teardown, for any number of cancellations.
THEOREM StopPromiseIsKept == Spec => StopPromiseKept
<1>1. IInv /\ IInv' /\ [Next]_vars => [V!StopPromise!Next]_(V!StopPromise!tvars)
  BY NextPromise
<1> QED
  BY <1>1, InitPromise, Invariance, PTL DEF Spec, StopPromiseKept, V!StopPromise!Safety
=============================================================================
