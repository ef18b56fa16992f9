---------------------------- MODULE ProcessGroup ----------------------------
(***************************************************************************)
(* processes.py: stop_process_group, the one way vpnprobe ends the         *)
(* VPN clients it starts.  Three parties run concurrently:                 *)
(*   - the operating system's processes of one process group: the leader   *)
(*     (spawned with start_new_session) and whatever it forks;             *)
(*   - the clean-up task, the coroutine _stop_process_group;               *)
(*   - the caller, awaiting the shielded clean-up task in a loop, which    *)
(*     anybody may cancel any number of times.                             *)
(* Code between two awaits is one step.  A process group id that the       *)
(* system gives to new processes while the call runs is not modelled.      *)
(***************************************************************************)
EXTENDS Naturals

CONSTANTS
  Leader,        \* the process vpnprobe spawned
  Descendants,   \* the processes the group may ever fork
  Protected,     \* those our signals may not reach (they changed user)
  MaxCancels     \* bound: how often the caller is cancelled

ASSUME LeaderAssumption == Leader \notin Descendants
ASSUME ProtectedAssumption == Protected \subseteq Descendants
ASSUME CancelsAssumption == MaxCancels \in Nat

VARIABLES
  proc,          \* what each process of the group is doing
  doomed,        \* processes that were sent SIGKILL
  returncode,    \* has asyncio stored the leader's returncode?
  deadline,      \* the local "deadline" of the clean-up task
  cleanup,       \* where the clean-up task is
  caller,        \* "waiting" in the shield loop, or how the call ended
  interrupt,     \* a CancelledError will be thrown at the caller's next step
  cancellation,  \* the local "cancellation" of the caller is not None
  requests       \* how often the caller was cancelled so far

osVars == <<proc, doomed, returncode>>
taskVars == <<deadline, cleanup>>
callerVars == <<caller, interrupt, cancellation, requests>>
vars == <<osVars, taskVars, callerVars>>

Procs == {Leader} \union Descendants

TypeOK ==
  /\ proc \in [Procs -> {"unborn", "running", "zombie", "gone"}]
  /\ doomed \subseteq Procs
  /\ returncode \in BOOLEAN
  /\ deadline \in {"unset", "ahead", "passed"}
  /\ cleanup \in {"created", "waiting", "sleeping", "reaping", "done", "failed"}
  /\ caller \in {"waiting", "returned", "cancelled", "failed"}
  /\ interrupt \in BOOLEAN
  /\ cancellation \in BOOLEAN
  /\ requests \in 0 .. MaxCancels
  /\ returncode => proc[Leader] = "gone"
  /\ cleanup = "done" => returncode

\* The process group as the kernel sees it: a zombie stays a member.
Group == {p \in Procs : proc[p] \in {"running", "zombie"}}
Running == {p \in Procs : proc[p] = "running"}

\* Faulty: looks at the leader alone.
LeaderIsGone == Leader \notin Group

\* killpg: no member at all (ProcessLookupError), or members of which not one
\* may be signalled (PermissionError); otherwise every member it may signal is.
NoSuchGroup == Group = {}
NotPermitted == Group # {} /\ Group \subseteq Protected

Finished == cleanup \in {"done", "failed"}

\* stop_process_group is called on a process that was started: the leader runs,
\* has exited, was reaped, or was reaped and its returncode already stored.
Init ==
  /\ proc \in [Procs -> {"unborn", "running", "zombie", "gone"}]
  /\ proc[Leader] # "unborn"
  /\ doomed = {}
  /\ returncode \in BOOLEAN
  /\ returncode => proc[Leader] = "gone"
  /\ deadline = "unset"
  /\ cleanup = "created"
  /\ caller = "waiting"
  /\ interrupt = FALSE
  /\ cancellation = FALSE
  /\ requests = 0

-----------------------------------------------------------------------------
(* The operating system and asyncio's child watcher.                       *)

\* A process with a SIGKILL pending does not return from fork; a child of a
\* process out of our reach is out of our reach too.
Fork(p, c) ==
  /\ proc[p] = "running"
  /\ p \notin doomed
  /\ proc[c] = "unborn"
  /\ p \in Protected => c \in Protected
  /\ proc' = [proc EXCEPT ![c] = "running"]
  /\ UNCHANGED <<doomed, returncode, taskVars, callerVars>>

\* By itself, on SIGTERM, or on SIGKILL.
Exit(p) ==
  /\ proc[p] = "running"
  /\ proc' = [proc EXCEPT ![p] = "zombie"]
  /\ UNCHANGED <<doomed, returncode, taskVars, callerVars>>

\* A descendant is reaped by its parent or by init; the leader by the child
\* watcher, which stores the returncode in a later callback (StoreReturncode).
Reap(p) ==
  /\ proc[p] = "zombie"
  /\ proc' = [proc EXCEPT ![p] = "gone"]
  /\ UNCHANGED <<doomed, returncode, taskVars, callerVars>>

StoreReturncode ==
  /\ proc[Leader] = "gone"
  /\ ~returncode
  /\ returncode' = TRUE
  /\ UNCHANGED <<proc, doomed, taskVars, callerVars>>

DeadlinePasses ==
  /\ deadline = "ahead"
  /\ deadline' = "passed"
  /\ UNCHANGED <<osVars, cleanup, callerVars>>

-----------------------------------------------------------------------------
(* The clean-up task, _stop_process_group.                                 *)

\* SIGTERM to the group.  A group that is gone is ignored; PermissionError is
\* not caught and ends the task.  A process may ignore the signal, so nothing
\* in proc changes here.
Terminate ==
  /\ cleanup = "created"
  /\ deadline' = "ahead"
  /\ cleanup' = IF NotPermitted THEN "failed" ELSE "waiting"
  /\ UNCHANGED <<osVars, callerVars>>

\* process.wait() is over, or timed out; every later turn of the loop follows
\* a sleep.
LoopTurn ==
  \/ cleanup = "waiting" /\ (returncode \/ deadline = "passed")
  \/ cleanup = "sleeping"

\* "while _process_group_exists(...)" is false.
GroupGone ==
  /\ LoopTurn
  /\ NoSuchGroup
  /\ cleanup' = "reaping"
  /\ UNCHANGED <<osVars, deadline, callerVars>>

\* Members are left and so is time: sleep for at most 50 ms.
SleepMore ==
  /\ LoopTurn
  /\ ~NoSuchGroup
  /\ deadline = "ahead"
  /\ cleanup' = "sleeping"
  /\ UNCHANGED <<osVars, deadline, callerVars>>

\* Faulty: SIGKILL for the leader alone.
KillLeader ==
  /\ LoopTurn
  /\ ~NoSuchGroup
  /\ deadline = "passed"
  /\ cleanup' = "reaping"
  /\ doomed' = doomed \union {Leader}
  /\ UNCHANGED <<proc, returncode, deadline, callerVars>>

\* Faulty: goes on waiting after the deadline.
KillNever ==
  /\ LoopTurn
  /\ ~NoSuchGroup
  /\ deadline = "passed"
  /\ cleanup' = "sleeping"
  /\ UNCHANGED <<proc, doomed, returncode, deadline, callerVars>>

\* Faulty: signals the members one by one, and stops at the first that may not
\* be signalled.
KillEach ==
  /\ LoopTurn
  /\ ~NoSuchGroup
  /\ deadline = "passed"
  /\ IF Group \intersect Protected # {}
     THEN cleanup' = "failed" /\ UNCHANGED doomed
     ELSE cleanup' = "reaping" /\ doomed' = doomed \union Group
  /\ UNCHANGED <<proc, returncode, deadline, callerVars>>

\* Members are left and time is up: SIGKILL, then out of the loop.  Again
\* PermissionError is not caught.
Kill ==
  /\ LoopTurn
  /\ ~NoSuchGroup
  /\ deadline = "passed"
  /\ IF NotPermitted
     THEN cleanup' = "failed" /\ UNCHANGED doomed
     ELSE cleanup' = "reaping" /\ doomed' = doomed \union (Group \ Protected)
  /\ UNCHANGED <<proc, returncode, deadline, callerVars>>

\* The last wait for the leader.
Finish ==
  /\ cleanup = "reaping"
  /\ returncode
  /\ cleanup' = "done"
  /\ UNCHANGED <<osVars, deadline, callerVars>>

-----------------------------------------------------------------------------
(* The caller, in the shield loop of stop_process_group.                   *)

Cancel ==
  /\ caller = "waiting"
  /\ requests < MaxCancels
  /\ requests' = requests + 1
  /\ interrupt' = TRUE
  /\ UNCHANGED <<osVars, taskVars, caller, cancellation>>

\* cleanup.result(), then the recorded cancellation, if any.
Ending(cancelled) ==
  IF cleanup = "failed" THEN "failed" ELSE IF cancelled THEN "cancelled" ELSE "returned"

\* Faulty: does not record the cancellation.
CatchAndForget ==
  /\ caller = "waiting"
  /\ interrupt
  /\ interrupt' = FALSE
  /\ caller' = IF Finished THEN Ending(cancellation) ELSE "waiting"
  /\ UNCHANGED <<osVars, taskVars, cancellation, requests>>

\* Faulty: leaves with the first cancellation.
CatchAndLeave ==
  /\ caller = "waiting"
  /\ interrupt
  /\ interrupt' = FALSE
  /\ cancellation' = TRUE
  /\ caller' = "cancelled"
  /\ UNCHANGED <<osVars, taskVars, requests>>

\* The await raises CancelledError: it is recorded, and the loop goes on
\* unless the clean-up task is done.
CatchCancel ==
  /\ caller = "waiting"
  /\ interrupt
  /\ interrupt' = FALSE
  /\ cancellation' = TRUE
  /\ caller' = IF Finished THEN Ending(TRUE) ELSE "waiting"
  /\ UNCHANGED <<osVars, taskVars, requests>>

\* The await returns: the clean-up task is done.
Wake ==
  /\ caller = "waiting"
  /\ ~interrupt
  /\ Finished
  /\ caller' = Ending(cancellation)
  /\ UNCHANGED <<osVars, taskVars, interrupt, cancellation, requests>>

-----------------------------------------------------------------------------
System ==
  \/ \E p \in Procs, c \in Descendants : Fork(p, c)
  \/ \E p \in Procs : Exit(p) \/ Reap(p)
  \/ StoreReturncode
  \/ DeadlinePasses

CleanupTask == Terminate \/ GroupGone \/ SleepMore \/ Kill \/ Finish

CallerTask == CatchCancel \/ Wake

Next == System \/ CleanupTask \/ CallerTask \/ Cancel

(***************************************************************************)
(* Fairness: the event loop runs ready tasks, clocks advance, a process    *)
(* that was sent SIGKILL exits, and the child watcher reaps the leader and *)
(* stores its returncode.  Nothing makes a process obey SIGTERM or reap    *)
(* its children.                                                           *)
(***************************************************************************)
Fairness ==
  /\ WF_vars(CleanupTask)
  /\ WF_vars(CallerTask)
  /\ WF_vars(DeadlinePasses)
  /\ \A p \in Procs : WF_vars(p \in doomed /\ Exit(p))
  /\ WF_vars(Reap(Leader))
  /\ WF_vars(StoreReturncode)

Safety == Init /\ [][Next]_vars
Spec == Safety /\ Fairness

-----------------------------------------------------------------------------
(* Properties.                                                             *)

\* Of the processes our signals reach, none runs without a SIGKILL pending.
Harmless == Running \subseteq doomed \union Protected

\* However often the caller is cancelled, it leaves stop_process_group only
\* when no process of the group that our signals can reach runs on without a
\* SIGKILL pending; unless it leaves with PermissionError, the leader was reaped
\* and its returncode is known (processes.py:46-47, 57-62).
StopComplete ==
  caller # "waiting" => Harmless /\ (caller # "failed" => returncode)

\* A cancellation of the caller is neither lost nor made up: the call ends with
\* CancelledError exactly when somebody cancelled it (processes.py:56-64).
CancellationKept ==
  caller \in {"returned", "cancelled"} => (caller = "cancelled" <=> requests > 0)

\* PermissionError leaves the call only when the leader itself is gone and a
\* process out of our reach was in the group (processes.py:28-29, 41-42).
FailsForProtectedOnly ==
  caller = "failed" => proc[Leader] = "gone" /\ \E p \in Protected : proc[p] # "unborn"

PastTheLoop == cleanup = "reaping" \/ cleanup = "done"

\* Nothing escapes between the last look at the group and the end of the call:
\* from the moment the loop is left, no process our signals reach comes to life,
\* although the group is not signalled again (processes.py:38-47).
NothingEscapes == [][PastTheLoop => Running' \subseteq (Running \union Protected)]_vars

\* The call ends, even if the group ignores SIGTERM, forks on, and is never
\* reaped by its parents.
CallEnds == <>(caller # "waiting")

\* Whatever the clean-up task gave up waiting for does end.
GroupEnds == Finished ~> (Running \subseteq Protected)

\* What is held until the call may end: a process that our signals reach and
\* that can still run on, or a leader whose returncode is unknown.
Held == ~Harmless \/ ~returncode

\* PermissionError is no end the promise knows: the call then never left.
Seen == IF caller = "failed" THEN "waiting" ELSE caller

\* stop_process_group implements the safety part of the promise of Teardown: it
\* neither returns nor reports a cancellation while something is held, whatever
\* the group contains (processes.py:50-64).
Promise == INSTANCE Teardown WITH held <- Held, caller <- Seen, asked <- requests > 0

PromiseKept == Promise!Safety
=============================================================================
