------------------------- MODULE ProcessGroupProofs -------------------------
(***************************************************************************)
(* Proofs about ProcessGroup, for any leader, descendants, protected       *)
(* processes and number of cancellations: the type invariant, the safety   *)
(* invariants and action properties the runs check, and that               *)
(* stop_process_group implements the safety part of Teardown.              *)
(***************************************************************************)
EXTENDS ProcessGroup, TLAPS

\* From the end of the loop, or PermissionError, no process our signals reach
\* can run on: the forks of the others are out of reach as well.
LoopInv == PastTheLoop \/ cleanup = "failed" => Harmless

\* The clean-up task fails only when the leader is gone while a protected
\* process was in the group.
OutcomeInv ==
  cleanup = "failed" => proc[Leader] = "gone" /\ \E p \in Protected : proc[p] # "unborn"

\* The caller leaves only with the clean-up task's end.
CallerInv ==
  /\ caller # "waiting" => Finished
  /\ caller = "failed" => cleanup = "failed"
  /\ caller \in {"returned", "cancelled"} => cleanup = "done"

\* Every cancellation is still to be thrown, or recorded, or reported.
RequestInv ==
  /\ caller = "waiting" => (requests > 0 <=> interrupt \/ cancellation)
  /\ caller = "returned" => requests = 0
  /\ caller = "cancelled" => requests > 0

IInv ==
  /\ TypeOK
  /\ proc[Leader] # "unborn"
  /\ LoopInv
  /\ OutcomeInv
  /\ CallerInv
  /\ RequestInv

-----------------------------------------------------------------------------
(* The type invariant.                                                     *)

LEMMA InitTypeOK == Init => TypeOK
<1> SUFFICES ASSUME Init PROVE TypeOK
  OBVIOUS
<1>1. requests \in 0 .. MaxCancels
  BY CancelsAssumption DEF Init
<1> QED
  BY <1>1 DEF Init, TypeOK

LEMMA NextTypeOK == TypeOK /\ [Next]_vars => TypeOK'
<1> SUFFICES ASSUME TypeOK, [Next]_vars PROVE TypeOK'
  OBVIOUS
<1> USE DEF TypeOK
<1>1. ASSUME NEW p \in Procs, NEW c \in Descendants, Fork(p, c) PROVE TypeOK'
  BY <1>1 DEF Fork, Procs, taskVars, callerVars
<1>2. ASSUME NEW p \in Procs, Exit(p) PROVE TypeOK'
  BY <1>2 DEF Exit, taskVars, callerVars
<1>3. ASSUME NEW p \in Procs, Reap(p) PROVE TypeOK'
  BY <1>3 DEF Reap, taskVars, callerVars
<1>4. CASE StoreReturncode
  BY <1>4 DEF StoreReturncode, taskVars, callerVars
<1>5. CASE DeadlinePasses
  BY <1>5 DEF DeadlinePasses, osVars, callerVars
<1>6. CASE Terminate
  BY <1>6 DEF Terminate, osVars, callerVars
<1>7. CASE GroupGone
  BY <1>7 DEF GroupGone, osVars, callerVars
<1>8. CASE SleepMore
  BY <1>8 DEF SleepMore, osVars, callerVars
<1>9. CASE Kill
  BY <1>9 DEF Kill, Group, callerVars
<1>10. CASE Finish
  BY <1>10 DEF Finish, osVars, callerVars
<1>11. CASE CatchCancel
  BY <1>11 DEF CatchCancel, Ending, osVars, taskVars
<1>12. CASE Wake
  BY <1>12 DEF Wake, Ending, osVars, taskVars
<1>13. CASE Cancel
  BY <1>13, CancelsAssumption DEF Cancel, osVars, taskVars
<1>14. CASE UNCHANGED vars
  BY <1>14 DEF vars, osVars, taskVars, callerVars
<1> QED
  BY <1>1, <1>2, <1>3, <1>4, <1>5, <1>6, <1>7, <1>8, <1>9, <1>10, <1>11, <1>12,
     <1>13, <1>14
     DEF Next, System, CleanupTask, CallerTask

\* Every variable keeps its type, whatever the operating system does.
THEOREM TypeCorrect == Spec => []TypeOK
BY InitTypeOK, NextTypeOK, PTL DEF Spec, Safety

-----------------------------------------------------------------------------
(* The inductive invariant.                                                *)

LEMMA InitInv == Init => IInv
BY InitTypeOK
   DEF Init, IInv, LoopInv, PastTheLoop, OutcomeInv, CallerInv, RequestInv

\* A process that is gone stays gone, one that was born stays born, and none
\* of the system's steps brings a harmful process into a harmless group.
LEMMA SystemStep ==
  ASSUME IInv, System
  PROVE  /\ proc[Leader] # "unborn" => (proc[Leader])' # "unborn"
         /\ proc[Leader] = "gone" => (proc[Leader])' = "gone"
         /\ \A p \in Procs : proc[p] # "unborn" => (proc[p])' # "unborn"
         /\ Harmless => Harmless'
         /\ returncode => returncode'
         /\ UNCHANGED <<doomed, cleanup, callerVars>>
<1> DEFINE Goal == /\ proc[Leader] # "unborn" => (proc[Leader])' # "unborn"
                   /\ proc[Leader] = "gone" => (proc[Leader])' = "gone"
                   /\ \A p \in Procs : proc[p] # "unborn" => (proc[p])' # "unborn"
                   /\ Harmless => Harmless'
                   /\ returncode => returncode'
                   /\ UNCHANGED <<doomed, cleanup, callerVars>>
<1> TypeOK
  BY DEF IInv
<1> USE LeaderAssumption, ProtectedAssumption
    DEF TypeOK, Harmless, Running, Procs, callerVars
<1>1. ASSUME NEW p \in Procs, NEW c \in Descendants, Fork(p, c) PROVE Goal
  BY <1>1 DEF Fork, taskVars
<1>2. ASSUME NEW p \in Procs, Exit(p) PROVE Goal
  BY <1>2 DEF Exit, taskVars
<1>3. ASSUME NEW p \in Procs, Reap(p) PROVE Goal
  BY <1>3 DEF Reap, taskVars
<1>4. CASE StoreReturncode
  BY <1>4 DEF StoreReturncode, taskVars
<1>5. CASE DeadlinePasses
  BY <1>5 DEF DeadlinePasses, osVars
<1> QED
  BY <1>1, <1>2, <1>3, <1>4, <1>5 DEF System

\* The clean-up task leaves the loop, or fails, with a harmless group.
LEMMA CleanupStep ==
  ASSUME IInv, CleanupTask
  PROVE  LoopInv' /\ OutcomeInv' /\ UNCHANGED <<proc, returncode, callerVars>>
         /\ (Finished => Finished' /\ cleanup' = cleanup)
<1> DEFINE Goal == LoopInv' /\ OutcomeInv' /\ UNCHANGED <<proc, returncode, callerVars>>
                   /\ (Finished => Finished' /\ cleanup' = cleanup)
<1> TypeOK /\ proc[Leader] # "unborn" /\ LoopInv /\ OutcomeInv
  BY DEF IInv
<1> Leader \in Procs /\ Leader \notin Protected /\ Protected \subseteq Procs
  BY LeaderAssumption, ProtectedAssumption DEF Procs
<1> USE DEF TypeOK, LoopInv, OutcomeInv, PastTheLoop, Harmless, Running, Group, Finished,
            osVars, callerVars
<1>1. CASE Terminate
  <2>1. NotPermitted => /\ Running \subseteq Protected
                        /\ proc[Leader] = "gone"
                        /\ \E p \in Protected : proc[p] # "unborn"
    BY DEF NotPermitted
  <2> QED
    BY <1>1, <2>1 DEF Terminate
<1>2. CASE GroupGone
  BY <1>2 DEF GroupGone, NoSuchGroup, LoopTurn
<1>3. CASE SleepMore
  BY <1>3 DEF SleepMore, LoopTurn
<1>4. CASE Kill
  <2>1. NotPermitted => /\ Running \subseteq Protected
                        /\ proc[Leader] = "gone"
                        /\ \E p \in Protected : proc[p] # "unborn"
    BY DEF NotPermitted
  <2> QED
    BY <1>4, <2>1 DEF Kill, LoopTurn
<1>5. CASE Finish
  BY <1>5 DEF Finish
<1> QED
  BY <1>1, <1>2, <1>3, <1>4, <1>5 DEF CleanupTask

\* The caller's steps and its cancellations leave the clean-up alone.
LEMMA CallerStep ==
  ASSUME IInv, CallerTask \/ Cancel
  PROVE  CallerInv' /\ RequestInv' /\ UNCHANGED <<osVars, taskVars>>
<1> TypeOK /\ CallerInv /\ RequestInv
  BY DEF IInv
<1> USE CancelsAssumption
    DEF TypeOK, CallerInv, RequestInv, Finished, Ending, osVars, taskVars
<1>1. CASE CatchCancel
  BY <1>1 DEF CatchCancel
<1>2. CASE Wake
  BY <1>2 DEF Wake
<1>3. CASE Cancel
  BY <1>3 DEF Cancel
<1> QED
  BY <1>1, <1>2, <1>3 DEF CallerTask

LEMMA NextInv == IInv /\ [Next]_vars => IInv'
<1> SUFFICES ASSUME IInv, [Next]_vars PROVE IInv'
  OBVIOUS
<1>1. TypeOK'
  BY NextTypeOK DEF IInv
<1> Leader \in Procs /\ Protected \subseteq Procs
  BY ProtectedAssumption DEF Procs
<1>2. CASE System
  <2>1. (proc[Leader])' # "unborn"
    BY <1>2, SystemStep DEF IInv
  <2>2. LoopInv'
    BY <1>2, SystemStep DEF IInv, LoopInv, PastTheLoop
  <2>3. OutcomeInv'
    BY <1>2, SystemStep DEF IInv, OutcomeInv
  <2>4. CallerInv' /\ RequestInv'
    BY <1>2, SystemStep DEF IInv, CallerInv, RequestInv, Finished, callerVars
  <2> QED
    BY <1>1, <2>1, <2>2, <2>3, <2>4 DEF IInv
<1>3. CASE CleanupTask
  <2>1. CallerInv' /\ RequestInv'
    BY <1>3, CleanupStep DEF IInv, CallerInv, RequestInv, Finished, callerVars
  <2> QED
    BY <1>1, <1>3, <2>1, CleanupStep DEF IInv
<1>4. CASE CallerTask \/ Cancel
  <2>1. LoopInv' /\ OutcomeInv' /\ (proc[Leader])' # "unborn"
    BY <1>4, CallerStep
       DEF IInv, LoopInv, OutcomeInv, PastTheLoop, Harmless, Running, osVars, taskVars
  <2> QED
    BY <1>1, <1>4, <2>1, CallerStep DEF IInv
<1>5. CASE UNCHANGED vars
  BY <1>1, <1>5
     DEF IInv, LoopInv, OutcomeInv, CallerInv, RequestInv, PastTheLoop, Harmless,
         Running, Finished, vars, osVars, taskVars, callerVars
<1> QED
  BY <1>2, <1>3, <1>4, <1>5 DEF Next

LEMMA Invariance == Spec => []IInv
BY InitInv, NextInv, PTL DEF Spec, Safety

-----------------------------------------------------------------------------
(* What the call promises.                                                 *)

\* However often it is cancelled, the caller leaves stop_process_group only
\* when no process our signals reach can run on, for groups of any size.
THEOREM StopIsComplete == Spec => []StopComplete
<1>1. IInv => StopComplete
  BY DEF IInv, StopComplete, CallerInv, LoopInv, OutcomeInv, PastTheLoop, Finished, TypeOK
<1> QED
  BY <1>1, Invariance, PTL

\* A cancellation is reported exactly when there was one, for any number.
THEOREM CancellationIsKept == Spec => []CancellationKept
<1>1. IInv => CancellationKept
  BY DEF IInv, CancellationKept, RequestInv
<1> QED
  BY <1>1, Invariance, PTL

\* PermissionError leaves the call only for processes out of our reach.
THEOREM FailureIsForProtected == Spec => []FailsForProtectedOnly
<1>1. IInv => FailsForProtectedOnly
  BY DEF IInv, FailsForProtectedOnly, CallerInv, OutcomeInv
<1> QED
  BY <1>1, Invariance, PTL

\* Once the loop is left, no process our signals reach comes to life.
THEOREM NothingDoesEscape == Spec => NothingEscapes
<1>1. IInv /\ IInv' /\ [Next]_vars
        => [PastTheLoop => Running' \subseteq (Running \union Protected)]_vars
  <2> SUFFICES ASSUME IInv, Next, PastTheLoop
               PROVE  Running' \subseteq (Running \union Protected)
    OBVIOUS
  <2> Harmless /\ TypeOK
    BY DEF IInv, LoopInv
  <2> USE DEF Harmless, Running, TypeOK, Procs
  <2>1. ASSUME NEW p \in Procs, NEW c \in Descendants, Fork(p, c)
        PROVE  Running' \subseteq (Running \union Protected)
    BY <2>1 DEF Fork
  <2>2. ASSUME NEW p \in Procs, Exit(p) \/ Reap(p)
        PROVE  Running' \subseteq (Running \union Protected)
    BY <2>2 DEF Exit, Reap
  <2>3. CASE StoreReturncode \/ DeadlinePasses
    BY <2>3 DEF StoreReturncode, DeadlinePasses, osVars
  <2>4. CASE CleanupTask
    BY <2>4, CleanupStep DEF IInv
  <2>5. CASE CallerTask \/ Cancel
    BY <2>5, CallerStep DEF osVars
  <2> QED
    BY <2>1, <2>2, <2>3, <2>4, <2>5 DEF Next, System
<1> QED
  BY <1>1, Invariance, PTL DEF Spec, Safety, NothingEscapes

-----------------------------------------------------------------------------
(* Refinement.                                                             *)

\* Once every process within reach is doomed and the returncode is known, it stays
\* so: doomed processes do not fork, and the forks of the others are out of reach.
LEMMA HeldStep ==
  ASSUME IInv, [Next]_vars
  PROVE  Held \/ ~Held'
<1> SUFFICES ASSUME Harmless, returncode PROVE Harmless' /\ returncode'
  BY DEF Held
<1>1. CASE System
  BY <1>1, SystemStep
<1>2. CASE CleanupTask
  <2>1. UNCHANGED <<proc, returncode>>
    BY <1>2, CleanupStep
  <2>2. doomed \subseteq doomed'
    BY <1>2 DEF CleanupTask, Terminate, GroupGone, SleepMore, Kill, Finish, osVars
  <2> QED
    BY <2>1, <2>2 DEF Harmless, Running
<1>3. CASE CallerTask \/ Cancel
  BY <1>3, CallerStep DEF osVars, Harmless, Running
<1>4. CASE UNCHANGED vars
  BY <1>4 DEF vars, osVars, Harmless, Running
<1> QED
  BY <1>1, <1>2, <1>3, <1>4 DEF Next

LEMMA InitPromise == Init => Promise!Init
BY DEF Init, Promise!Init, Held, Seen

\* Each step is a step of Teardown or a stutter: what is not the caller's may
\* release, a cancellation asks, and the caller leaves with nothing held unless
\* PermissionError ends the call.
LEMMA NextPromise ==
  ASSUME IInv, IInv', [Next]_vars
  PROVE  [Promise!Next]_(Promise!tvars)
<1> Held \in BOOLEAN /\ Held' \in BOOLEAN
  BY DEF Held, IInv, TypeOK
<1> Held \/ ~Held'
  BY HeldStep
<1> USE DEF Promise!Next, Promise!tvars, Promise!Ask, Promise!Release, Promise!Leave
<1>1. CASE UNCHANGED <<caller, requests>>
  <2>1. Seen' = Seen
    BY <1>1 DEF Seen
  <2> QED
    BY <1>1, <2>1
<1>2. CASE Cancel
  <2>1. Held' = Held
    BY <1>2 DEF Cancel, Held, Harmless, Running, osVars
  <2>2. requests' > 0
    BY <1>2, CancelsAssumption DEF Cancel, IInv, TypeOK
  <2> QED
    BY <1>2, <2>1, <2>2 DEF Cancel, Seen
<1>3. CASE CatchCancel \/ Wake
  <2>1. Held' = Held /\ requests' = requests
    BY <1>3 DEF CatchCancel, Wake, Held, Harmless, Running, osVars
  <2>2. caller = "waiting"
    BY <1>3 DEF CatchCancel, Wake
  <2>3. CASE caller' \in {"waiting", "failed"}
    BY <2>1, <2>2, <2>3 DEF Seen
  <2>4. CASE caller' \notin {"waiting", "failed"}
    <3>1. cleanup = "done"
      BY <1>3, <2>2, <2>4 DEF CatchCancel, Wake, Ending, Finished
    <3>2. ~Held
      BY <3>1 DEF IInv, TypeOK, LoopInv, PastTheLoop, Held
    <3>3. caller' = IF requests > 0 THEN "cancelled" ELSE "returned"
      BY <1>3, <2>4, <3>1 DEF CatchCancel, Wake, Ending, IInv, RequestInv
    <3> QED
      BY <2>1, <2>2, <3>2, <3>3 DEF Seen
  <2> QED
    BY <2>3, <2>4
<1> QED
  BY <1>1, <1>2, <1>3
     DEF Next, System, Fork, Exit, Reap, StoreReturncode, DeadlinePasses, CleanupTask,
         Terminate, GroupGone, SleepMore, Kill, Finish, CallerTask, callerVars, vars

\* stop_process_group implements the safety part of the abstract teardown, for
\* groups of any size, with any of their processes out of reach.
THEOREM PromiseIsKept == Spec => PromiseKept
<1>1. IInv /\ IInv' /\ [Next]_vars => [Promise!Next]_(Promise!tvars)
  BY NextPromise
<1> QED
  BY <1>1, InitPromise, Invariance, PTL DEF Spec, Safety, PromiseKept, Promise!Safety
=============================================================================
