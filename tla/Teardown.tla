------------------------------ MODULE Teardown ------------------------------
(***************************************************************************)
(* What every "stop" operation of vpnprobe promises its caller, whatever   *)
(* the operation is made of (stop_process_group in processes.py,           *)
(* Tunnel.stop in xray.py, _stop_tunnel in verification.py):               *)
(*   - the caller stays in the call until what it asked to stop is         *)
(*     released, however often the caller is cancelled meanwhile;          *)
(*   - a cancellation is neither lost nor made up: the call ends with      *)
(*     CancelledError exactly when the caller was cancelled in it;         *)
(*   - the call does end.                                                  *)
(***************************************************************************)

VARIABLES
  held,     \* is what the call must release still held?
  caller,   \* "waiting" in the call, or how the call ended
  asked     \* has the caller been cancelled while it waited?

tvars == <<held, caller, asked>>

TypeOK ==
  /\ held \in BOOLEAN
  /\ caller \in {"waiting", "returned", "cancelled"}
  /\ asked \in BOOLEAN

\* The resource may already have been released by itself (a process that
\* exited before anybody stopped it).
Init ==
  /\ held \in BOOLEAN
  /\ caller = "waiting"
  /\ asked = FALSE

\* Somebody cancels the task that waits in the call.
Ask ==
  /\ caller = "waiting"
  /\ asked' = TRUE
  /\ UNCHANGED <<held, caller>>

Release ==
  /\ held
  /\ held' = FALSE
  /\ UNCHANGED <<caller, asked>>

Leave ==
  /\ caller = "waiting"
  /\ ~held
  /\ caller' = IF asked THEN "cancelled" ELSE "returned"
  /\ UNCHANGED <<held, asked>>

Next == Ask \/ Release \/ Leave

Safety == Init /\ [][Next]_tvars

Spec == Safety /\ WF_tvars(Release) /\ WF_tvars(Leave)
=============================================================================
