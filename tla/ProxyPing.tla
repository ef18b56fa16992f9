------------------------------ MODULE ProxyPing ------------------------------
(***************************************************************************)
(* proxy_ping_cli.py: run_proxy_ping, the command "vpnprobe ping" for an   *)
(* MTProto proxy, and proxy_ping_worker.py, the helper process it runs.    *)
(* The runner is one task: it starts the helper, reads its output under an *)
(* asyncio.timeout, stops what is left of it and passes its status on.     *)
(*                                                                         *)
(* The helper makes one TdJson.ping (module TdPing tells what that does):  *)
(* a set-up and a test, each with a deadline of "Timeout" of its own.      *)
(* Time is counted in ticks, from the moment the runner's timer starts; a  *)
(* tick is spent either within a deadline of the helper or outside of them *)
(* ("slow"): while the interpreter and the library are loaded, while a     *)
(* library call is late, while the answer is written.                      *)
(***************************************************************************)
EXTENDS Naturals

CONSTANTS
  Timeout,       \* the ping's timeout
  StopTimeout,   \* settings.process_stop_timeout
  MaxCancels     \* bound: how often the task is cancelled by others

ASSUME TimeoutsAssumption == Timeout \in Nat \ {0} /\ StopTimeout \in Nat
ASSUME CancelsAssumption == MaxCancels \in Nat

VARIABLES
  pc,           \* where the task is
  error,        \* the exception it is handling or has raised, or "none"
  interrupt,    \* a CancelledError will be thrown at its next step
  requests,     \* how often others cancelled the task
  cancelling,   \* Task.cancelling(): cancel() calls not taken back by uncancel()
  timer,        \* the timeout that is open: "off", "armed", "fired"
  code,         \* the exit code, "none" yet, or "raised" for an exception
  helper,       \* what the helper process is doing
  answer,       \* its exit status, as soon as that is decided
  left,         \* ticks until the runner's timer goes off
  budget,       \* ticks until the helper's current deadline
  slow          \* ticks spent outside of the helper's deadlines

proxyTaskVars == <<pc, error, interrupt, requests, cancelling, timer, code>>
helperVars == <<helper, answer>>
clockVars == <<left, budget, slow>>
proxyVars == <<proxyTaskVars, helperVars, clockVars>>

Alive == {"starting", "preparing", "testing", "finishing"}

\* maximum_runtime + settings.process_stop_timeout
Limit == 2 * Timeout + StopTimeout

ProxyTypeOK ==
  /\ pc \in {"launch", "launching", "communicating", "collecting", "end"}
  /\ error \in {"none", "OSError", "TimeoutError", "CancelledError"}
  /\ interrupt \in BOOLEAN
  /\ requests \in 0 .. MaxCancels
  /\ cancelling \in Nat
  /\ timer \in {"off", "armed", "fired"}
  /\ code \in {"none", "0", "1", "raised"}
  /\ helper \in Alive \union {"none", "exited", "killed"}
  /\ answer \in {"none", "0", "1", "other"}
  /\ left \in 0 .. Limit
  /\ budget \in 0 .. Timeout
  /\ slow \in 0 .. Limit
  /\ timer # "off" => pc = "communicating"
  /\ pc = "end" => code # "none"

ProxyInit ==
  /\ pc = "launch"
  /\ error = "none"
  /\ interrupt = FALSE
  /\ requests = 0
  /\ cancelling = 0
  /\ timer = "off"
  /\ code = "none"
  /\ helper = "none"
  /\ answer = "none"
  /\ left = 0
  /\ budget = 0
  /\ slow = 0

-----------------------------------------------------------------------------
(* The runner.                                                             *)

\* The exception e leaves run_proxy_ping.
Raises(e) ==
  /\ pc' = "end"
  /\ error' = e
  /\ code' = "raised"

LaunchFails ==
  /\ pc = "launch"
  /\ Raises("OSError")
  /\ UNCHANGED <<interrupt, requests, cancelling, timer, helperVars, clockVars>>

Launch ==
  /\ pc = "launch"
  /\ pc' = "launching"
  /\ helper' = "starting"
  /\ UNCHANGED <<error, interrupt, requests, cancelling, timer, code, answer, clockVars>>

\* create_subprocess_exec is outside of the try block; asyncio kills the process.
LaunchInterrupted ==
  /\ pc = "launching"
  /\ interrupt
  /\ interrupt' = FALSE
  /\ Raises("CancelledError")
  /\ helper' = IF helper \in Alive THEN "killed" ELSE helper
  /\ UNCHANGED <<requests, cancelling, timer, answer, clockVars>>

\* Faulty: the helper's timeout taken once.
LaunchedOnce ==
  /\ pc = "launching"
  /\ ~interrupt
  /\ pc' = "communicating"
  /\ timer' = "armed"
  /\ left' = Timeout + StopTimeout
  /\ UNCHANGED <<error, interrupt, requests, cancelling, code, helperVars, budget, slow>>

Launched ==
  /\ pc = "launching"
  /\ ~interrupt
  /\ pc' = "communicating"
  /\ timer' = "armed"
  /\ left' = Limit
  /\ UNCHANGED <<error, interrupt, requests, cancelling, code, helperVars, budget, slow>>

\* Both pipes are at their end and the helper has exited.
Communicated ==
  /\ pc = "communicating"
  /\ ~interrupt
  /\ helper = "exited"
  /\ pc' = "collecting"
  /\ timer' = "off"
  /\ UNCHANGED <<error, interrupt, requests, cancelling, code, helperVars, clockVars>>

\* Faulty: whoever cancelled, it counts as the timeout.
CommunicateTimesOut ==
  /\ pc = "communicating"
  /\ interrupt
  /\ interrupt' = FALSE
  /\ timer' = "off"
  /\ cancelling' = IF timer = "fired" THEN cancelling - 1 ELSE cancelling
  /\ pc' = "collecting"
  /\ error' = "TimeoutError"
  /\ code' = "1"
  /\ UNCHANGED <<requests, helperVars, clockVars>>

\* CancelledError at communicate.  The timeout takes its own cancel() back, and
\* only if there was no other one it is a TimeoutError, with "return 1".
CommunicateInterrupted ==
  /\ pc = "communicating"
  /\ interrupt
  /\ LET others == IF timer = "fired" THEN cancelling - 1 ELSE cancelling
         own == timer = "fired" /\ others = 0
     IN /\ cancelling' = others
        /\ error' = IF own THEN "TimeoutError" ELSE "CancelledError"
        /\ code' = IF own THEN "1" ELSE "raised"
  /\ interrupt' = FALSE
  /\ timer' = "off"
  /\ pc' = "collecting"
  /\ UNCHANGED <<requests, helperVars, clockVars>>

\* Faulty: the group is stopped only after an exception that was not handled.
CollectHandled ==
  /\ pc = "collecting"
  /\ ~interrupt
  /\ pc' = "end"
  /\ helper' = IF helper \in Alive /\ code # "1" THEN "killed" ELSE helper
  /\ code' = IF code # "none" THEN code ELSE IF answer = "0" THEN "0" ELSE "1"
  /\ UNCHANGED <<error, interrupt, requests, cancelling, timer, answer, clockVars>>

\* stop_process_group has returned in the finally block: whatever it found of
\* the helper is gone.  Any status but 0 becomes 1.
Collect ==
  /\ pc = "collecting"
  /\ ~interrupt
  /\ pc' = "end"
  /\ helper' = IF helper \in Alive THEN "killed" ELSE helper
  /\ code' = IF code # "none" THEN code ELSE IF answer = "0" THEN "0" ELSE "1"
  /\ UNCHANGED <<error, interrupt, requests, cancelling, timer, answer, clockVars>>

\* stop_process_group notes a CancelledError and raises it when it is done,
\* in place of the status that was to be returned.
CollectInterrupted ==
  /\ pc = "collecting"
  /\ interrupt
  /\ interrupt' = FALSE
  /\ error' = "CancelledError"
  /\ code' = "raised"
  /\ UNCHANGED <<pc, requests, cancelling, timer, helperVars, clockVars>>

Runner ==
  \/ LaunchFails \/ Launch \/ LaunchInterrupted \/ Launched
  \/ Communicated \/ CommunicateInterrupted \/ Collect \/ CollectInterrupted

-----------------------------------------------------------------------------
(* The helper: main and ping_once of the worker, with TdJson.ping.         *)

\* The library is loaded and the client created: the set-up has a deadline.
Loaded ==
  /\ helper = "starting"
  /\ helper' = "preparing"
  /\ budget' = Timeout
  /\ UNCHANGED <<proxyTaskVars, answer, left, slow>>

\* Both set-up requests are granted: the tests have a deadline of their own.
SetUp ==
  /\ helper = "preparing"
  /\ helper' = "testing"
  /\ budget' = Timeout
  /\ UNCHANGED <<proxyTaskVars, answer, left, slow>>

\* A data centre answered.
Tested ==
  /\ helper = "testing"
  /\ helper' = "finishing"
  /\ answer' = "0"
  /\ UNCHANGED <<proxyTaskVars, clockVars>>

\* An unusable URL, no library, a refusal, a deadline that passed: status 1, as
\* an exception ping_once does not catch has it too.
HelperFails ==
  /\ helper \in Alive \ {"finishing"}
  /\ helper' = "finishing"
  /\ answer' = "1"
  /\ UNCHANGED <<proxyTaskVars, clockVars>>

\* The answer is printed: os._exit.
Exits ==
  /\ helper = "finishing"
  /\ helper' = "exited"
  /\ UNCHANGED <<proxyTaskVars, answer, clockVars>>

\* A signal, or argparse: any other status.
Crashes ==
  /\ helper \in Alive
  /\ helper' = "exited"
  /\ answer' = "other"
  /\ UNCHANGED <<proxyTaskVars, clockVars>>

Helper == Loaded \/ SetUp \/ Tested \/ HelperFails \/ Exits \/ Crashes

-----------------------------------------------------------------------------
(* Time and cancellation.                                                  *)

\* The helper waits for TDLib, before its deadline.
TickInTime ==
  /\ timer = "armed"
  /\ left > 0
  /\ helper \in {"preparing", "testing"}
  /\ budget > 0
  /\ budget' = budget - 1
  /\ left' = left - 1
  /\ UNCHANGED <<proxyTaskVars, helperVars, slow>>

TickSlow ==
  /\ timer = "armed"
  /\ left > 0
  /\ helper \in Alive
  /\ slow' = slow + 1
  /\ left' = left - 1
  /\ UNCHANGED <<proxyTaskVars, helperVars, budget>>

TimerGoesOff ==
  /\ pc = "communicating"
  /\ timer = "armed"
  /\ left = 0
  /\ timer' = "fired"
  /\ interrupt' = TRUE
  /\ cancelling' = cancelling + 1
  /\ UNCHANGED <<pc, error, requests, code, helperVars, clockVars>>

CancelProxy ==
  /\ pc \in {"launching", "communicating", "collecting"}
  /\ requests < MaxCancels
  /\ requests' = requests + 1
  /\ interrupt' = TRUE
  /\ cancelling' = cancelling + 1
  /\ UNCHANGED <<pc, error, timer, code, helperVars, clockVars>>

ProxyNext ==
  Runner \/ Helper \/ TickInTime \/ TickSlow \/ TimerGoesOff \/ CancelProxy

\* The event loop runs and time passes.  Nothing is asked of the helper.
ProxyFairness ==
  /\ WF_proxyVars(LaunchFails \/ Launch \/ LaunchInterrupted \/ Launched)
  /\ WF_proxyVars(Communicated \/ CommunicateInterrupted)
  /\ WF_proxyVars(Collect \/ CollectInterrupted)
  /\ WF_proxyVars(TickInTime \/ TickSlow)
  /\ WF_proxyVars(TimerGoesOff)

ProxySpec == ProxyInit /\ [][ProxyNext]_proxyVars /\ ProxyFairness

-----------------------------------------------------------------------------
(* Properties.                                                             *)

\* A helper that keeps its deadlines, and needs less than StopTimeout for all the
\* rest, is never cut off by the runner's limit (proxy_ping_cli.py:36-37).
AnswerAwaited ==
  helper # "none" /\ error = "TimeoutError" => slow >= StopTimeout

\* When the runner ends, the helper has; a status 0 is the helper's own; and
\* CancelledError leaves the runner exactly when it was cancelled, not for its
\* own limit, whatever the helper answered meanwhile.
ProxyOutcome ==
  pc = "end" =>
    /\ helper \notin Alive
    /\ code = "0" => answer = "0" /\ helper = "exited"
    /\ error = "CancelledError" /\ code = "raised" <=> requests > 0
=============================================================================
