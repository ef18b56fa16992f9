# vpnprobe in TLA+

This directory is a model of [vpnprobe](../src/README.md), a Python program that decides whether a VPN
configuration works: it starts a VPN client, sends a few requests through it, and stops it again.  The
program looks small and sequential, but it is written for asyncio: nested timeouts, cancellation that may
arrive at any `await`, helper tasks and threads, and processes that do not obey.  The model is about that
part.  Paths below are relative to `src/src/vpnprobe/`, unless they begin with `tests/` or name README.md,
which are those of the repository.

To check a run: `tlc -config <cfg> <module>`, with the pairs of the table of runs; to check the proofs:
`tlapm` on each of ProcessGroupProofs, TunnelProofs, VerifyKeyProofs, SubscriptionProofs, TdPingProofs,
ProxyPingProofs, PingProofs and SetupProofs.

## 1. The system

| component | state | operations | talks to |
|---|---|---|---|
| process groups, `processes.py` | the group of a spawned client: its leader, what it forks, the leader's `returncode`; the local `deadline` and `cancellation` | `stop_process_group`: SIGTERM, poll, SIGKILL, reap, inside a shielded task | kernel; called by `Tunnel._stop`, `print_details`, `run_proxy_ping` |
| tunnels, `xray.py` | process, temporary Hysteria configuration, `_stop_task`, credentials | `start_tunnel`, `_start_hysteria_tunnel`, `_wait_for_socks`, `error_output`, `Tunnel.stop` | xray-knife, hysteria; process groups |
| verification of a key, `verification.py` | local `tunnel`, shared `entry_ip`, the observer, `key_check_timeout` | `verify_key`, `observe_entry_ip`, `NetworkProbe.run`, `_stop_tunnel`, `measure_speed` | tunnels, HTTP services through the tunnel |
| subscriptions, `subscription.py` | `attempts`, `successful`, `inconclusive`, one timeout over all; the pinned addresses of a hop | `fetch_subscription` with redirects, `_public_addresses`, `PinnedResolver`, `parse_subscription`, `verify_subscription` | verification; DNS; user callbacks |
| TDLib proxy test, `tdlib.py` | a TDLib client, pending tests, `stop_requested`, deadlines, a worker thread | `ping_telegram_proxy`, `TdJson.ping`, `_request` | TDLib, whose `td_receive` is shared by a whole process |
| MTProto ping command, `proxy_ping_cli.py`, `proxy_ping_worker.py` | a helper process and its output, the runner's limit | `run_proxy_ping`, `ping_once` | TDLib proxy test inside the helper; process groups |
| VPN ping command, `vpn_ping_cli.py` | tunnel, deadline, a parser process | `run_vpn_ping`, `print_details`, `_wait_for_connectivity`, `_measure_download` | tunnels, process groups |
| installer and diagnostics, `installer.py`, `diagnostics.py` | installed executables, temporary downloads, TDLib | `run_setup` and its steps, `_install_executable`, `check_dependencies` | network, file system, apt; other setups through them |
| command line, `cli.py`, `ping.py`, `__main__.py` | none | parse arguments, dispatch, one `asyncio.run` | all commands |
| identities and settings, `identity.py`, `config.py`, `models.py`, `events.py`, `errors.py` | immutable records | pure functions | - |

What makes each of them correct, and what is hard about it:

* **Process groups.**  Whoever calls `stop_process_group` may be cancelled any number of times, the group
  may fork, ignore SIGTERM or change user while it is being stopped.  The caller must stay until nothing
  our signals reach can run on, must report its cancellation, and must leave in the end.
* **Tunnels.**  `start_tunnel` may fail at any of a dozen awaits with a process already started and up to
  two timeouts pending.  Every path must stop the process and raise the right exception: the timer's
  `TimeoutError`, its own `TunnelError`, or the `CancelledError` of somebody else.
* **Verification of a key.**  Up to five tasks: the main task, its observer, the observer's thread, the helper
  of `_stop_tunnel` and the stop task below it.  Two nested timers.  The verdict must be the right one for
  every race, and nothing may be left behind.
* **Subscriptions.**  The outcome of an attempt reaches the counters some awaits after it is known; a timeout
  may fall between.  Verdict, counters and reports must agree.  DNS may answer differently each time it is
  asked; nothing but a public address that was checked may be connected to, on any hop.
* **TDLib.**  One thread's answers are received by another; a coroutine may end before its thread.
* **Commands.**  Deadlines that follow each other, outputs that never end, helpers that are cut off.  The helper
  of the MTProto ping may use its timeout twice; the runner's limit must leave it that time.
* **Installer.**  Several setups may run at once, and any may fail, be interrupted or be killed at each step; what
  is at the place of an executable must always be whole, and what a setup found or installed must go on working.

The complete list of what a test hardly reaches, with the line of each, is `hazards` in PROJECT.json.

## 2. Modules and plan

```
Teardown            what any "stop" promises (abstract)
   ^ implemented by ProcessGroup, by Tunnel (start_tunnel's handler), by VerifyKey (the helper
     of _stop_tunnel), and by VpnPing (the handler again, and the finally block)
ProcessGroup        processes.py                     ProcessGroupProofs
   : its properties are used, not its steps
Tunnel              xray.py                          TunnelProofs
   ^ extended by
   +-- VerifyKey    verification.py: verify_key, measure_speed
   |                                                 VerifyKeyProofs
   +-- VpnPing      vpn_ping_cli.py
          ^ instantiated by
Ping                ping.py, the whole command: dispatches to VpnPing or ProxyPing
          v extends                                  PingProofs, with VpnPing's part
ProxyPing           proxy_ping_cli.py, proxy_ping_worker.py
                                                     ProxyPingProofs
Subscription        subscription.py, with verify_key and measure_speed as VerifyKey says
                    their callers see them           SubscriptionProofs
TdPing              tdlib.py                         TdPingProofs
Setup               installer.py, diagnostics.py     SetupProofs
```

`MC<module>` gives the bounds of the runs for each of them.

They were written from the most shared part, the teardown of processes, outwards: ProcessGroup, Tunnel,
VerifyKey, Subscription, TdPing, VpnPing, then ProxyPing, Ping and Setup, and proved about in the same order, but
for VerifyKey and Ping: their invariants are that of start_tunnel with more timers around it, and came last.  Left for
later: **ports** in Tunnel, where another listener takes the port between its choice and the client's start.

## 3. How the modules correspond to the code

All modules but TdPing and Setup model one event loop: what the code does between two awaits is one step.  `pc` (`cleanup`,
`caller`, `observer`, `helper` for other tasks) is the await at which a task is suspended.  `cancel()` is
modelled as asyncio does it: it sets a request (`interrupt`) and counts it (`cancelling`), and the task
gets `CancelledError` at its next step, even if what it awaited is ready.  `asyncio.timeout` is its timer
(`armed`, `fired`, `off`), which calls `cancel()`, and takes it back with `uncancel()` when the block is
left; only if nobody else cancelled the task, `CancelledError` becomes `TimeoutError`.  "Others" are
Ctrl-C, an enclosing timeout, or any user of the library.

* **ProcessGroup** (`stop_process_group`, `_stop_process_group`, `_process_group_exists`): `proc` has each
  process of the group, `unborn`, `running`, `zombie` or `gone`.  Fork, Exit, Reap and StoreReturncode are
  the kernel and asyncio's child watcher; the last two are separate steps, since a leader is reaped some
  time before its returncode is known.  Terminate, GroupGone, SleepMore, Kill, Finish are the clean-up task;
  CatchCancel and Wake the `shield` loop of the caller.  A PermissionError is a group in which only
  `Protected` processes are left.
* **Tunnel** (`start_tunnel`, `_start_hysteria_tunnel`, `_wait_for_socks`, `error_output`, `Tunnel.stop`,
  `_stop`): Spawn is the fork and the written configuration; Fed, Ready, ConnectionLost, Complain, NotReady,
  LineTooLong and so on are what the awaits of the try block end with, StartFails what happens before a client runs; Abort is the handler's call of `Tunnel.stop`;
  StartInterrupted is CancelledError in the try block, with what its timeout makes of it.  StopEnds is the whole stop
  task: it is `stop_process_group`, of which GroupEnds and CallEnds of ProcessGroup say how it ends, and an unlink.
* **VerifyKey** (`verify_key`, `observe_entry_ip`, `measure_speed`, `_settle_tunnel`, `NetworkProbe.run` and
  `run_speed`, `_stop_tunnel`): pc goes on where Tunnel has ended.  `speed` tells the two calls apart: they share
  the timeout, the settling and the teardown; measure_speed has no observer and its own handlers (Unmeasured).
  `stage` counts the requests that have succeeded.  FinallyBlock joins the observer, then the helper through the shield, and, if it was
  cancelled there, directly, where another cancellation is passed on into Tunnel.stop (`helperInterrupt`).
* **Subscription** (`verify_subscription`, `fetch_subscription`, `_public_addresses`, `PinnedResolver`,
  `parse_subscription`): each hop looks its host up (Resolved, with any set of public and other addresses; LookupRaises), connects to
  one of the `pinned` addresses, and ends with a redirect, a failure or a list.  A list is the number of usable
  entries, the line that stops the parser, if any, and whether it is Base64.  Then the loop's counters, and the
  awaits of the callbacks.  `verify_key` is one await that gives an outcome or passes
  cancellation on, or swallows it, which is what VerifyKey shows of it (`dropped`).
* **TdPing** (`ping_telegram_proxy`, `TdJson.ping`, `_request`, `_receive`): coroutine (`caller`) and thread of each
  ping.  A step of a thread is one turn of its loop: the test of `stop_requested` and the deadline, one
  `td_receive`, and what it does with the response.  A request is in `sent` until somebody receives its
  answer: the thread that asked, or another, which drops it, unless it is malformed: JSON is parsed before anybody looks
  whose it is (ReceiveMalformed), so it ends whoever receives it.  `refused` and `garbled` record which of the two ended a ping.
* **VpnPing** (`run_vpn_ping`, `print_details`, `_wait_for_connectivity`, `_measure_download`): `details`
  is where print_details is, then pc is start_tunnel's, then the command's own.
* **ProxyPing** (`run_proxy_ping`; `main` and `ping_once` of the worker): the runner's task, as above, and the helper
  process, which is `starting`, `preparing`, `testing` and `finishing`.  Here time is counted: `left` are the
  ticks until the runner's timer, `budget` those until the helper's deadline, `slow` those spent outside of
  it.  A deadline of the helper ends it only in HelperFails, so it may also be late.
* **Ping** (`ping`): Route is the dispatcher's decision over all options; the command it chooses runs in the
  same task, so both share pc, the cancellations and the result.
* **Setup** (`run_setup`, `_setup_tool`, `_setup_tdlib`, `_install_executable`, `_Prompter.confirm`, `check_dependencies`,
  `print_dependency_check`): `phase` and `step` are where each run is in its loop; the runs share `target`,
  `elsewhere` and `library`.  An executable is told apart by what its version command does.  Replace is
  `os.replace`; Discarded is the `except BaseException` of `_install_executable`; StepFails are the exceptions
  run_setup prints, Raises those it does not name, each where it can come from, Interrupted is Ctrl-C, and Kill the end of the
  process anywhere.

Operators called "Faulty" are those of the mutants: each is a plausible bug, and the properties of the
run are shown to notice it.  No action of a specification uses one.

## 4. Runs

| run | cfg | what it asks | bounds | distinct states |
|---|---|---|---|---|
| group | ProcessGroup_stop, on MCProcessGroup | nothing our signals reach is left or comes to life later, PermissionError, end of the call, refinement of Teardown (PromiseKept) | 4 processes, one of them protected, 2 cancellations | 11148 |
| start | Tunnel_start, on MCTunnel | start_tunnel that raises leaves nothing, raises the right exception, and ends for xray-knife; refinement of Teardown (AbortPromiseKept) | both kinds of client, 2 cancellations | 273 |
| config_left | Tunnel_config, on MCTunnel | violated: the configuration file is always removed | the same | |
| verify | VerifyKey_run, on MCVerifyKey | verify_key and measure_speed: teardown, verdict, timers, cancellation, termination, refinement of Teardown | both kinds, 6 or 2 requests, 3 cancellations | 42108 |
| entry_lost | VerifyKey_entry, on MCVerifyKey | violated: an entry IP the observer found is reported | the same | |
| speed_raises | VerifyKey_speed, on MCVerifyKey | violated: measure_speed raises nothing but a cancellation | the same | |
| subscription | Subscription_loop, on MCSubscription | verdict, counters, reports, timeout, contacted addresses | 4 keys, 3 attempts, target 2, 1 redirect, 2 cancellations | 34214 |
| subscription_unbounded | Subscription_bounded, on MCSubscription | violated: the timeout bounds the attempts | the same | |
| tdlib | TdPing_pings, on MCTdPing | two pings that take each other's answers | 2 pings, data centres {dc1, dc2} and {dc1}, 2 cancellations each | 859684 |
| ping | Ping_run, on MCPing | `vpnprobe ping` whole: teardown, cancellation, an answer in time, termination, refinement of Teardown (StopPromiseKept) | both ways, both kinds, Timeout and StopTimeout 2 ticks, 2 cancellations | 14954 |
| vpn_ping_hangs | VpnPing_deadline, on MCVpnPing | violated: the wait ends with its deadline | both kinds, 2 cancellations | |
| setup | Setup_run, on MCSetup | concurrent setups: reports, versions, targets, temporary files, what may be replaced | 2 runs, 1 executable of any kind but the latest before, and TDLib | 5005447 |

Why these bounds are enough:

* **Cancellations.**  Every shield loop treats the second and all later cancellations alike, so two
  reach each case: one that makes the code stop what it does, one while it stops.  `_stop_tunnel` has two awaits in sequence
  after which a cancellation is passed on, hence three for VerifyKey.  The proofs lift the bound for every
  safety property of a run.
* **Ticks.**  Two for the helper's timeout, so that it can use part of a deadline, and two for the
  process_stop_timeout, so that it can be slow without being late.  The proof is about every timeout.
* **Processes.**  Four allow a leader, a child, a grandchild that is forked while the group is being
  stopped and may outlive both, and one of another user that may be all that is left.
* **Subscription.**  The list is longer than the attempts and these are more than the successes
  wanted, so each of the three limits is the one that stops the loop in some behaviour; a redirect may be
  followed, and one too many refused.  A look-up has any subset of a public and another address.
* **Pings.**  Two share a data centre, so that the answer of one names a data centre the other waits for;
  one has two tests, so that some may be answered and others not.  Since either takes the other's answers already, a third
  adds nothing that `td_receive` distinguishes; for safety the proofs are about any number.
* **Setups.**  Two steps, so that one can fail and the other not, and two runs, since all races are about one
  target or one package.  Runs are symmetric, which is sound here: no property of the run is temporal beyond
  one step.  The proofs are about any number of runs and executables.

`CHECK_DEADLOCK FALSE` is set throughout, since all these operations come to an end; that they do is the liveness
property of each run but setup, which waits for its user.

## 5. Fairness

Weak fairness only, and for what the code or the platform does guarantee: the event loop runs tasks that are ready, and
timers and deadlines go off; a process that got SIGKILL exits; the child watcher reaps the leader and
stores its returncode; writing to a pipe either succeeds or breaks; `create_subprocess_exec` ends; a look-up
in a thread of the default executor ends; `stop_process_group` ends (CallEnds of ProcessGroup).  An HTTP request has a
total timeout of its own in aiohttp, so in Subscription a download ends with some outcome; a DNS look-up
ends.  In ProxyPing ticks go on until the runner's timer is due; Ping has the fairness of the command it runs.
Setup has none: it has no liveness property.

There is no fairness for: a client that prints credentials, listens, or closes its pipes; a process that
obeys SIGTERM or reaps its children; TDLib answering; a request through a tunnel that succeeds; anybody
cancelling.  Therefore the start of a Hysteria client whose orphan holds stderr open need not end,
and StartEnds is about xray-knife, where the timer covers every wait; VerifyEnds covers both, because
verify_key has a timer around start_tunnel.  That a client's stderr, read to its end by `error_output`, has one is
assumed only of a client that has exited and left nobody behind.  Feeding xray-knife its URL lies outside of the timer of
start_tunnel (`xray.py:291-294`); it ends by fairness alone, because a pipe either takes the data or breaks.

## 6. Proofs

Every safety property of the runs that are expected to pass, invariant, action property or refinement, is a
theorem; only proved are the type invariants but that of VerifyKey, CancellationIsKept of ProcessGroupProofs and OutcomeIsRight.
TLAPS checks, for every value of the constants under the ASSUMEs of each module (a leader that is no
descendant of itself, protected processes among the descendants, kinds among the two, `MaxCancels \in Nat`,
limits that are numbers, a data centre for each ping and none with the name of a set-up request, timeouts that
are numbers and one of them positive, a sequence of tools):

**ProcessGroupProofs** - TypeCorrect, StopIsComplete, CancellationIsKept, FailureIsForProtected,
NothingDoesEscape, and PromiseIsKept, which is the safety part of the refinement of Teardown:
what is held to the promise (Held) are the processes our signals reach and the leader's returncode, and a call
that left with PermissionError counts as one that never left, so it needs no assumption on `Protected`.  None of the invariants is inductive by itself.  StopComplete needs to know that
the clean-up task is over when the caller leaves (CallerInv) and that the group is
Harmless - each process that runs has a SIGKILL pending or is out of reach - from the end of the loop on
(LoopInv); Harmless is kept by forks only because a child is doomed or protected with its
parent.  CancellationKept needs that each cancellation so far is to be thrown, recorded or reported
(RequestInv).  IInv is their conjunction with TypeOK, OutcomeInv and "the leader was born".

**TunnelProofs** - StartTypeCorrect, AbortDoesLeaveNothing, CancellationDoesSurvive, TimeoutDoesOwn,
AbortPromiseIsKept.  The
heart is CountInv: the `cancel()` calls nobody has taken back are those of others, and one of the timer's
as long as the task is in the try block.  With PendingInv (in the try block a CancelledError is
pending exactly if somebody cancelled) it gives Undisturbed, that a task which resumes normally was cancelled by
nobody, and it makes the test of asyncio.timeout, "count back to zero", the same as "nobody else cancelled".
ErrorInv carries this through the handler: a cancellation by others is the error being raised, recorded by
Tunnel.stop, or pending.  StopInv says that a process exists from the spawn on and that
the handler has a stop task, which, once done, has stopped everything.  AbortPromiseIsKept maps every step to one of
Teardown or to none: the handler begins unasked (AbortsUnasked, by Undisturbed or because the CancelledError was just
thrown), each later `cancel()` is an Ask, StopEnds is the Release, and the loop's last turn is Leave.

**VerifyKeyProofs** - TypeCorrect, IsTornDown, SuccessIsInTime, RaisesOnlyThen, TimeoutAlwaysHasCause,
StopPromiseIsKept, for verify_key and measure_speed at once.  The timer of the key surrounds that of start_tunnel and cancels
the same task, so CountInv has two summands, one for each timer that has gone off and whose CancelledError has
not passed it.  From it follows what both tests of "nobody else cancelled" mean: the inner one, that neither others
nor the outer timer did; the outer one, that others did not.  PendingInv then follows a cancellation through each place
it can be in: to be thrown, the error on its way, recorded by Tunnel.stop.  After the timeout OutcomeInv takes over and
relates `error`, `interrupt` and `requests` at each await of the handlers and the finally block; `dropped` is there for the
one place that swallows a cancellation, and RaisesOnlyThen says that it is the only one.  LineInv says where the ValueError of an
overlong line comes from, and that no process is left behind it.  TunnelInv and HelperInv say who has
the tunnel, that the helper ends after its stop task, and ObserverInv that the observer is over before.

**PingProofs** - TypeCorrect, IsTornDown, CancelledOnlyThen, AnswerIsAwaitedInPing, StopPromiseIsKept, for the
command on both of its ways.  The proxy's part comes from the lemmas of ProxyPingProofs, with the tunnel's variables at
their initial values.  In the VPN's part the timeouts follow each other and one may surround that of start_tunnel, so the sum of CountInv is the
same as in VerifyKeyProofs, but its second summand belongs to whichever timeout is open.  DetailsInv
and the first lines of PendingInv are about print_details: a cancellation that leaves it (LeaveStep) is either its
timer's alone, and then the command goes on with a count of zero as if nothing had happened, or it is others' too,
and then the command ends with it; no state lies between.  StopPromiseIsKept is as in TunnelProofs, for two callers.

**SubscriptionProofs** - TypeCorrect, VerdictDoesMissLittle, ReportsDoFollow, OnlyPublicIsContacted,
CancellationIsPassedOn, TimeoutDoesEndAttempts, for lists and limits of any size.  AttemptInv relates `verified`, `successes`, `attempts` and
`finished` at each await: equal between attempts, and off by the attempt under way in it, which is why at
most one key can be missing.  CountInv is the count of cancellations as in TunnelProofs, and says that as long as
no key swallowed one, a CancelledError is pending whenever somebody cancelled, so that no step but
Interrupted is possible after the timer.

**TdPingProofs** - TypeCorrect, SuccessIsAlwaysOwn, EveryDcIsReported, FailureAlwaysHasCause,
ThreadIsOnlyLeftTold, CancellationIsKept, for any pings and data centres.  TestsInv: a test that counts as passed was
granted to this ping, and one that is neither pending nor passed was refused to it.  OutcomeInv says it of the
outcome, and CallInv what the coroutine knows at its two awaits: it insists only after one cancellation and
with the stop event set.

**ProxyPingProofs** - AnswerIsAwaited and OutcomeIsRight, about ProxyPing alone, for any timeouts and number of
cancellations.  AnswerIsAwaited is a sum: of the 2 * Timeout + StopTimeout ticks the runner
grants, those that are gone were spent in the helper's set-up, in its tests, or outside of both, and the first two
have at most Timeout each.  So what the helper may still spend (Allowance) plus StopTimeout is at most
`left + slow` as long as the timer is armed (Covered); when it fires, `left` is 0, and `slow` has used up
StopTimeout.  OutcomeIsRight needs the count of cancellations again, as in TunnelProofs.
TypeStep shows the types inductive together with ClockInv, which keeps the clocks in their ranges.

**SetupProofs** - ReportsStay, VersionDoesStay, TempsAreRemoved, TargetsAreWhole, OnlyMissingIsReplaced, for any runs and tools.  The
core is that no step of any run takes away what another one may have seen (Stays): all that is ever put in
place of an executable is a finished download, and that a temporary file is finished, and of the version the run wants,
when it is renamed is TempInv.  With it TruthInv, "what was printed is true", is kept by the steps of the other runs.  PhaseInv
says which steps a run has taken.  VersionDoesStay follows from two facts about one step: a verdict comes with the version
in place (NewVersion), and what is found changes only to what the run that steps wants and prints (NewFound).  OnlyMissingIsReplaced is about one step, but needs to
know of the run's earlier look at the executable and its question: MissingInv says, at each place in between, that an
executable which works by now was put there by another run (ChangeIsPrinted: only os.replace makes
one work, and its run prints it) or is to be replaced because of --pin.

Only model-checked: all liveness (CallEnds, GroupEnds, StartEnds, VerifyEnds, SubscriptionEnds, PingsEnd,
EndsUnlessHeld), and with it the fairness of Teardown's Release and Leave, since the prover has neither ENABLED nor
weak fairness; and the counterexamples of the next section, which are TLC's.

## 7. Where the code and its documents disagree

Each is a counterexample of a run, with the quoted text in PROJECT.json `findings`:

1. *config_left.*  A cancellation, or the timer of verify_key, during the spawn of the Hysteria client
   leaves its configuration file (`xray.py:251` catches OSError only); README.md:71 says it is removed.
2. *entry_lost.*  A look-up of the entry IP by the main task that began before the observer's and ends
   after it overwrites the address found with None (`verification.py:220, 237`).
3. *subscription_unbounded.*  The timeout of a subscription that reaches verify_key while it joins its
   observer is suppressed with the observer's CancelledError (`verification.py:276`); the subscription
   then has no timeout any more.
4. *vpn_ping_hangs.*  The stderr of an exited client is read to its end outside of every timeout
   (`vpn_ping_cli.py:79`).
5. *speed_raises.*  measure_speed lets the ValueError of a line too long escape (`verification.py:304-313`, from
   `xray.py:300`), though `verification.py:291` and README.md:62 promise an unknown speed for any failure.

Seen while modelling, without a run of their own:

* A verified key is counted after its optional speed test (`subscription.py:246`); a subscription timeout in the
  test makes the verdict as if the key had failed, though `verification.py:291` calls speed optional
  information.  VerdictMissesLittle says how much may be missing.
* `_parse_lines` skips an entry for a ConfigurationError only (`subscription.py:144`), but `urlsplit` in `identify` raises
  ValueError for one with an unclosed bracket, which ends the whole call; README.md:53 says that "entries it cannot use
  are skipped".  In Subscription such a list ends with "raised" (ParsedLines, Downloaded).
* run_setup ends without its report, and without trying the other dependencies, when a step raises anything but ProbeError
  and OSError (`installer.py:288`), such as UnicodeDecodeError of a version command or EOFError at a question; README.md:38
  says it "ends with the `vpnprobe check` report".  In Setup this is Raises.
* The TimeoutError of start_tunnel's own timer is reported as an exceeded key_check_timeout (`verification.py:256-260`).
  TimeoutHasCause takes either timer for a cause.
* A setup with --pin that ends with its version in place may find the latest there afterwards, installed by a setup without
  --pin that looked before; VersionStays says that it can be no other way.
* A bad MTProto URL or a missing TDLib library is noticed only by the helper, whose status 1 is passed on
  (`proxy_ping_worker.py:28-31`, `proxy_ping_cli.py:53`); README.md:88 says that "a bad URL or unusable
  dependency returns `2`".  The same holds of an executable a VPN ping cannot start, a TunnelError.

## 8. Assumptions, and what is left out

* The system does not give the id of a process group to another one while it is being stopped.
* A client that is killed while asyncio connects its pipes has forked nothing.
* Users of Tunnel see stop_process_group as ProcessGroup with `Protected = {}`: clients do not change user.
  "Exited" there means that the returncode is known.
* `unlink` of the configuration does not fail otherwise than with the OSError the code suppresses; `logger` and
  the callbacks of verify_subscription return.
* The end of `asyncio.run`, which cancels all tasks, helpers too, is not modelled.
* aiohttp's timeouts, connector and proxy errors are one outcome, a request that fails.  In verify_key and
  measure_speed no TimeoutError of a request comes before the key's timer: the session has a total timeout only, which is
  key_check_timeout too and begins later (`verification.py:66, 229, 298`).
* A Ctrl-C in setup between the end of the write and the try block that follows it (`installer.py:213-214`), where no
  statement runs, is taken for one in the try block.
* TDLib is external: it answers any request it was sent, once, at any time or never.  When it lets go of
  a closed client's database directory cannot be told from the source.
* A finished download whose checksum was right works, and a Debian package that apt installed can be loaded:
  ReportStays says of them what run_setup prints.  The version command of an executable behaves alike each
  time.  All setups of a run are of one user with one PATH, and nobody else changes the directories.
* The helper of the MTProto ping has no descendants; what stop_process_group does to it is one step.
* Not modelled: the text of URLs, credentials and output; which of several listeners answers at a port (planned,
  section 2); the search for the TDLib library; argument parsing, identities and settings, which
  are pure functions and keep no state that a step could get wrong.
