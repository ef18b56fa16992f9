-------------------------------- MODULE Ping --------------------------------
(***************************************************************************)
(* ping.py: ping, the command "vpnprobe ping" whole.  It looks at the URL  *)
(* and the options, and either refuses them or awaits one of the two       *)
(* commands, run_vpn_ping (module VpnPing) or run_proxy_ping (ProxyPing),  *)
(* in the task it was called in: both have the same pc, the same           *)
(* cancellations and the same result.                                      *)
(***************************************************************************)
EXTENDS ProxyPing

CONSTANT Kinds   \* kinds of VPN configuration, as in Tunnel

ASSUME KindsAssumption == Kinds \subseteq {"xray", "hysteria"}

VARIABLES
  route,         \* "vpn", "proxy" or "refused"
  kind, config, leader, group, straggler, handshake, stopTask, recorded,
  details, parser, speedtest, late, owned     \* as in VpnPing

V == INSTANCE VpnPing

vpnVars ==
  <<kind, config, leader, group, straggler, handshake, stopTask, recorded,
    details, parser, speedtest, late, owned>>
vars == <<proxyVars, vpnVars, route>>

\* What the options say, as far as the dispatcher asks: is the timeout
\* positive, is there a speed test, and is "dc" missing, valid or not.
Options == [positive : BOOLEAN, speedtest : BOOLEAN, dc : {"none", "valid", "invalid"}]

Route(proxy, o) ==
  CASE \/ ~o.positive
       \/ proxy /\ (o.speedtest \/ o.dc = "invalid")
       \/ ~proxy /\ o.dc # "none"  -> "refused"
    [] OTHER                       -> IF proxy THEN "proxy" ELSE "vpn"

Helperless == helper = "none" /\ answer = "none" /\ left = 0 /\ budget = 0 /\ slow = 0

\* Neither command has begun: what VpnPing starts with, but for the timer.
Tunnelless ==
  /\ kind \in Kinds
  /\ config = FALSE /\ leader = "none" /\ group = "none" /\ straggler = FALSE
  /\ handshake = "off" /\ stopTask = "none" /\ recorded = FALSE
  /\ parser = "none" /\ late = FALSE /\ owned = FALSE

TypeOK ==
  CASE route = "vpn"     -> V!TypeOK /\ Helperless
    [] route = "proxy"   -> ProxyTypeOK /\ Tunnelless
    [] route = "refused" -> pc = "end" /\ Helperless /\ Tunnelless

Init ==
  \E proxy \in BOOLEAN, o \in Options :
    /\ route = Route(proxy, o)
    /\ speedtest = o.speedtest
    /\ CASE route = "vpn" -> V!Init /\ Helperless
         [] route = "proxy" ->
              ProxyInit /\ Tunnelless /\ details = "done"
         [] route = "refused" ->
              /\ pc = "end" /\ error = "ConfigurationError" /\ code = "raised"
              /\ interrupt = FALSE /\ requests = 0 /\ cancelling = 0 /\ timer = "off"
              /\ Helperless /\ Tunnelless /\ details = "done"

Next ==
  /\ UNCHANGED route
  /\ \/ route = "vpn" /\ V!Next /\ UNCHANGED <<helperVars, clockVars>>
     \/ route = "proxy" /\ ProxyNext /\ UNCHANGED vpnVars

\* Each command's own; its actions are disabled where the other one runs.
Spec ==
  /\ Init
  /\ [][Next]_vars
  /\ route = "vpn" => V!Fairness
  /\ route = "proxy" => ProxyFairness

-----------------------------------------------------------------------------
(* Properties.                                                             *)

\* When the command ends, no process it started is left: neither client, nor
\* the parser, nor the helper, whatever was cancelled or timed out, and when.
TornDown ==
  pc = "end" => V!Nothing /\ parser # "up" /\ helper \notin Alive

\* The command ends with CancelledError exactly when somebody cancelled it: not
\* one of its four timeouts leaks out or absorbs a cancellation, that of
\* print_details least of all: "it never changes the status" (README.md:82).
CancelledExactly ==
  pc = "end" => (code = "raised" /\ error = "CancelledError" <=> requests > 0)

\* The stop of a tunnel keeps what Teardown promises, at both places that call it in
\* the command's own task: it is over only when the tunnel is stopped, and raises
\* CancelledError exactly when the task was cancelled in it, by whomever
\* (xray.py:92-103, 308-315, vpn_ping_cli.py:155-156).
StopPromiseKept == V!StopPromise!Safety

\* The command ends, with one exception: a VPN client has exited, and one of its
\* descendants holds its stderr open.
EndsUnlessHeld == <>(pc = "end" \/ (pc = "autopsy" /\ straggler))
=============================================================================
