------------------------------ MODULE MCTdPing ------------------------------
(***************************************************************************)
(* TdPing with two concurrent pings, one of two data centres and one of a  *)
(* single one that both test, each cancelled up to twice: the second       *)
(* cancellation is the one that leaves a thread behind.                    *)
(***************************************************************************)
EXTENDS TdPing, TLC

CONSTANTS p1, p2, dc1, dc2

MCPings == {p1, p2}
MCDcs == (p1 :> {dc1, dc2}) @@ (p2 :> {dc1})
MCMaxCancels == 2
=============================================================================
