------------------------------ MODULE MCTunnel ------------------------------
(***************************************************************************)
(* Tunnel for both kinds of configuration.  Two cancellations by others:   *)
(* one that makes start_tunnel stop the process, and one while it does.    *)
(***************************************************************************)
EXTENDS Tunnel

MCMaxCancels == 2
=============================================================================
