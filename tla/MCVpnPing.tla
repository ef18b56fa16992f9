------------------------------ MODULE MCVpnPing ------------------------------
(***************************************************************************)
(* VpnPing for both kinds of client.  Two cancellations: one that ends     *)
(* what the command is doing, and one while it stops a process.            *)
(***************************************************************************)
EXTENDS VpnPing

MCMaxCancels == 2
=============================================================================
