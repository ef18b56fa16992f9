------------------------------- MODULE MCPing -------------------------------
(***************************************************************************)
(* Ping for both kinds of client and for the helper.  Two cancellations:   *)
(* one that ends what the command is doing, and one while it stops a       *)
(* process.  Deadlines of two ticks, so that a helper may use half of one. *)
(***************************************************************************)
EXTENDS Ping

MCMaxCancels == 2
MCTimeout == 2
MCStopTimeout == 2
=============================================================================
