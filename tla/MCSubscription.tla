--------------------------- MODULE MCSubscription ---------------------------
(***************************************************************************)
(* Subscription with a list longer than the attempts allowed, more         *)
(* attempts than successes wanted, and one redirect allowed.               *)
(***************************************************************************)
EXTENDS Subscription

MCMaxKeys == 4
MCMaxRedirects == 1
MCMaxAttempts == 3
MCTarget == 2
MCMaxCancels == 2
=============================================================================
