---------------------------- MODULE MCVerifyKey ----------------------------
(***************************************************************************)
(* VerifyKey for both kinds of configuration.  Three cancellations: one    *)
(* that ends the try block or a handler, one in the shielded await of the  *)
(* finally block, and one in the direct await after it.                    *)
(***************************************************************************)
EXTENDS VerifyKey

MCMaxCancels == 3
=============================================================================
