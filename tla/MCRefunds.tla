----------------------------- MODULE MCRefunds -----------------------------
(* Small instances of Refunds for TLC. *)
EXTENDS Refunds, TLC

CONSTANTS i1, i2

\* i1 asks for half of the charge, i2 for all of it or for more than Stripe gives.
MCAmounts == i1 :> {1} @@ i2 :> {0, 3}

MCMaxRetries == i1 :> 1 @@ i2 :> 0
=============================================================================
