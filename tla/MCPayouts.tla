----------------------------- MODULE MCPayouts ------------------------------
(* Small instances of Payouts for TLC. *)
EXTENDS Payouts, TLC

CONSTANTS b1, b2, f1, f2

\* A booking for each of two FOs, so that a batch can have two lines.
MCFoOf == b1 :> f1 @@ b2 :> f2

MCSymmetry == Permutations(Batches) \cup Permutations(Keys) \cup Permutations(Calls)
=============================================================================
