------------------------- MODULE MCPublicDeposit ---------------------------
(* Small instances of PublicDeposit for TLC. *)
EXTENDS PublicDeposit, TLC

CONSTANTS h1, h2, t1

MCSymmetry == Permutations(Calls) \cup Permutations(Holds)
=============================================================================
