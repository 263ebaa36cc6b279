---------------------------- MODULE MCDispatch ------------------------------
(* Small instances of Dispatch for TLC. *)
EXTENDS Dispatch, TLC

CONSTANTS f1, f2

\* The two FOs belong to different reputation tiers, so that f2's offer can
\* be dormant behind f1's.
MCRound == f1 :> 1 @@ f2 :> 2

=============================================================================
