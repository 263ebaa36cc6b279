------------------------- MODULE MCRecurringVisits -------------------------
(* A small instance of RecurringVisits for TLC. *)
EXTENDS RecurringVisits, TLC
=============================================================================
