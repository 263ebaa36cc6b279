---------------------------- MODULE MCSlotHolds ----------------------------
(* Small instances of SlotHolds for TLC. *)
EXTENDS SlotHolds, TLC

\* Two windows that overlap in part, and none of them equal to the other.
MCWindows == {[start |-> 1, end |-> 3], [start |-> 2, end |-> 4]}

MCSymmetry ==
  Permutations(Bookings) \cup Permutations(HoldIds) \cup Permutations(Requests)
=============================================================================
