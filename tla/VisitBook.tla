----------------------------- MODULE VisitBook ------------------------------
(***************************************************************************)
(* What a recurring plan promises of a visit.  There is never more than    *)
(* one booking of it for a day; a booking keeps its day; and the visit is  *)
(* linked to one booking, made before, for ever.                           *)
(*                                                                         *)
(* This is the abstract specification; RecurringVisits shows that runs     *)
(* which overlap, fail and lose their claims implement it.                 *)
(***************************************************************************)
CONSTANTS Names,     \* what bookings of the visit are called
          Dates,     \* days that a visit can be planned for
          None,      \* the day of a booking that has not been made
          NoBooking  \* no booking is linked

VARIABLES made,  \* made[n]: the day that booking n is for, or None
          link   \* the booking that the visit is linked to, or NoBooking

vbvars == <<made, link>>

BookInit ==
  /\ made = [n \in Names |-> None]
  /\ link = NoBooking

Book(n, d) ==
  /\ made[n] = None
  /\ \A m \in Names : made[m] # d
  /\ made' = [made EXCEPT ![n] = d]
  /\ UNCHANGED link

Link(n) ==
  /\ link = NoBooking
  /\ made[n] # None
  /\ link' = n
  /\ UNCHANGED made

BookNext == \E n \in Names : Link(n) \/ \E d \in Dates : Book(n, d)

BookSpec == BookInit /\ [][BookNext]_vbvars
=============================================================================
