----------------------------- MODULE FoCalendar -----------------------------
(***************************************************************************)
(* What the booking system promises a franchise owner (FO): the calendar.  *)
(* A booking is sold at most once, for one FO and one window; two bookings *)
(* on the calendar of one FO never overlap; a booking leaves the calendar  *)
(* when it is canceled or completed and never comes back.                  *)
(*                                                                         *)
(* This is the abstract specification.  SlotHolds shows that the path      *)
(* through slot holds implements it; CalendarRoutes shows what becomes of  *)
(* it under the routes that write the calendar without a hold.             *)
(***************************************************************************)
EXTENDS Integers

CONSTANTS Bookings,   \* ids of Booking rows
          FOs,        \* ids of FranchiseOwner rows
          Windows,    \* the arrival windows [start, end) that clients ask for
          NoSlot      \* a booking that is not on any calendar

Slot == [fo : FOs, window : Windows]

(* Half-open windows overlap: SlotHoldsService.windowsOverlap, and the      *)
(* tsrange(.., '[)') of the exclusion constraint on BookingSlotHold.        *)
Overlaps(v, w) == v.start < w.end /\ w.start < v.end

VARIABLES calendar,   \* calendar[b]: the slot b occupies, or NoSlot
          spent       \* bookings that can no longer be sold

cvars == <<calendar, spent>>

CalendarTypeOK ==
  /\ calendar \in [Bookings -> Slot \cup {NoSlot}]
  /\ spent \subseteq Bookings

CalendarInit ==
  /\ calendar = [b \in Bookings |-> NoSlot]
  /\ spent = {}

Clash(s, t) == s.fo = t.fo /\ Overlaps(s.window, t.window)

Sell(b, s) ==
  /\ b \notin spent
  /\ \A c \in Bookings \ {b} : calendar[c] # NoSlot => ~Clash(calendar[c], s)
  /\ calendar' = [calendar EXCEPT ![b] = s]
  /\ spent' = spent \cup {b}

(* The booking is canceled or completed, sold or not. *)
Leave(b) ==
  /\ calendar' = [calendar EXCEPT ![b] = NoSlot]
  /\ spent' = spent \cup {b}

CalendarNext ==
  \E b \in Bookings : Leave(b) \/ \E s \in Slot : Sell(b, s)

CalendarSpec == CalendarInit /\ [][CalendarNext]_cvars
=============================================================================
