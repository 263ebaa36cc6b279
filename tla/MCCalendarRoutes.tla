-------------------------- MODULE MCCalendarRoutes --------------------------
(* Small instances of CalendarRoutes for TLC. *)
EXTENDS CalendarRoutes, TLC

MCWindow == {[start |-> 1, end |-> 3]}

(* What an hour's work is moved to, from now or from an hour hence on.  Only *)
(* a window that begins later can be held, so there is one to hold.          *)
MCMoves == {[start |-> 0, end |-> 1], [start |-> 1, end |-> 2], [start |-> 0, end |-> 2]}

MCOneHour == [b \in Bookings |-> 1]
MCTwoHours == [b \in Bookings |-> 2]
=============================================================================
