--------------------------- MODULE CalendarRoutes ---------------------------
(***************************************************************************)
(* The routes that write the calendar without a hold, next to the hold     *)
(* path of SlotHolds: transitions with a start time, which move the        *)
(* booking (transitionBooking), manual assignment and reassignment         *)
(* (assignBooking), and the transitions without a start time that          *)
(* SlotHolds has no use for: scheduling and reopening.                     *)
(*                                                                         *)
(* Each call looks for a free window first (assertFoAvailableForWindow,    *)
(* outside any transaction) and writes later, guarded by the status it has *)
(* read.  What it looks for is not what it writes: the look asks for the   *)
(* estimated hours, the write keeps the old end of the window where it     *)
(* can, and an assignment keeps the window that is there.  Transitions     *)
(* without a start time do not look, nor do accepting an offer,            *)
(* manualAssign and reassignBooking, which are in module Dispatch.         *)
(*                                                                         *)
(* The reliability counters these routes also keep are read by no guard    *)
(* here; the dispatch that follows a first scheduling is module Dispatch.  *)
(***************************************************************************)
EXTENDS SlotHolds

CONSTANTS Calls,     \* concurrent calls of these routes
          NoCall,    \* a call that is not running
          Hours,     \* Booking.estimatedHours
          Wall       \* the wall-clock time of the estimate's snapshot

(* The start times a caller can ask for. *)
Starts == {w.start : w \in Windows}

ASSUME DurationsAssumption ==
  Hours \in [Bookings -> Nat \ {0}] /\ Wall \in [Bookings -> Nat \ {0}]
(* A booking that is moved has a window again. *)
ASSUME MovesAssumption ==
  \A s \in Starts :
    /\ \A b \in Bookings : [start |-> s, end |-> s + Wall[b]] \in Windows
    /\ \A w \in Windows : s < w.end => [start |-> s, end |-> w.end] \in Windows

VARIABLES call,      \* what each call has read and is about to write
          keys       \* BookingEvent rows with the default key assign:<b>:<fo>

routeVars == <<call, keys>>
allVars == <<vars, call, keys>>

(* getTransition: the status a transition finds, and the one it writes.     *)
(* Scheduling keeps the status of a paid booking; starting, completing,     *)
(* reopening and canceling again what is started, completed, reopened or    *)
(* canceled already are let through.                                        *)
Steps ==
  {<<"pending_payment", "pending_dispatch">>,
   <<"pending_dispatch", "pending_dispatch">>, <<"assigned", "assigned">>,
   <<"assigned", "in_progress">>, <<"in_progress", "in_progress">>,
   <<"in_progress", "completed">>, <<"completed", "completed">>,
   <<"completed", "in_progress">>}
  \cup (Status \ {"completed"}) \X {"canceled"}

(* window: what it will write. *)
Moving ==
  {m \in [kind : {"move"}, booking : Bookings, from : Status, to : Status,
          window : Windows] : <<m.from, m.to>> \in Steps}

(* defaultKey: the caller sent no idempotency key of its own. *)
Assigning == [kind : {"assign"}, booking : Bookings,
              from : {"pending_dispatch", "offered", "assigned"},
              fromFo : FOs \cup {NoFo}, fo : FOs, defaultKey : BOOLEAN]

RoutesTypeOK ==
  /\ TypeOK
  /\ call \in [Calls -> Moving \cup Assigning \cup {NoCall}]
  /\ keys \subseteq Bookings \X FOs

RoutesInit ==
  /\ Init
  /\ call = [c \in Calls |-> NoCall]
  /\ keys = {}

End(c) == call' = [call EXCEPT ![c] = NoCall]

(* assertFoAvailableForWindow looks for the estimated hours from the start  *)
(* on: neither route passes it a snapshot.  The other bookings occupy the   *)
(* windows they have.                                                       *)
Asked(b, s) == [start |-> s, end |-> s + Hours[b]]
FoAvailable(b, f, w) == ~Occupied(Bookings \ {b}, f, w, ActiveStatus)

(* computeScheduleWritePatch: the end stays if the new start is before it,  *)
(* else it is computed anew.                                                *)
Patch(b, s) ==
  [start |-> s,
   end |-> IF window[b] # NoWindow /\ s < window[b].end
             THEN window[b].end
             ELSE s + Wall[b]]

-----------------------------------------------------------------------------
(* transitionBooking with a start time: POST /:id/schedule, and any          *)
(* transition by POST /:id/transition                                        *)

(* Reads the booking and, if it has an FO, looks.  /transition names the     *)
(* transition after a read of its own, which this one need not agree with:   *)
(* so it may find done what it was named for.  Whether the payment status    *)
(* lets an unpaid booking be scheduled is left open.                         *)
BeginMove(c, b, to, s) ==
  /\ call[c] = NoCall
  /\ <<status[b], to>> \in Steps
  /\ fo[b] # NoFo => FoAvailable(b, fo[b], Asked(b, s))
  /\ call' = [call EXCEPT ![c] =
       [kind |-> "move", booking |-> b, from |-> status[b], to |-> to,
        window |-> Patch(b, s)]]
  /\ UNCHANGED <<vars, keys>>

(* Fault: an update by id alone. *)
FaultCommitMoveUnguarded(c) ==
  LET q == call[c] IN
  /\ q # NoCall
  /\ q.kind = "move"
  /\ ~BookingLocked(q.booking)
  /\ status' = [status EXCEPT ![q.booking] = q.to]
  /\ window' = [window EXCEPT ![q.booking] = q.window]
  /\ End(c)
  /\ UNCHANGED <<fo, holds, minted, sales, req, now, keys>>

(* updateMany where status = the status read.  The FO is not asked for.      *)
CommitMove(c) ==
  LET q == call[c] IN
  /\ q # NoCall
  /\ q.kind = "move"
  /\ ~BookingLocked(q.booking)
  /\ IF status[q.booking] = q.from
       THEN /\ status' = [status EXCEPT ![q.booking] = q.to]
            /\ window' = [window EXCEPT ![q.booking] = q.window]
       ELSE UNCHANGED <<status, window>>
  /\ End(c)
  /\ UNCHANGED <<fo, holds, minted, sales, req, now, keys>>

-----------------------------------------------------------------------------
(* assignBooking *)

(* isInvalidAssignmentState: an FO on a booking that is not assigned. *)
InvalidAssignment(b) == fo[b] # NoFo /\ status[b] # "assigned"

(* Looks from the start of the window on, not to its end. *)
BeginAssign(c, b, f, defaultKey) ==
  /\ call[c] = NoCall
  /\ status[b] \in {"pending_dispatch", "offered", "assigned"}
  /\ ~InvalidAssignment(b)
  /\ ~(status[b] = "assigned" /\ fo[b] = f)
  /\ window[b] # NoWindow => FoAvailable(b, f, Asked(b, window[b].start))
  /\ call' = [call EXCEPT ![c] =
       [kind |-> "assign", booking |-> b, from |-> status[b], fromFo |-> fo[b],
        fo |-> f, defaultKey |-> defaultKey]]
  /\ UNCHANGED <<vars, keys>>

(* The optimistic where clause of the update. *)
Unchanged(q) ==
  /\ status[q.booking] = q.from
  /\ q.from = "assigned" => fo[q.booking] = q.fromFo

(* The replay test: this booking was given to this FO before, at any time. *)
Replayed(q) == q.defaultKey /\ <<q.booking, q.fo>> \in keys

(* The transaction: re-checks, the replay test on the event key, the guarded *)
(* update, the event.  An earlier event with the same key ends it as done.   *)
CommitAssign(c) ==
  LET q == call[c] IN
  /\ q # NoCall
  /\ q.kind = "assign"
  /\ ~BookingLocked(q.booking)
  /\ IF ~InvalidAssignment(q.booking) /\ ~Replayed(q) /\ Unchanged(q)
       THEN /\ status' = [status EXCEPT ![q.booking] = "assigned"]
            /\ fo' = [fo EXCEPT ![q.booking] = q.fo]
            /\ keys' = IF q.defaultKey THEN keys \cup {<<q.booking, q.fo>>} ELSE keys
       ELSE UNCHANGED <<status, fo, keys>>
  /\ End(c)
  /\ UNCHANGED <<window, holds, minted, sales, req, now>>

-----------------------------------------------------------------------------
(* transitionBooking without a start time: no look at the calendar, and the  *)
(* window stays.  Start, Complete and Cancel of SlotHolds are the others.    *)
Schedule(b) == Transition(b, {"pending_payment"}, "pending_dispatch") /\ UNCHANGED routeVars
Reopen(b) == Transition(b, {"completed"}, "in_progress") /\ UNCHANGED routeVars

(* A call that fails or crashes between its read and its write. *)
Drop(c) == call[c] # NoCall /\ End(c) /\ UNCHANGED <<vars, keys>>

RoutesNext ==
  \/ Next /\ UNCHANGED routeVars
  \/ \E c \in Calls :
       \/ \E b \in Bookings, to \in Status, s \in Starts : BeginMove(c, b, to, s)
       \/ \E b \in Bookings, f \in FOs, k \in BOOLEAN : BeginAssign(c, b, f, k)
       \/ CommitMove(c) \/ CommitAssign(c) \/ Drop(c)
  \/ \E b \in Bookings : Schedule(b) \/ Reopen(b)

RoutesSpec == RoutesInit /\ [][RoutesNext]_allVars

(* The hold path is as fair as in SlotHolds; a call of a route may stop      *)
(* anywhere.                                                                 *)
RoutesFairSpec ==
  /\ RoutesSpec
  /\ WF_allVars(Tick /\ UNCHANGED routeVars)
  /\ SF_allVars(CleanupExpired /\ UNCHANGED routeVars)
  /\ \A r \in Requests : WF_allVars((Statement(r) \/ Abort(r)) /\ UNCHANGED routeVars)

-----------------------------------------------------------------------------
(* Properties *)

(* A job that has been started or has ended is handed to nobody else, and    *)
(* moved only by a call that has found it so: the late write of a schedule,  *)
(* assignment, confirmation or start that had read the booking before misses *)
(* it.  (The admin updates by id of module Dispatch do not.)                 *)
RunningJobStays ==
  [][\A b \in Bookings :
       status[b] \in {"in_progress", "completed", "canceled"} =>
         /\ fo'[b] = fo[b]
         /\ window'[b] # window[b] =>
              \E c \in Calls :
                /\ call[c] # NoCall /\ call'[c] = NoCall
                /\ call[c].kind = "move" /\ call[c].booking = b
                /\ call[c].from = status[b]]_allVars

(* A job that is assigned or under way has an FO, and none of these routes,  *)
(* however late it writes, puts a booking that was sold through a hold back  *)
(* on sale or into dispatch.                                                 *)
WorkHasFo ==
  /\ \A b \in Bookings : status[b] \in {"assigned", "in_progress"} => fo[b] # NoFo
  /\ \A s \in sales : status[s.booking] \notin {"pending_payment", "pending_dispatch"}
=============================================================================
