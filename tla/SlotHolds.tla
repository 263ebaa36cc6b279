----------------------------- MODULE SlotHolds ------------------------------
(***************************************************************************)
(* Slot holds and their confirmation (slot-holds.service.ts, the cleanup   *)
(* worker, and confirmBookingFromHold in bookings.service.ts), statement   *)
(* by statement under Postgres READ COMMITTED.                             *)
(*                                                                         *)
(* A client puts a 60 second hold on a window of an FO, pays the deposit,  *)
(* and confirms: one transaction re-checks everything, assigns the booking *)
(* and deletes the hold row.  Requests interleave between statements; a    *)
(* transaction's writes are seen by others when it commits; a row it has   *)
(* written or deleted is locked until it ends; a crash, a lost connection  *)
(* or the transaction timeout rolls it back.                               *)
(*                                                                         *)
(* A request that is refused, or answered from an earlier success          *)
(* ({alreadyApplied: true}), writes nothing and so is no step here.        *)
(***************************************************************************)
EXTENDS Integers, FiniteSets

CONSTANTS Bookings, FOs, Windows, NoSlot,
          HoldIds,    \* primary keys of BookingSlotHold rows, never reused
          Requests,   \* concurrent API calls
          NoFo,       \* Booking.foId = NULL
          NoWindow,   \* Booking.scheduledStart = NULL
          HoldTtl,    \* SlotHoldsService.HOLD_SECONDS
          TxTimeout,  \* the time Prisma lets an interactive transaction run
          MaxTime     \* bound on the clock

VARIABLES
  status, fo, window,  \* columns of Booking: status, foId, scheduled window
  holds,               \* the committed rows of BookingSlotHold
  minted,              \* hold ids already used
  sales,               \* BookingEvent rows pending_payment -> assigned
  req,                 \* what each request is in the middle of
  now                  \* the servers' clock

vars == <<status, fo, window, holds, minted, sales, req, now>>
bookingVars == <<status, fo, window>>

(* The abstract calendar this module implements. *)
ActiveStatus == {"pending_dispatch", "offered", "assigned", "in_progress"}
OnCalendar(b) == /\ status[b] \in ActiveStatus
                 /\ fo[b] # NoFo
                 /\ window[b] # NoWindow

Calendar == INSTANCE FoCalendar WITH
  calendar <- [b \in Bookings |-> IF OnCalendar(b)
                                    THEN [fo |-> fo[b], window |-> window[b]]
                                    ELSE NoSlot],
  spent <- {b \in Bookings : status[b] # "pending_payment"}

Overlaps(v, w) == Calendar!Overlaps(v, w)

ASSUME BoundsAssumption ==
  HoldTtl \in Nat \ {0} /\ TxTimeout \in Nat /\ MaxTime \in Nat
(* assertWindow: a window is not empty. *)
ASSUME WindowsAssumption ==
  \A w \in Windows : w \in [start : Nat, end : Nat] /\ w.start < w.end
ASSUME NullsAssumption ==
  NoFo \notin FOs /\ NoWindow \notin Windows /\ NoSlot \notin Calendar!Slot

-----------------------------------------------------------------------------
(* Types *)

Status == ActiveStatus \cup {"pending_payment", "completed", "canceled"}

Hold == [id : HoldIds, booking : Bookings, fo : FOs, window : Windows,
         expiresAt : Nat]

Sale == [booking : Bookings, hold : Hold, at : Nat]

Idle == [kind |-> "idle"]

(* createHold, before each of its statements; purged is what its            *)
(* transaction has deleted and still locks.                                 *)
Creating == [kind : {"create"}, stage : {"purge", "check", "insert"},
             booking : Bookings, fo : FOs, window : Windows,
             expiresAt : Nat, began : Nat, purged : SUBSET Hold]

(* confirmBookingFromHold, before each of its statements; hold is the row   *)
(* as it was read.  From "consume" on it has the Booking row locked.        *)
Confirming == [kind : {"confirm"},
               stage : {"calendar", "assigned", "write", "consume"},
               booking : Bookings, hold : Hold, began : Nat]

(* releaseHold, between its read and its delete. *)
Releasing == [kind : {"release"}, hold : Hold]

TypeOK ==
  /\ status \in [Bookings -> Status]
  /\ fo \in [Bookings -> FOs \cup {NoFo}]
  /\ window \in [Bookings -> Windows \cup {NoWindow}]
  /\ holds \subseteq Hold
  /\ minted \subseteq HoldIds
  /\ sales \subseteq Sale
  /\ req \in [Requests -> {Idle} \cup Creating \cup Confirming \cup Releasing]
  /\ now \in Nat

Init ==
  /\ status = [b \in Bookings |-> "pending_payment"]
  /\ fo = [b \in Bookings |-> NoFo]
  /\ window = [b \in Bookings |-> NoWindow]
  /\ holds = {}
  /\ minted = {}
  /\ sales = {}
  /\ req = [r \in Requests |-> Idle]
  /\ now = 0

-----------------------------------------------------------------------------
(* Helpers *)

At(r, kind, stage) == req[r].kind = kind /\ req[r].stage = stage

Goto(r, stage) == req' = [req EXCEPT ![r].stage = stage]
Finish(r) == req' = [req EXCEPT ![r] = Idle]

(* A transaction older than the timeout runs no further statement. *)
InTime(r) == now <= req[r].began + TxTimeout

Expired(h) == h.expiresAt <= now

(* Row locks. *)
HoldLocked(h) == \E r \in Requests : req[r].kind = "create" /\ h \in req[r].purged
BookingLocked(b) == \E r \in Requests : At(r, "confirm", "consume") /\ req[r].booking = b

(* One of these bookings, in one of the statuses S, occupies the FO in the  *)
(* window.                                                                  *)
Occupied(bookings, f, w, S) ==
  \E c \in bookings :
    /\ status[c] \in S
    /\ fo[c] = f
    /\ window[c] # NoWindow
    /\ Overlaps(window[c], w)

(* Fault: a unique index on (foId, startAt, endAt) in place of the exclusion *)
(* constraint.                                                              *)
FaultExcludedSameWindow(f, w) == {h \in holds : h.fo = f /\ h.window = w}

(* Rows that the exclusion constraint sets against a new row. *)
Excluded(f, w) == {h \in holds : h.fo = f /\ Overlaps(h.window, w)}

-----------------------------------------------------------------------------
(* createHold *)

(* The checks before the transaction: the start is in the future, the FO is *)
(* eligible (left open: either answer is possible at any time), and the     *)
(* expiry is computed.  MaxTime bounds the expiry.                          *)
BeginCreate(r, b, f, w) ==
  /\ req[r] = Idle
  /\ w.start > now
  /\ now + HoldTtl <= MaxTime
  /\ req' = [req EXCEPT ![r] =
       [kind |-> "create", stage |-> "purge", booking |-> b, fo |-> f,
        window |-> w, expiresAt |-> now + HoldTtl, began |-> now, purged |-> {}]]
  /\ UNCHANGED <<bookingVars, holds, minted, sales, now>>

(* deleteMany expired: waits for a row another transaction has deleted. *)
CreatePurge(r) ==
  /\ At(r, "create", "purge")
  /\ InTime(r)
  /\ \A h \in holds : Expired(h) => ~HoldLocked(h)
  /\ req' = [req EXCEPT ![r].stage = "check",
                        ![r].purged = {h \in holds : Expired(h)}]
  /\ UNCHANGED <<bookingVars, holds, minted, sales, now>>

(* assertNoBookingConflict: a conflict rolls the transaction back. *)
CreateCheck(r) ==
  /\ At(r, "create", "check")
  /\ InTime(r)
  /\ IF Occupied(Bookings, req[r].fo, req[r].window, ActiveStatus)
       THEN Finish(r)
       ELSE Goto(r, "insert")
  /\ UNCHANGED <<bookingVars, holds, minted, sales, now>>

(* The insert, and the commit that follows it at once.  The exclusion       *)
(* constraint counts every row, expired or not, that the transaction has    *)
(* not deleted itself; it waits for a row that another one has deleted.     *)
CreateInsert(r) ==
  LET q == req[r]
      against == Excluded(q.fo, q.window) \ q.purged IN
  /\ At(r, "create", "insert")
  /\ InTime(r)
  /\ against = {}
  /\ \E i \in HoldIds \ minted :
       /\ holds' = (holds \ q.purged) \cup
            {[id |-> i, booking |-> q.booking, fo |-> q.fo,
              window |-> q.window, expiresAt |-> q.expiresAt]}
       /\ minted' = minted \cup {i}
  /\ Finish(r)
  /\ UNCHANGED <<bookingVars, sales, now>>

(* The constraint refuses the row: FO_SLOT_ALREADY_HELD, rolled back. *)
CreateRefused(r) ==
  /\ At(r, "create", "insert")
  /\ InTime(r)
  /\ \E h \in Excluded(req[r].fo, req[r].window) \ req[r].purged : ~HoldLocked(h)
  /\ Finish(r)
  /\ UNCHANGED <<bookingVars, holds, minted, sales, now>>

-----------------------------------------------------------------------------
(* confirmBookingFromHold *)

(* Fault: the expiry is not compared with the clock. *)
FaultBeginConfirmExpired(r, b, h) ==
  /\ req[r] = Idle
  /\ h \in holds
  /\ h.window.start > now
  /\ status[b] = "pending_payment"
  /\ req' = [req EXCEPT ![r] =
       [kind |-> "confirm", stage |-> "calendar", booking |-> b, hold |-> h,
        began |-> now]]
  /\ UNCHANGED <<bookingVars, holds, minted, sales, now>>

(* Reads the booking and the hold, and makes the checks that need no other  *)
(* row.  Any hold is accepted for any booking: the route does not compare   *)
(* hold.bookingId with the booking.                                         *)
BeginConfirm(r, b, h) ==
  /\ req[r] = Idle
  /\ h \in holds
  /\ ~Expired(h)
  /\ h.window.start > now
  /\ status[b] = "pending_payment"
  /\ req' = [req EXCEPT ![r] =
       [kind |-> "confirm", stage |-> "calendar", booking |-> b, hold |-> h,
        began |-> now]]
  /\ UNCHANGED <<bookingVars, holds, minted, sales, now>>

(* existingBookings: FO_NOT_AVAILABLE_AT_SCHEDULED_TIME. *)
ConfirmCalendar(r) ==
  /\ At(r, "confirm", "calendar")
  /\ InTime(r)
  /\ IF Occupied(Bookings \ {req[r].booking}, req[r].hold.fo,
                 req[r].hold.window, ActiveStatus)
       THEN Finish(r)
       ELSE Goto(r, "assigned")
  /\ UNCHANGED <<bookingVars, holds, minted, sales, now>>

(* otherBookings: FO_SLOT_ALREADY_BOOKED. *)
ConfirmAssigned(r) ==
  /\ At(r, "confirm", "assigned")
  /\ InTime(r)
  /\ IF Occupied(Bookings \ {req[r].booking}, req[r].hold.fo,
                 req[r].hold.window, {"assigned", "in_progress"})
       THEN Finish(r)
       ELSE Goto(r, "write")
  /\ UNCHANGED <<bookingVars, holds, minted, sales, now>>

(* Fault: an update by id alone, that trusts the status read before. *)
FaultConfirmWriteUnguarded(r) ==
  /\ At(r, "confirm", "write")
  /\ InTime(r)
  /\ ~BookingLocked(req[r].booking)
  /\ Goto(r, "consume")
  /\ UNCHANGED <<bookingVars, holds, minted, sales, now>>

(* updateMany where status = pending_payment: waits for the row lock, then  *)
(* either has the row locked and written, or finds it changed and ends.     *)
ConfirmWrite(r) ==
  /\ At(r, "confirm", "write")
  /\ InTime(r)
  /\ ~BookingLocked(req[r].booking)
  /\ IF status[req[r].booking] = "pending_payment"
       THEN Goto(r, "consume")
       ELSE Finish(r)
  /\ UNCHANGED <<bookingVars, holds, minted, sales, now>>

(* Fault: deleteMany, which does not mind that the row is gone. *)
FaultConfirmConsumeMany(r) ==
  LET q == req[r] IN
  /\ At(r, "confirm", "consume")
  /\ InTime(r)
  /\ ~HoldLocked(q.hold)
  /\ status' = [status EXCEPT ![q.booking] = "assigned"]
  /\ fo' = [fo EXCEPT ![q.booking] = q.hold.fo]
  /\ window' = [window EXCEPT ![q.booking] = q.hold.window]
  /\ sales' = sales \cup {[booking |-> q.booking, hold |-> q.hold, at |-> now]}
  /\ holds' = holds \ {q.hold}
  /\ Finish(r)
  /\ UNCHANGED <<minted, now>>

(* The audit event, the delete of the hold row, and the commit that makes   *)
(* the three writes visible together.                                       *)
ConfirmConsume(r) ==
  LET q == req[r] IN
  /\ At(r, "confirm", "consume")
  /\ InTime(r)
  /\ ~HoldLocked(q.hold)
  /\ q.hold \in holds
  /\ status' = [status EXCEPT ![q.booking] = "assigned"]
  /\ fo' = [fo EXCEPT ![q.booking] = q.hold.fo]
  /\ window' = [window EXCEPT ![q.booking] = q.hold.window]
  /\ sales' = sales \cup {[booking |-> q.booking, hold |-> q.hold, at |-> now]}
  /\ holds' = holds \ {q.hold}
  /\ Finish(r)
  /\ UNCHANGED <<minted, now>>

(* The hold row is gone: the delete fails (P2025) and everything is undone. *)
ConfirmHoldGone(r) ==
  /\ At(r, "confirm", "consume")
  /\ InTime(r)
  /\ req[r].hold \notin holds
  /\ Finish(r)
  /\ UNCHANGED <<bookingVars, holds, minted, sales, now>>

-----------------------------------------------------------------------------
(* releaseHold, cleanup, rollbacks, the rest of a booking's life, the clock *)

BeginRelease(r, h) ==
  /\ req[r] = Idle
  /\ h \in holds
  /\ req' = [req EXCEPT ![r] = [kind |-> "release", hold |-> h]]
  /\ UNCHANGED <<bookingVars, holds, minted, sales, now>>

(* Deletes the row read, or fails with P2025 when it is gone. *)
Release(r) ==
  /\ req[r].kind = "release"
  /\ ~HoldLocked(req[r].hold)
  /\ holds' = holds \ {req[r].hold}
  /\ Finish(r)
  /\ UNCHANGED <<bookingVars, minted, sales, now>>

(* Fault: the comparison the wrong way round, gt for lte. *)
FaultCleanupLive ==
  /\ \E h \in holds : h.expiresAt > now
  /\ \A h \in holds : h.expiresAt > now => ~HoldLocked(h)
  /\ holds' = {h \in holds : h.expiresAt <= now}
  /\ UNCHANGED <<bookingVars, minted, sales, req, now>>

(* SlotHoldCleanupWorker and cleanupExpired: one statement. *)
CleanupExpired ==
  /\ \E h \in holds : Expired(h)
  /\ \A h \in holds : Expired(h) => ~HoldLocked(h)
  /\ holds' = {h \in holds : ~Expired(h)}
  /\ UNCHANGED <<bookingVars, minted, sales, req, now>>

(* Crash of the process, lost connection, or timeout: Postgres rolls back. *)
Abort(r) ==
  /\ req[r] # Idle
  /\ Finish(r)
  /\ UNCHANGED <<bookingVars, holds, minted, sales, now>>

(* transitionBooking without a start time, as the routes /start, /complete  *)
(* and /cancel call it, as far as this module's columns go: an update       *)
(* guarded by the status that was read.  With a start time it also writes   *)
(* the window: module CalendarRoutes.                                       *)
Transition(b, from, to) ==
  /\ status[b] \in from
  /\ ~BookingLocked(b)
  /\ status' = [status EXCEPT ![b] = to]
  /\ UNCHANGED <<fo, window, holds, minted, sales, req, now>>

Start(b) == Transition(b, {"assigned"}, "in_progress")
Complete(b) == Transition(b, {"in_progress"}, "completed")
(* Fault: the other spelling in the BookingStatus enumeration. *)
FaultCancelSpelling(b) == Transition(b, Status \ {"completed", "canceled"}, "cancelled")
Cancel(b) == Transition(b, Status \ {"completed", "canceled"}, "canceled")

Tick ==
  /\ now < MaxTime
  /\ now' = now + 1
  /\ UNCHANGED <<bookingVars, holds, minted, sales, req>>

-----------------------------------------------------------------------------

Statement(r) ==
  \/ CreatePurge(r) \/ CreateCheck(r) \/ CreateInsert(r) \/ CreateRefused(r)
  \/ ConfirmCalendar(r) \/ ConfirmAssigned(r) \/ ConfirmWrite(r)
  \/ ConfirmConsume(r) \/ ConfirmHoldGone(r)
  \/ Release(r)

Begin(r) ==
  \/ \E b \in Bookings, f \in FOs, w \in Windows : BeginCreate(r, b, f, w)
  \/ \E b \in Bookings, h \in holds : BeginConfirm(r, b, h)
  \/ \E h \in holds : BeginRelease(r, h)

Lifecycle(b) == Start(b) \/ Complete(b) \/ Cancel(b)

Next ==
  \/ \E r \in Requests : Begin(r) \/ Statement(r) \/ Abort(r)
  \/ \E b \in Bookings : Lifecycle(b)
  \/ CleanupExpired
  \/ Tick

Spec == Init /\ [][Next]_vars

(* A transaction runs on or is rolled back by its timeout; the cleanup      *)
(* timer fires every minute, and a DELETE that waits for a row lock is      *)
(* served when the holder of the lock ends, however often others take it.   *)
Fairness ==
  /\ WF_vars(Tick)
  /\ SF_vars(CleanupExpired)
  /\ \A r \in Requests : WF_vars(Statement(r) \/ Abort(r))

FairSpec == Spec /\ Fairness

-----------------------------------------------------------------------------
(* Properties *)

(* Two bookings on the calendar of one FO never overlap, whatever createHold *)
(* and confirmBookingFromHold interleave: the exclusion constraint keeps     *)
(* overlapping holds apart, and a confirmation commits only by deleting its  *)
(* hold.                                                                     *)
NoDoubleBooking ==
  \A b, c \in Bookings :
    b # c /\ OnCalendar(b) /\ OnCalendar(c) /\ fo[b] = fo[c]
      => ~Overlaps(window[b], window[c])

(* A booking is confirmed at most once and a hold confirms at most one       *)
(* booking, also when two confirmations of either run at the same time.      *)
SoldOnce ==
  \A s, t \in sales :
    s # t => s.booking # t.booking /\ s.hold.id # t.hold.id

(* A confirmation commits no later than one transaction timeout after its    *)
(* hold expires or its window starts: the expiry and the start are compared  *)
(* with the clock once, when the hold is read.                               *)
SaleOnTime ==
  \A s \in sales :
    /\ s.at < s.hold.expiresAt + TxTimeout
    /\ s.at < s.hold.window.start + TxTimeout

(* A confirmation commits only together with the removal of its hold: one    *)
(* that was released, cleaned up or used meanwhile undoes the confirmation.  *)
SaleConsumesHold ==
  [][\A s \in sales' \ sales : s.hold \in holds /\ s.hold \notin holds']_vars

(* The hold path implements the calendar it promises. *)
ImplementsCalendar == Calendar!CalendarSpec

(* An abandoned hold does not keep its window from others for ever: every    *)
(* hold is confirmed, released or cleaned up in the end.                     *)
HoldsAreFreed ==
  \A i \in HoldIds : (\E h \in holds : h.id = i) ~> (\A h \in holds : h.id # i)
=============================================================================
