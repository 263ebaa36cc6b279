-------------------------- MODULE SlotHoldsProofs ---------------------------
(***************************************************************************)
(* For any numbers of bookings, FOs, windows, holds and requests, and any  *)
(* hold lifetime and transaction timeout: the hold path is type correct,   *)
(* never sells overlapping windows of an FO, sells a booking and a hold at *)
(* most once, sells no later than one timeout after the hold expires, and  *)
(* implements FoCalendar.                                                  *)
(***************************************************************************)
EXTENDS SlotHolds, TLAPS

(* Hold ids identify rows, for ever: the rows in the table, the rows that   *)
(* requests have read, and the rows that sold a booking.                    *)
IdsIdentify ==
  /\ \A h \in holds : h.id \in minted
  /\ \A g, h \in holds : g.id = h.id => g = h
  /\ \A r \in Requests : req[r].kind = "confirm" => req[r].hold.id \in minted
  /\ \A s \in sales : s.hold.id \in minted /\ \A h \in holds : h.id # s.hold.id

(* What the exclusion constraint gives. *)
HoldsDisjoint ==
  \A g, h \in holds : g # h /\ g.fo = h.fo => ~Overlaps(g.window, h.window)

(* A confirmation that has seen a free calendar can rely on it for as long  *)
(* as its hold row is there.                                                *)
PastCalendar(r) ==
  req[r].kind = "confirm" /\ req[r].stage \in {"assigned", "write", "consume"}

HoldKeepsWindow ==
  \A r \in Requests :
    PastCalendar(r) /\ req[r].hold \in holds =>
      ~Occupied(Bookings \ {req[r].booking}, req[r].hold.fo,
                req[r].hold.window, ActiveStatus)

(* The locked booking row: one owner, and still unsold. *)
LockHolds ==
  /\ \A r \in Requests :
       At(r, "confirm", "consume") => status[req[r].booking] = "pending_payment"
  /\ \A r, q \in Requests :
       /\ At(r, "confirm", "consume")
       /\ At(q, "confirm", "consume")
       /\ req[r].booking = req[q].booking
       => r = q

(* A confirmation begins while its hold lives and its window is ahead. *)
BeganInTime ==
  \A r \in Requests :
    req[r].kind = "confirm" =>
      /\ req[r].began < req[r].hold.expiresAt
      /\ req[r].began < req[r].hold.window.start

SoldIsSpent == \A s \in sales : status[s.booking] # "pending_payment"

IInv ==
  /\ TypeOK
  /\ IdsIdentify
  /\ HoldsDisjoint
  /\ HoldKeepsWindow
  /\ LockHolds
  /\ BeganInTime
  /\ SoldIsSpent
  /\ NoDoubleBooking
  /\ SoldOnce
  /\ SaleOnTime

-----------------------------------------------------------------------------
(* Every statement of createHold, confirmBookingFromHold, releaseHold and   *)
(* the cleanup leaves every variable of its type.                           *)
LEMMA TypeStep ==
  ASSUME TypeOK, [Next]_vars
  PROVE  TypeOK'
<1> USE BoundsAssumption
<1> USE DEF TypeOK, bookingVars, At, Goto, Finish, Idle, Status, ActiveStatus
<1>1. ASSUME NEW r \in Requests, NEW b \in Bookings, NEW f \in FOs,
             NEW w \in Windows, BeginCreate(r, b, f, w)
      PROVE TypeOK'
  BY <1>1 DEF BeginCreate, Creating
<1>2. ASSUME NEW r \in Requests, NEW b \in Bookings, NEW h \in holds,
             BeginConfirm(r, b, h)
      PROVE TypeOK'
  BY <1>2 DEF BeginConfirm, Confirming
<1>3. ASSUME NEW r \in Requests, NEW h \in holds, BeginRelease(r, h)
      PROVE TypeOK'
  BY <1>3 DEF BeginRelease, Releasing
<1>4. ASSUME NEW r \in Requests, CreatePurge(r) PROVE TypeOK'
  <2> DEFINE expired == {h \in holds : Expired(h)}
  <2>1. expired \in SUBSET Hold
    OBVIOUS
  <2>2. req[r] \in Creating
    BY <1>4 DEF CreatePurge, Confirming, Releasing
  <2>3. [req[r] EXCEPT !.stage = "check", !.purged = expired] \in Creating
    <3> HIDE DEF expired
    <3> QED BY <2>1, <2>2 DEF Creating
  <2>4. req' = [req EXCEPT ![r] =
                  [req[r] EXCEPT !.stage = "check", !.purged = expired]]
    BY <1>4 DEF CreatePurge
  <2> HIDE DEF expired
  <2>5. req' \in [Requests -> {Idle} \cup Creating \cup Confirming \cup Releasing]
    BY <2>3, <2>4
  <2>6. QED
    BY <1>4, <2>5 DEF CreatePurge
<1>5. ASSUME NEW r \in Requests, CreateCheck(r) PROVE TypeOK'
  BY <1>5 DEF CreateCheck, Creating, Confirming, Releasing
<1>6. ASSUME NEW r \in Requests, CreateInsert(r) PROVE TypeOK'
  BY <1>6 DEF CreateInsert, Creating, Confirming, Releasing, Hold
<1>7. ASSUME NEW r \in Requests, CreateRefused(r) PROVE TypeOK'
  BY <1>7 DEF CreateRefused
<1>8. ASSUME NEW r \in Requests, ConfirmCalendar(r) PROVE TypeOK'
  BY <1>8 DEF ConfirmCalendar, Creating, Confirming, Releasing
<1>9. ASSUME NEW r \in Requests, ConfirmAssigned(r) PROVE TypeOK'
  BY <1>9 DEF ConfirmAssigned, Creating, Confirming, Releasing
<1>10. ASSUME NEW r \in Requests, ConfirmWrite(r) PROVE TypeOK'
  BY <1>10 DEF ConfirmWrite, Creating, Confirming, Releasing
<1>11. ASSUME NEW r \in Requests, ConfirmConsume(r) PROVE TypeOK'
  BY <1>11 DEF ConfirmConsume, Creating, Confirming, Releasing, Hold, Sale
<1>12. ASSUME NEW r \in Requests, ConfirmHoldGone(r) PROVE TypeOK'
  BY <1>12 DEF ConfirmHoldGone
<1>13. ASSUME NEW r \in Requests, Release(r) PROVE TypeOK'
  BY <1>13 DEF Release
<1>14. ASSUME NEW r \in Requests, Abort(r) PROVE TypeOK'
  BY <1>14 DEF Abort
<1>15. ASSUME NEW b \in Bookings, Lifecycle(b) PROVE TypeOK'
  BY <1>15 DEF Lifecycle, Start, Complete, Cancel, Transition
<1>16. CASE CleanupExpired
  BY <1>16 DEF CleanupExpired
<1>17. CASE Tick
  BY <1>17 DEF Tick
<1>18. CASE UNCHANGED vars
  BY <1>18 DEF vars
<1>19. QED
  BY <1>1, <1>2, <1>3, <1>4, <1>5, <1>6, <1>7, <1>8, <1>9, <1>10, <1>11,
     <1>12, <1>13, <1>14, <1>15, <1>16, <1>17, <1>18
     DEF Next, Begin, Statement

(* The model is type correct: every column, hold row and request in flight  *)
(* stays of its type, in any instance.                                      *)
THEOREM TypeCorrect == Spec => []TypeOK
<1>1. Init => TypeOK
  BY DEF Init, TypeOK, Idle, Status, ActiveStatus
<1>2. TypeOK /\ [Next]_vars => TypeOK'
  BY TypeStep
<1>3. QED
  BY <1>1, <1>2, PTL DEF Spec

-----------------------------------------------------------------------------
(* Lemmas *)

LEMMA OverlapsSymmetric ==
  ASSUME NEW v \in Windows, NEW w \in Windows
  PROVE  Overlaps(v, w) <=> Overlaps(w, v)
BY DEF Overlaps, Calendar!Overlaps

(* A confirmation that moves to its next statement keeps what it has read.   *)
LEMMA ConfirmMoves ==
  ASSUME TypeOK, NEW r \in Requests, req[r].kind = "confirm",
         NEW s \in {"calendar", "assigned", "write", "consume"}, Goto(r, s)
  PROVE  /\ req'[r].kind = "confirm"
         /\ req'[r].stage = s
         /\ req'[r].booking = req[r].booking
         /\ req'[r].hold = req[r].hold
         /\ req'[r].began = req[r].began
         /\ \A q \in Requests \ {r} : req'[q] = req[q]
<1>1. req[r] \in Confirming
  BY DEF TypeOK, Idle, Creating, Releasing
<1>2. req' = [req EXCEPT ![r] = [req[r] EXCEPT !.stage = s]]
  BY DEF Goto
<1>3. QED
  BY <1>1, <1>2 DEF TypeOK, Confirming

(* The statements of createHold leave every confirmation as it is.           *)
LEMMA CreateMoves ==
  ASSUME TypeOK, NEW r \in Requests,
         CreatePurge(r) \/ CreateCheck(r) \/ CreateInsert(r) \/ CreateRefused(r)
  PROVE  /\ req'[r].kind \in {"create", "idle"}
         /\ \A q \in Requests \ {r} : req'[q] = req[q]
<1>1. req[r] \in Creating
  BY DEF TypeOK, Idle, Confirming, Releasing, At, CreatePurge, CreateCheck,
         CreateInsert, CreateRefused
<1>2. CASE CreatePurge(r)
  <2> DEFINE expired == {h \in holds : Expired(h)}
  <2>1. req' = [req EXCEPT ![r] =
                  [req[r] EXCEPT !.stage = "check", !.purged = expired]]
    BY <1>2 DEF CreatePurge
  <2> HIDE DEF expired
  <2>2. QED
    BY <1>1, <2>1 DEF TypeOK, Creating
<1>3. CASE CreateCheck(r)
  <2>1. \/ req' = [req EXCEPT ![r] = [req[r] EXCEPT !.stage = "insert"]]
        \/ req' = [req EXCEPT ![r] = Idle]
    BY <1>3 DEF CreateCheck, Goto, Finish
  <2>2. QED
    BY <1>1, <2>1 DEF TypeOK, Creating, Idle
<1>4. CASE CreateInsert(r) \/ CreateRefused(r)
  BY <1>4 DEF TypeOK, CreateInsert, CreateRefused, Finish, Idle
<1>5. QED
  BY <1>2, <1>3, <1>4

(* Six kinds of steps matter to the invariant: the four below that write,    *)
(* those that begin or advance a confirmation, and the rest, which keep every *)
(* confirmation where it is and at most remove hold rows.                     *)
Shrink ==
  /\ UNCHANGED <<bookingVars, minted, sales>>
  /\ holds' \subseteq holds
  /\ \A q \in Requests : req'[q].kind = "confirm" => req'[q] = req[q]

Advance(r) ==
  /\ UNCHANGED <<bookingVars, holds, minted, sales>>
  /\ req[r].kind = "confirm" /\ req'[r].kind = "confirm"
  /\ req'[r].booking = req[r].booking
  /\ req'[r].hold = req[r].hold
  /\ req'[r].began = req[r].began
  /\ \A q \in Requests \ {r} : req'[q] = req[q]
  /\ \/ /\ req'[r].stage = "assigned"
        /\ ~Occupied(Bookings \ {req[r].booking}, req[r].hold.fo,
                     req[r].hold.window, ActiveStatus)
     \/ req[r].stage = "assigned" /\ req'[r].stage = "write"
     \/ /\ req[r].stage = "write" /\ req'[r].stage = "consume"
        /\ status[req[r].booking] = "pending_payment"
        /\ ~BookingLocked(req[r].booking)

(* What a step can do to holds, sales and the confirmations in progress,    *)
(* in six kinds: the lemmas below go through these instead of all actions.  *)
LEMMA StepKinds ==
  ASSUME TypeOK, [Next]_vars
  PROVE  \/ Shrink
         \/ \E r \in Requests, b \in Bookings, h \in holds : BeginConfirm(r, b, h)
         \/ \E r \in Requests : Advance(r)
         \/ \E r \in Requests : CreateInsert(r)
         \/ \E r \in Requests : ConfirmConsume(r)
         \/ \E b \in Bookings : Lifecycle(b)
<1> USE DEF bookingVars, At, Finish, Idle
<1>1. ASSUME NEW r \in Requests, NEW b \in Bookings, NEW f \in FOs,
             NEW w \in Windows, BeginCreate(r, b, f, w)
      PROVE Shrink
  BY <1>1 DEF BeginCreate, Shrink, TypeOK
<1>2. ASSUME NEW r \in Requests, NEW h \in holds, BeginRelease(r, h)
      PROVE Shrink
  BY <1>2 DEF BeginRelease, Shrink, TypeOK
<1>3. ASSUME NEW r \in Requests, CreatePurge(r) \/ CreateCheck(r) \/ CreateRefused(r)
      PROVE Shrink
  <2>1. UNCHANGED <<bookingVars, minted, sales, holds>>
    BY <1>3 DEF CreatePurge, CreateCheck, CreateRefused
  <2>2. QED
    BY <1>3, <2>1, CreateMoves DEF Shrink
<1>4. ASSUME NEW r \in Requests, ConfirmCalendar(r) PROVE Shrink \/ Advance(r)
  <2>1. CASE Finish(r)
    BY <1>4, <2>1 DEF ConfirmCalendar, Shrink, TypeOK
  <2>2. CASE ~Finish(r)
    BY <1>4, <2>2, ConfirmMoves DEF ConfirmCalendar, Advance
  <2>3. QED
    BY <2>1, <2>2
<1>5. ASSUME NEW r \in Requests, ConfirmAssigned(r) PROVE Shrink \/ Advance(r)
  <2>1. CASE Finish(r)
    BY <1>5, <2>1 DEF ConfirmAssigned, Shrink, TypeOK
  <2>2. CASE ~Finish(r)
    BY <1>5, <2>2, ConfirmMoves DEF ConfirmAssigned, Advance
  <2>3. QED
    BY <2>1, <2>2
<1>6. ASSUME NEW r \in Requests, ConfirmWrite(r) PROVE Shrink \/ Advance(r)
  <2>1. CASE Finish(r)
    BY <1>6, <2>1 DEF ConfirmWrite, Shrink, TypeOK
  <2>2. CASE ~Finish(r)
    BY <1>6, <2>2, ConfirmMoves DEF ConfirmWrite, Advance
  <2>3. QED
    BY <2>1, <2>2
<1>7. ASSUME NEW r \in Requests, ConfirmHoldGone(r) \/ Release(r) \/ Abort(r)
      PROVE Shrink
  BY <1>7 DEF ConfirmHoldGone, Release, Abort, Shrink, TypeOK
<1>8. CASE CleanupExpired
  BY <1>8 DEF CleanupExpired, Shrink
<1>9. CASE Tick \/ UNCHANGED vars
  BY <1>9 DEF Tick, vars, Shrink
<1>10. QED
  BY <1>1, <1>2, <1>3, <1>4, <1>5, <1>6, <1>7, <1>8, <1>9
     DEF Next, Begin, Statement

-----------------------------------------------------------------------------
(* Every step preserves each part of the invariant.                         *)

(* A hold id keeps naming one row: createHold takes a fresh one.            *)
LEMMA IdsStep ==
  ASSUME TypeOK, IdsIdentify, [Next]_vars
  PROVE  IdsIdentify'
<1> USE DEF TypeOK, IdsIdentify, bookingVars
<1>1. CASE Shrink
  BY <1>1 DEF Shrink
<1>2. ASSUME NEW r \in Requests, NEW b \in Bookings, NEW h \in holds,
             BeginConfirm(r, b, h)
      PROVE IdsIdentify'
  BY <1>2 DEF BeginConfirm
<1>3. ASSUME NEW r \in Requests, Advance(r) PROVE IdsIdentify'
  BY <1>3 DEF Advance
<1>4. ASSUME NEW r \in Requests, CreateInsert(r) PROVE IdsIdentify'
  BY <1>4 DEF CreateInsert, Hold, Finish, Idle
<1>5. ASSUME NEW r \in Requests, ConfirmConsume(r) PROVE IdsIdentify'
  BY <1>5 DEF ConfirmConsume, Finish, Idle
<1>6. ASSUME NEW b \in Bookings, Lifecycle(b) PROVE IdsIdentify'
  BY <1>6 DEF Lifecycle, Start, Complete, Cancel, Transition
<1>7. QED
  BY <1>1, <1>2, <1>3, <1>4, <1>5, <1>6, StepKinds

(* The exclusion constraint keeps the holds of an FO apart: createHold      *)
(* inserts only where no row overlaps that it has not itself deleted.       *)
LEMMA DisjointStep ==
  ASSUME TypeOK, HoldsDisjoint, [Next]_vars
  PROVE  HoldsDisjoint'
<1> USE DEF TypeOK, HoldsDisjoint, bookingVars
<1>1. CASE Shrink
  BY <1>1 DEF Shrink
<1>2. ASSUME NEW r \in Requests, NEW b \in Bookings, NEW h \in holds,
             BeginConfirm(r, b, h)
      PROVE HoldsDisjoint'
  BY <1>2 DEF BeginConfirm
<1>3. ASSUME NEW r \in Requests, Advance(r) PROVE HoldsDisjoint'
  BY <1>3 DEF Advance
<1>4. ASSUME NEW r \in Requests, CreateInsert(r) PROVE HoldsDisjoint'
  <2> DEFINE q == req[r]
  <2>1. q.window \in Windows
    BY <1>4 DEF CreateInsert, At, Idle, Creating, Confirming, Releasing
  <2>2. \A h \in holds \ q.purged : h.fo = q.fo => ~Overlaps(h.window, q.window)
    BY <1>4 DEF CreateInsert, Excluded
  <2>3. \A h \in holds \ q.purged : h.fo = q.fo => ~Overlaps(q.window, h.window)
    BY <2>1, <2>2, OverlapsSymmetric DEF Hold
  <2>4. PICK i \in HoldIds \ minted :
          holds' = (holds \ q.purged) \cup
            {[id |-> i, booking |-> q.booking, fo |-> q.fo,
              window |-> q.window, expiresAt |-> q.expiresAt]}
    BY <1>4 DEF CreateInsert
  <2> DEFINE new == [id |-> i, booking |-> q.booking, fo |-> q.fo,
                     window |-> q.window, expiresAt |-> q.expiresAt]
  <2>5. new.fo = q.fo /\ new.window = q.window
    OBVIOUS
  <2>6. holds' = (holds \ q.purged) \cup {new}
    BY <2>4
  <2> HIDE DEF q, new
  <2>7. QED
    BY <2>2, <2>3, <2>5, <2>6
<1>5. ASSUME NEW r \in Requests, ConfirmConsume(r) PROVE HoldsDisjoint'
  BY <1>5 DEF ConfirmConsume
<1>6. ASSUME NEW b \in Bookings, Lifecycle(b) PROVE HoldsDisjoint'
  BY <1>6 DEF Lifecycle, Start, Complete, Cancel, Transition
<1>7. QED
  BY <1>1, <1>2, <1>3, <1>4, <1>5, <1>6, StepKinds

(* What a booking that is not sold in the step can do to a free window:      *)
(* nothing, its slot is the same and it enters no active status.             *)
LEMMA LifecycleFrees ==
  ASSUME TypeOK, NEW b \in Bookings, Lifecycle(b)
  PROVE  /\ UNCHANGED <<fo, window, holds, minted, sales, req>>
         /\ \A c \in Bookings \ {b} : status'[c] = status[c]
         /\ status'[b] # "pending_payment"
         /\ status'[b] \in ActiveStatus => status[b] \in ActiveStatus
         /\ ~BookingLocked(b)
BY DEF TypeOK, Lifecycle, Start, Complete, Cancel, Transition, ActiveStatus, Status

(* While its hold row is there, nobody else enters the window a             *)
(* confirmation has found free: they would need a hold that overlaps it.    *)
LEMMA KeepsWindowStep ==
  ASSUME TypeOK, IdsIdentify, HoldsDisjoint, HoldKeepsWindow, [Next]_vars
  PROVE  HoldKeepsWindow'
<1> USE DEF TypeOK, HoldKeepsWindow, PastCalendar, bookingVars
<1>1. CASE Shrink
  BY <1>1 DEF Shrink, Occupied
<1>2. ASSUME NEW r \in Requests, NEW b \in Bookings, NEW h \in holds,
             BeginConfirm(r, b, h)
      PROVE HoldKeepsWindow'
  BY <1>2 DEF BeginConfirm, Occupied
<1>3. ASSUME NEW r \in Requests, Advance(r) PROVE HoldKeepsWindow'
  BY <1>3 DEF Advance, Occupied
<1>4. ASSUME NEW r \in Requests, CreateInsert(r) PROVE HoldKeepsWindow'
  <2>1. \A q \in Requests : req'[q].kind = "confirm" => req'[q] = req[q]
    BY <1>4 DEF CreateInsert, Finish, Idle
  <2>2. \A h \in holds' : h.id \in minted => h \in holds
    BY <1>4 DEF CreateInsert
  <2>3. QED
    BY <1>4, <2>1, <2>2 DEF CreateInsert, IdsIdentify, Occupied
<1>5. ASSUME NEW r \in Requests, ConfirmConsume(r) PROVE HoldKeepsWindow'
  <2> SUFFICES ASSUME NEW q \in Requests, PastCalendar(q)', req'[q].hold \in holds',
                      NEW c \in Bookings \ {req'[q].booking},
                      status'[c] \in ActiveStatus,
                      fo'[c] = req'[q].hold.fo,
                      window'[c] # NoWindow,
                      Overlaps(window'[c], req'[q].hold.window)
               PROVE  FALSE
    BY DEF Occupied, Overlaps, Calendar!Overlaps
  <2>1. req'[q] = req[q] /\ q # r
    BY <1>5 DEF ConfirmConsume, Finish, Idle
  <2>2. req[q].hold \in holds /\ req[q].hold # req[r].hold
    BY <1>5, <2>1 DEF ConfirmConsume
  <2>3. CASE c = req[r].booking
    <3>1. fo'[c] = req[r].hold.fo /\ window'[c] = req[r].hold.window
      BY <1>5, <2>3 DEF ConfirmConsume
    <3>2. QED
      BY <1>5, <2>1, <2>2, <3>1 DEF ConfirmConsume, HoldsDisjoint
  <2>4. CASE c # req[r].booking
    <3>1. status'[c] = status[c] /\ fo'[c] = fo[c] /\ window'[c] = window[c]
      BY <1>5, <2>4 DEF ConfirmConsume
    <3>2. QED
      BY <2>1, <2>2, <3>1 DEF Occupied
  <2>5. QED
    BY <2>3, <2>4
<1>6. ASSUME NEW b \in Bookings, Lifecycle(b) PROVE HoldKeepsWindow'
  BY <1>6, LifecycleFrees DEF Occupied
<1>7. QED
  BY <1>1, <1>2, <1>3, <1>4, <1>5, <1>6, StepKinds

(* The row lock taken by the guarded update of confirmBookingFromHold has   *)
(* one owner, and the locked booking is still unsold.                       *)
LEMMA LockStep ==
  ASSUME TypeOK, LockHolds, [Next]_vars
  PROVE  LockHolds'
<1> USE DEF TypeOK, LockHolds, At, bookingVars
<1>1. CASE Shrink
  BY <1>1 DEF Shrink
<1>2. ASSUME NEW r \in Requests, NEW b \in Bookings, NEW h \in holds,
             BeginConfirm(r, b, h)
      PROVE LockHolds'
  BY <1>2 DEF BeginConfirm
<1>3. ASSUME NEW r \in Requests, Advance(r) PROVE LockHolds'
  BY <1>3 DEF Advance, BookingLocked
<1>4. ASSUME NEW r \in Requests, CreateInsert(r) PROVE LockHolds'
  BY <1>4 DEF CreateInsert, Finish, Idle
<1>5. ASSUME NEW r \in Requests, ConfirmConsume(r) PROVE LockHolds'
  BY <1>5 DEF ConfirmConsume, Finish, Idle
<1>6. ASSUME NEW b \in Bookings, Lifecycle(b) PROVE LockHolds'
  <2>1. \A q \in Requests : At(q, "confirm", "consume") => req[q].booking \in Bookings
    BY DEF Idle, Creating, Confirming, Releasing
  <2>2. QED
    BY <1>6, <2>1, LifecycleFrees DEF BookingLocked
<1>7. QED
  BY <1>1, <1>2, <1>3, <1>4, <1>5, <1>6, StepKinds

(* A confirmation starts from a hold that lives and a window ahead.         *)
LEMMA BeganStep ==
  ASSUME TypeOK, BeganInTime, [Next]_vars
  PROVE  BeganInTime'
<1> USE DEF TypeOK, BeganInTime, bookingVars
<1>1. CASE Shrink
  BY <1>1 DEF Shrink
<1>2. ASSUME NEW r \in Requests, NEW b \in Bookings, NEW h \in holds,
             BeginConfirm(r, b, h)
      PROVE BeganInTime'
  <2>1. h.expiresAt \in Nat /\ h.window.start \in Nat
    BY WindowsAssumption DEF Hold
  <2>2. now < h.expiresAt /\ now < h.window.start
    BY <1>2, <2>1 DEF BeginConfirm, Expired
  <2>3. \A q \in Requests \ {r} : req'[q] = req[q]
    BY <1>2 DEF BeginConfirm
  <2>4. req'[r].hold = h /\ req'[r].began = now
    BY <1>2 DEF BeginConfirm
  <2>5. QED
    BY <2>2, <2>3, <2>4
<1>3. ASSUME NEW r \in Requests, Advance(r) PROVE BeganInTime'
  BY <1>3 DEF Advance
<1>4. ASSUME NEW r \in Requests, CreateInsert(r) PROVE BeganInTime'
  BY <1>4 DEF CreateInsert, Finish, Idle
<1>5. ASSUME NEW r \in Requests, ConfirmConsume(r) PROVE BeganInTime'
  BY <1>5 DEF ConfirmConsume, Finish, Idle
<1>6. ASSUME NEW b \in Bookings, Lifecycle(b) PROVE BeganInTime'
  BY <1>6, LifecycleFrees
<1>7. QED
  BY <1>1, <1>2, <1>3, <1>4, <1>5, <1>6, StepKinds

(* A booking that was sold never waits for payment again.                   *)
LEMMA SpentStep ==
  ASSUME TypeOK, SoldIsSpent, [Next]_vars
  PROVE  SoldIsSpent'
<1> USE DEF TypeOK, SoldIsSpent, bookingVars
<1>1. CASE Shrink
  BY <1>1 DEF Shrink
<1>2. ASSUME NEW r \in Requests, NEW b \in Bookings, NEW h \in holds,
             BeginConfirm(r, b, h)
      PROVE SoldIsSpent'
  BY <1>2 DEF BeginConfirm
<1>3. ASSUME NEW r \in Requests, Advance(r) PROVE SoldIsSpent'
  BY <1>3 DEF Advance
<1>4. ASSUME NEW r \in Requests, CreateInsert(r) PROVE SoldIsSpent'
  BY <1>4 DEF CreateInsert
<1>5. ASSUME NEW r \in Requests, ConfirmConsume(r) PROVE SoldIsSpent'
  <2>1. req[r].booking \in Bookings
    BY <1>5 DEF ConfirmConsume, At, Idle, Creating, Confirming, Releasing
  <2>2. /\ status'[req[r].booking] = "assigned"
        /\ \A b \in Bookings \ {req[r].booking} : status'[b] = status[b]
    BY <1>5, <2>1 DEF ConfirmConsume
  <2>3. \A s \in sales' : s \in sales \/ s.booking = req[r].booking
    BY <1>5 DEF ConfirmConsume
  <2>4. QED
    BY <2>1, <2>2, <2>3 DEF Sale
<1>6. ASSUME NEW b \in Bookings, Lifecycle(b) PROVE SoldIsSpent'
  BY <1>6, LifecycleFrees DEF Sale
<1>7. QED
  BY <1>1, <1>2, <1>3, <1>4, <1>5, <1>6, StepKinds

(* No step puts two overlapping bookings on the calendar of an FO.          *)
LEMMA CalendarStep ==
  ASSUME TypeOK, HoldKeepsWindow, NoDoubleBooking, [Next]_vars
  PROVE  NoDoubleBooking'
<1> USE DEF TypeOK, NoDoubleBooking, OnCalendar, bookingVars
<1>1. CASE Shrink
  BY <1>1 DEF Shrink
<1>2. ASSUME NEW r \in Requests, NEW b \in Bookings, NEW h \in holds,
             BeginConfirm(r, b, h)
      PROVE NoDoubleBooking'
  BY <1>2 DEF BeginConfirm
<1>3. ASSUME NEW r \in Requests, Advance(r) PROVE NoDoubleBooking'
  BY <1>3 DEF Advance
<1>4. ASSUME NEW r \in Requests, CreateInsert(r) PROVE NoDoubleBooking'
  BY <1>4 DEF CreateInsert
<1>5. ASSUME NEW r \in Requests, ConfirmConsume(r) PROVE NoDoubleBooking'
  <2> DEFINE b == req[r].booking
             h == req[r].hold
  <2>1. b \in Bookings /\ h \in Hold
    BY <1>5 DEF ConfirmConsume, At, Idle, Creating, Confirming, Releasing
  <2>2. \A c \in Bookings \ {b} :
          OnCalendar(c) /\ fo[c] = h.fo => ~Overlaps(window[c], h.window)
    BY <1>5 DEF ConfirmConsume, HoldKeepsWindow, PastCalendar, At, Occupied
  <2>3. \A c \in Bookings \ {b} :
          OnCalendar(c) /\ fo[c] = h.fo => ~Overlaps(h.window, window[c])
    BY <2>1, <2>2, OverlapsSymmetric DEF Hold
  <2>4. /\ fo'[b] = h.fo /\ window'[b] = h.window
        /\ \A c \in Bookings \ {b} :
             status'[c] = status[c] /\ fo'[c] = fo[c] /\ window'[c] = window[c]
    BY <1>5, <2>1 DEF ConfirmConsume
  <2> HIDE DEF b, h
  <2>5. QED
    BY <2>2, <2>3, <2>4
<1>6. ASSUME NEW b \in Bookings, Lifecycle(b) PROVE NoDoubleBooking'
  BY <1>6, LifecycleFrees
<1>7. QED
  BY <1>1, <1>2, <1>3, <1>4, <1>5, <1>6, StepKinds

(* A step adds at most one sale, of an unsold booking, through a hold that  *)
(* never sold before, and in time.                                          *)
LEMMA SalesStep ==
  ASSUME TypeOK, IdsIdentify, LockHolds, BeganInTime, SoldIsSpent,
         SoldOnce, SaleOnTime, [Next]_vars
  PROVE  SoldOnce' /\ SaleOnTime'
<1>1. CASE UNCHANGED sales
  BY <1>1 DEF SoldOnce, SaleOnTime
<1>2. ASSUME NEW r \in Requests, ConfirmConsume(r) PROVE SoldOnce' /\ SaleOnTime'
  <2> DEFINE new == [booking |-> req[r].booking, hold |-> req[r].hold, at |-> now]
  <2>1. sales' = sales \cup {new}
    BY <1>2 DEF ConfirmConsume
  <2>2. \A s \in sales : s.booking # new.booking /\ s.hold.id # new.hold.id
    BY <1>2 DEF ConfirmConsume, LockHolds, SoldIsSpent, IdsIdentify
  <2>3. req[r] \in Confirming
    BY <1>2 DEF TypeOK, ConfirmConsume, At, Idle, Creating, Releasing
  <2>4. /\ new.at \in Nat /\ req[r].began \in Nat
        /\ new.hold.expiresAt \in Nat /\ new.hold.window.start \in Nat
    BY <2>3, WindowsAssumption DEF TypeOK, Confirming, Hold
  <2>5. /\ new.at < new.hold.expiresAt + TxTimeout
        /\ new.at < new.hold.window.start + TxTimeout
    BY <1>2, <2>3, <2>4, BoundsAssumption
       DEF ConfirmConsume, InTime, At, BeganInTime
  <2> HIDE DEF new
  <2>6. QED
    BY <2>1, <2>2, <2>5 DEF SoldOnce, SaleOnTime
<1>3. QED
  <2>1. CASE Shrink BY <1>1, <2>1 DEF Shrink
  <2>2. ASSUME NEW r \in Requests, NEW b \in Bookings, NEW h \in holds,
               BeginConfirm(r, b, h)
        PROVE UNCHANGED sales
    BY <2>2 DEF BeginConfirm
  <2>3. ASSUME NEW r \in Requests, Advance(r) PROVE UNCHANGED sales
    BY <2>3 DEF Advance
  <2>4. ASSUME NEW r \in Requests, CreateInsert(r) PROVE UNCHANGED sales
    BY <2>4 DEF CreateInsert
  <2>5. ASSUME NEW b \in Bookings, Lifecycle(b) PROVE UNCHANGED sales
    BY <2>5, LifecycleFrees
  <2>6. QED
    BY <1>1, <1>2, <2>1, <2>2, <2>3, <2>4, <2>5, StepKinds

-----------------------------------------------------------------------------
(* The invariant, and what follows from it.                                 *)

(* Every reachable state of the hold path satisfies the inductive           *)
(* invariant.                                                               *)
THEOREM Invariant == Spec => []IInv
<1>1. Init => IInv
  BY DEF Init, IInv, TypeOK, IdsIdentify, HoldsDisjoint, HoldKeepsWindow,
         PastCalendar, LockHolds, BeganInTime, SoldIsSpent, NoDoubleBooking,
         SoldOnce, SaleOnTime, OnCalendar, At, Idle, ActiveStatus, Status
<1>2. IInv /\ [Next]_vars => IInv'
  <2> SUFFICES ASSUME IInv, [Next]_vars PROVE IInv'
    OBVIOUS
  <2>1. TypeOK'
    BY TypeStep DEF IInv
  <2>2. QED
    BY <2>1, IdsStep, DisjointStep, KeepsWindowStep, LockStep, BeganStep,
       SpentStep, CalendarStep, SalesStep DEF IInv
<1>3. QED
  BY <1>1, <1>2, PTL DEF Spec

(* No FO is booked twice for overlapping windows, however createHold,       *)
(* confirmBookingFromHold, releases, cleanups and rollbacks interleave.     *)
THEOREM NeverDoubleBooked == Spec => []NoDoubleBooking
BY Invariant, PTL DEF IInv

(* A booking is sold at most once and a hold sells at most one booking.     *)
THEOREM EachSoldOnce == Spec => []SoldOnce
BY Invariant, PTL DEF IInv

(* A sale commits within one transaction timeout of the life of its hold.   *)
THEOREM SoldOnTime == Spec => []SaleOnTime
BY Invariant, PTL DEF IInv

(* A sale removes the hold row it was made through, in the same step.       *)
THEOREM SalesConsumeHolds == Spec => SaleConsumesHold
<1>1. TypeOK /\ [Next]_vars =>
        [\A s \in sales' \ sales : s.hold \in holds /\ s.hold \notin holds']_vars
  <2> SUFFICES ASSUME TypeOK, [Next]_vars, NEW s \in sales' \ sales
               PROVE  s.hold \in holds /\ s.hold \notin holds'
    OBVIOUS
  <2>1. PICK r \in Requests : ConfirmConsume(r)
    <3>1. CASE Shrink BY <3>1 DEF Shrink
    <3>2. ASSUME NEW r \in Requests, NEW b \in Bookings, NEW h \in holds,
                 BeginConfirm(r, b, h)
          PROVE FALSE
      BY <3>2 DEF BeginConfirm
    <3>3. ASSUME NEW r \in Requests, Advance(r) PROVE FALSE
      BY <3>3 DEF Advance
    <3>4. ASSUME NEW r \in Requests, CreateInsert(r) PROVE FALSE
      BY <3>4 DEF CreateInsert
    <3>5. ASSUME NEW b \in Bookings, Lifecycle(b) PROVE FALSE
      BY <3>5, LifecycleFrees
    <3>6. QED
      BY <3>1, <3>2, <3>3, <3>4, <3>5, StepKinds
  <2>2. QED
    BY <2>1 DEF ConfirmConsume
<1>2. QED
  BY <1>1, TypeCorrect, PTL DEF Spec, SaleConsumesHold

-----------------------------------------------------------------------------
(* Refinement: a confirmation is a sale, a cancellation or a completion      *)
(* takes a booking off the calendar, and every other step is invisible.      *)

CalendarOf == [b \in Bookings |->
                 IF OnCalendar(b) THEN [fo |-> fo[b], window |-> window[b]]
                                  ELSE NoSlot]
SpentOf == {b \in Bookings : status[b] # "pending_payment"}

(* The commit of confirmBookingFromHold is a Sell of the abstract           *)
(* calendar.                                                                *)
LEMMA SaleRefines ==
  ASSUME IInv, NEW r \in Requests, ConfirmConsume(r)
  PROVE  Calendar!CalendarNext
<1>0. PICK b \in Bookings, h \in Hold : req[r].booking = b /\ req[r].hold = h
  BY DEF IInv, TypeOK, ConfirmConsume, At, Idle, Creating, Confirming, Releasing
<1> DEFINE slot == [fo |-> h.fo, window |-> h.window]
<1>1. slot \in Calendar!Slot
  BY DEF Hold, Calendar!Slot
<1>2. b \notin SpentOf
  BY <1>0 DEF IInv, LockHolds, ConfirmConsume, SpentOf
<1>3. ASSUME NEW c \in Bookings \ {b}, CalendarOf[c] # NoSlot
      PROVE  ~Calendar!Clash(CalendarOf[c], slot)
  <2>1. OnCalendar(c) /\ CalendarOf[c].fo = fo[c] /\ CalendarOf[c].window = window[c]
    BY <1>3 DEF CalendarOf
  <2>2. fo[c] = h.fo => ~Overlaps(window[c], h.window)
    BY <1>0, <1>3, <2>1 DEF IInv, HoldKeepsWindow, PastCalendar, ConfirmConsume, At,
                      Occupied, OnCalendar
  <2>3. QED
    BY <2>1, <2>2 DEF Calendar!Clash, Overlaps
<1>4. CalendarOf' = [CalendarOf EXCEPT ![b] = slot]
  <2>1. /\ status'[b] = "assigned"
        /\ fo'[b] = slot.fo /\ window'[b] = slot.window
        /\ \A c \in Bookings \ {b} :
             status'[c] = status[c] /\ fo'[c] = fo[c] /\ window'[c] = window[c]
    BY <1>0 DEF IInv, TypeOK, ConfirmConsume
  <2>2. OnCalendar(b)'
    BY <2>1, NullsAssumption DEF OnCalendar, ActiveStatus, Hold
  <2>3. \A c \in Bookings \ {b} : OnCalendar(c)' <=> OnCalendar(c)
    BY <2>1 DEF OnCalendar
  <2>4. QED
    BY <2>1, <2>2, <2>3 DEF CalendarOf
<1>5. SpentOf' = SpentOf \cup {b}
  BY <1>0 DEF IInv, TypeOK, ConfirmConsume, SpentOf
<1>6. Calendar!Sell(b, slot)
  <2> HIDE DEF slot
  <2> QED BY <1>2, <1>3, <1>4, <1>5 DEF Calendar!Sell, CalendarOf, SpentOf
<1>7. QED
  BY <1>1, <1>6 DEF Calendar!CalendarNext

(* Starting, completing and canceling a booking is a Leave or a stutter of  *)
(* the abstract calendar.                                                   *)
LEMMA LifecycleRefines ==
  ASSUME IInv, NEW b \in Bookings, Lifecycle(b)
  PROVE  Calendar!CalendarNext \/ UNCHANGED <<CalendarOf, SpentOf>>
<1> USE DEF IInv, TypeOK
<1>1. /\ UNCHANGED <<fo, window>>
      /\ \A c \in Bookings \ {b} : status'[c] = status[c]
  BY LifecycleFrees
<1>2. CASE Start(b)
  <2>1. status[b] = "assigned" /\ status'[b] = "in_progress"
    BY <1>2 DEF Start, Transition
  <2>2. \A c \in Bookings : OnCalendar(c)' <=> OnCalendar(c)
    BY <1>1, <2>1 DEF OnCalendar, ActiveStatus
  <2>3. CalendarOf' = CalendarOf
    BY <1>1, <2>2 DEF CalendarOf
  <2>4. SpentOf' = SpentOf
    BY <1>1, <2>1 DEF SpentOf
  <2>5. QED
    BY <2>3, <2>4
<1>3. CASE Complete(b) \/ Cancel(b)
  <2>1. status'[b] \in {"completed", "canceled"}
    BY <1>3 DEF Complete, Cancel, Transition
  <2>2. ~OnCalendar(b)' /\ \A c \in Bookings \ {b} : OnCalendar(c)' <=> OnCalendar(c)
    BY <1>1, <2>1 DEF OnCalendar, ActiveStatus
  <2>3. CalendarOf' = [CalendarOf EXCEPT ![b] = NoSlot]
    BY <1>1, <2>2 DEF CalendarOf
  <2>4. SpentOf' = SpentOf \cup {b}
    BY <1>1, <2>1 DEF SpentOf
  <2>5. Calendar!Leave(b)
    BY <2>3, <2>4 DEF Calendar!Leave, CalendarOf, SpentOf
  <2>6. QED
    BY <2>5 DEF Calendar!CalendarNext
<1>4. QED
  BY <1>2, <1>3 DEF Lifecycle

(* The hold path implements FoCalendar: no behaviour of createHold,          *)
(* confirmBookingFromHold, releaseHold and the cleanups breaks its promise.  *)
THEOREM Refinement == Spec => ImplementsCalendar
<1>1. Init => Calendar!CalendarInit
  BY DEF Init, Calendar!CalendarInit, OnCalendar, ActiveStatus
<1>2. IInv /\ [Next]_vars => [Calendar!CalendarNext]_(Calendar!cvars)
  <2> SUFFICES ASSUME IInv, [Next]_vars
               PROVE  Calendar!CalendarNext \/ UNCHANGED <<CalendarOf, SpentOf>>
    BY DEF Calendar!cvars, CalendarOf, SpentOf
  <2>1. CASE UNCHANGED bookingVars
    BY <2>1 DEF bookingVars, CalendarOf, SpentOf, OnCalendar
  <2>2. ASSUME NEW r \in Requests, ConfirmConsume(r) PROVE Calendar!CalendarNext
    BY <2>2, SaleRefines
  <2>3. ASSUME NEW b \in Bookings, Lifecycle(b)
        PROVE  Calendar!CalendarNext \/ UNCHANGED <<CalendarOf, SpentOf>>
    BY <2>3, LifecycleRefines
  <2>4. QED
    BY <2>1, <2>2, <2>3, StepKinds
       DEF IInv, Shrink, BeginConfirm, Advance, CreateInsert, bookingVars
<1>3. QED
  BY <1>1, <1>2, Invariant, PTL DEF Spec, ImplementsCalendar, Calendar!CalendarSpec
=============================================================================
