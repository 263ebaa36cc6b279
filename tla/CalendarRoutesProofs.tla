------------------------ MODULE CalendarRoutesProofs -------------------------
(***************************************************************************)
(* For any numbers of bookings, FOs, windows, holds, requests and calls:   *)
(* with the routes that write the calendar without a hold next to the hold *)
(* path, everything stays type correct, late writes miss a job under way   *)
(* (RunningJobStays), work has an FO and what was sold stays sold          *)
(* (WorkHasFo), and sales are still made once and in time.  What does not  *)
(* survive is NoDoubleBooking: TLC shows it.  SerialRoutesKeepCalendar     *)
(* says which steps must not overlap, and which looks must be longer, for  *)
(* it to hold.                                                             *)
(*                                                                         *)
(* The steps of the hold path keep their parts of the invariant by the     *)
(* lemmas of SlotHoldsProofs; new here are the steps of the routes.        *)
(***************************************************************************)
EXTENDS CalendarRoutes, SlotHoldsProofs

(* WorkHasFo is not inductive: a completed job can be reopened. *)
DoneHasFo == \A b \in Bookings : status[b] = "completed" => fo[b] # NoFo

(* Nobody gives an FO to a booking that has not been paid. *)
UnpaidHasNoFo == \A b \in Bookings : status[b] = "pending_payment" => fo[b] = NoFo

(* What the calls rely on, next to what the hold path relies on.  What the  *)
(* free calendar gives a confirmation is missing: a call can take it away.  *)
RoutesIInv ==
  /\ RoutesTypeOK
  /\ IdsIdentify
  /\ LockHolds
  /\ BeganInTime
  /\ SoldOnce
  /\ SaleOnTime
  /\ DoneHasFo
  /\ UnpaidHasNoFo
  /\ WorkHasFo

-----------------------------------------------------------------------------
(* The steps of the routes *)

(* The writes of the routes, to one booking that no confirmation has        *)
(* locked: a transition, which moves the booking if it carries a start      *)
(* time, or an assignment.                                                  *)
MovedByCall(b) ==
  \E c \in Calls :
    /\ call[c] # NoCall /\ call'[c] = NoCall
    /\ call[c].kind = "move" /\ call[c].booking = b
    /\ call[c].from = status[b]

Shifts(b) ==
  /\ <<status[b], status'[b]>> \in Steps
  /\ fo'[b] = fo[b]
  /\ window'[b] # window[b] => MovedByCall(b)

Assigns(b) ==
  /\ status[b] \in {"pending_dispatch", "assigned", "offered"}
  /\ window'[b] = window[b]
  /\ status'[b] = "assigned"
  /\ fo'[b] \in FOs

RouteWrite(b) ==
  /\ ~BookingLocked(b)
  /\ UNCHANGED <<holds, minted, sales, req, now>>
  /\ status' \in [Bookings -> Status]
  /\ fo' \in [Bookings -> FOs \cup {NoFo}]
  /\ window' \in [Bookings -> Windows \cup {NoWindow}]
  /\ \A a \in Bookings \ {b} :
       status'[a] = status[a] /\ fo'[a] = fo[a] /\ window'[a] = window[a]
  /\ Shifts(b) \/ Assigns(b)

(* What a call can be. *)
CallState == Moving \cup Assigning \cup {NoCall}

(* The start of the booking's move, and its end as it was or as computed:   *)
(* a window.                                                                *)
LEMMA PatchIsWindow ==
  ASSUME TypeOK, NEW b \in Bookings, NEW s \in Starts
  PROVE  Patch(b, s) \in Windows /\ Patch(b, s).start = s
BY MovesAssumption DEF TypeOK, Patch

(* What getTransition allows, as far as the invariant goes. *)
LEMMA StepFacts ==
  ASSUME NEW from, NEW to, <<from, to>> \in Steps
  PROVE  /\ from \in Status /\ to \in Status
         /\ to # "pending_payment"
         /\ to = "pending_dispatch" => from \in {"pending_payment", "pending_dispatch"}
         /\ to \in {"assigned", "in_progress", "completed"} =>
              from \in {"assigned", "in_progress", "completed"}
BY DEF Steps, Status, ActiveStatus

(* A transition without a start time. *)
LEMMA PlainShifts ==
  ASSUME RoutesTypeOK, NEW b \in Bookings, Schedule(b) \/ Reopen(b)
  PROVE  RouteWrite(b)
<1>1. PICK from \in {"pending_payment", "completed"}, to \in Status :
        /\ <<from, to>> \in Steps
        /\ Transition(b, {from}, to) /\ UNCHANGED routeVars
  BY DEF Schedule, Reopen, Steps, Status, ActiveStatus
<1>2. /\ status[b] = from /\ status' = [status EXCEPT ![b] = to] /\ ~BookingLocked(b)
      /\ UNCHANGED <<fo, window, holds, minted, sales, req, now>>
  BY <1>1 DEF Transition
<1>3. Shifts(b)
  BY <1>1, <1>2 DEF Shifts, RoutesTypeOK, TypeOK
<1>4. QED BY <1>1, <1>2, <1>3 DEF RouteWrite, RoutesTypeOK, TypeOK

(* A step is one of the hold path's, or writes one booking, or writes none. *)
LEMMA RouteKinds ==
  ASSUME RoutesTypeOK, RoutesNext
  PROVE  [Next]_vars \/ \E b \in Bookings : RouteWrite(b)
<1> USE DEF RoutesTypeOK, TypeOK
<1>1. ASSUME NEW c \in Calls, CommitMove(c)
      PROVE  UNCHANGED vars \/ \E b \in Bookings : RouteWrite(b)
  <2>1. PICK q \in Moving : q = call[c]
    BY <1>1 DEF CommitMove, Assigning
  <2>2. q.booking \in Bookings /\ q.window \in Windows /\ <<q.from, q.to>> \in Steps
    BY DEF Moving
  <2>3. CASE status[q.booking] = q.from
    <3>1. /\ status' = [status EXCEPT ![q.booking] = q.to]
          /\ window' = [window EXCEPT ![q.booking] = q.window]
          /\ UNCHANGED <<fo, holds, minted, sales, req, now>>
          /\ ~BookingLocked(q.booking)
      BY <1>1, <2>1, <2>3 DEF CommitMove
    <3>2. MovedByCall(q.booking)
      BY <1>1, <2>1, <2>3 DEF CommitMove, End, MovedByCall
    <3>3. Shifts(q.booking)
      BY <2>2, <2>3, <3>1, <3>2 DEF Shifts
    <3>4. RouteWrite(q.booking)
      BY <2>2, <3>1, <3>3, StepFacts DEF RouteWrite
    <3>5. QED BY <2>2, <3>4
  <2>4. CASE status[q.booking] # q.from
    BY <1>1, <2>1, <2>4 DEF CommitMove, vars
  <2>5. QED BY <2>3, <2>4
<1>2. ASSUME NEW c \in Calls, CommitAssign(c)
      PROVE  UNCHANGED vars \/ \E b \in Bookings : RouteWrite(b)
  <2>1. PICK q \in Assigning : q = call[c]
    BY <1>2 DEF CommitAssign, Moving
  <2>2. /\ q.booking \in Bookings /\ q.fo \in FOs
        /\ q.from \in {"pending_dispatch", "assigned", "offered"}
    BY DEF Assigning
  <2>3. CASE ~InvalidAssignment(q.booking) /\ ~Replayed(q) /\ Unchanged(q)
    <3>1. /\ status' = [status EXCEPT ![q.booking] = "assigned"]
          /\ fo' = [fo EXCEPT ![q.booking] = q.fo]
          /\ UNCHANGED <<window, holds, minted, sales, req, now>>
          /\ ~BookingLocked(q.booking)
      BY <1>2, <2>1, <2>3 DEF CommitAssign
    <3>2. status[q.booking] = q.from
      BY <2>3 DEF Unchanged
    <3>3. Assigns(q.booking)
      BY <2>2, <3>1, <3>2 DEF Assigns
    <3>4. RouteWrite(q.booking)
      BY <2>2, <3>1, <3>3 DEF RouteWrite, Status, ActiveStatus
    <3>5. QED BY <2>2, <3>4
  <2>4. CASE ~(~InvalidAssignment(q.booking) /\ ~Replayed(q) /\ Unchanged(q))
    BY <1>2, <2>1, <2>4 DEF CommitAssign, vars
  <2>5. QED BY <2>3, <2>4
<1>3. ASSUME NEW c \in Calls, Drop(c) PROVE UNCHANGED vars
  BY <1>3 DEF Drop
<1>4. ASSUME NEW c \in Calls, NEW b \in Bookings, NEW to \in Status, NEW s \in Starts,
             BeginMove(c, b, to, s)
      PROVE  UNCHANGED vars
  BY <1>4 DEF BeginMove
<1>5. ASSUME NEW c \in Calls, NEW b \in Bookings, NEW f \in FOs, NEW k \in BOOLEAN,
             BeginAssign(c, b, f, k)
      PROVE  UNCHANGED vars
  BY <1>5 DEF BeginAssign
<1>6. QED BY <1>1, <1>2, <1>3, <1>4, <1>5, PlainShifts DEF RoutesNext

(* A call begins with what it has read, and ends. *)
LEMMA CallStep ==
  ASSUME RoutesTypeOK, RoutesNext
  PROVE  call' \in [Calls -> CallState] /\ keys' \subseteq Bookings \X FOs
<1> DEFINE Goal == call' \in [Calls -> CallState] /\ keys' \subseteq Bookings \X FOs
<1>a. call \in [Calls -> CallState] /\ keys \subseteq Bookings \X FOs
  BY DEF RoutesTypeOK, CallState
<1>1. ASSUME NEW c \in Calls, NEW what \in CallState, call' = [call EXCEPT ![c] = what]
      PROVE  call' \in [Calls -> CallState]
  BY <1>1, <1>a
<1>2. ASSUME NEW c \in Calls, End(c) PROVE call' \in [Calls -> CallState]
  BY <1>1, <1>2 DEF End, CallState
<1>3. ASSUME UNCHANGED routeVars PROVE Goal
  BY <1>3, <1>a DEF routeVars
<1>4. ASSUME NEW c \in Calls, NEW b \in Bookings, NEW to \in Status, NEW s \in Starts,
             BeginMove(c, b, to, s)
      PROVE  Goal
  <2> DEFINE what == [kind |-> "move", booking |-> b, from |-> status[b], to |-> to,
                      window |-> Patch(b, s)]
  <2>1. Patch(b, s) \in Windows /\ <<status[b], to>> \in Steps
    BY <1>4, PatchIsWindow DEF RoutesTypeOK, BeginMove
  <2>2. what \in CallState
    BY <2>1 DEF RoutesTypeOK, TypeOK, CallState, Moving
  <2>3. call' = [call EXCEPT ![c] = what] /\ keys' = keys
    BY <1>4 DEF BeginMove
  <2> HIDE DEF what
  <2>4. QED BY <1>1, <1>a, <2>2, <2>3
<1>5. ASSUME NEW c \in Calls, NEW b \in Bookings, NEW f \in FOs, NEW k \in BOOLEAN,
             BeginAssign(c, b, f, k)
      PROVE  Goal
  <2> DEFINE what == [kind |-> "assign", booking |-> b, from |-> status[b], fromFo |-> fo[b],
                      fo |-> f, defaultKey |-> k]
  <2>1. status[b] \in {"pending_dispatch", "offered", "assigned"}
    BY <1>5 DEF BeginAssign
  <2>2. what \in CallState
    BY <2>1 DEF RoutesTypeOK, TypeOK, CallState, Assigning
  <2>3. call' = [call EXCEPT ![c] = what] /\ keys' = keys
    BY <1>5 DEF BeginAssign
  <2> HIDE DEF what
  <2>4. QED BY <1>1, <1>a, <2>2, <2>3
<1>6. ASSUME NEW c \in Calls, CommitMove(c) \/ Drop(c) PROVE Goal
  BY <1>2, <1>6, <1>a DEF CommitMove, Drop
<1>7. ASSUME NEW c \in Calls, CommitAssign(c) PROVE Goal
  <2>1. <<call[c].booking, call[c].fo>> \in Bookings \X FOs
    BY <1>7 DEF CommitAssign, RoutesTypeOK, Moving, Assigning
  <2>2. keys' \subseteq Bookings \X FOs
    BY <1>7, <1>a, <2>1 DEF CommitAssign
  <2>3. QED BY <1>2, <1>7, <2>2 DEF CommitAssign
<1>8. ASSUME NEW b \in Bookings, Schedule(b) \/ Reopen(b) PROVE Goal
  BY <1>3, <1>8 DEF Schedule, Reopen
<1>9. QED BY <1>3, <1>4, <1>5, <1>6, <1>7, <1>8 DEF RoutesNext

-----------------------------------------------------------------------------
(* Every step keeps each part of the invariant *)

(* The columns a route writes keep their types. *)
LEMMA RoutesTypeStep ==
  ASSUME RoutesTypeOK, RoutesNext
  PROVE  RoutesTypeOK'
<1>1. TypeOK'
  <2>1. CASE [Next]_vars
    BY <2>1, TypeStep DEF RoutesTypeOK
  <2>2. ASSUME NEW b \in Bookings, RouteWrite(b) PROVE TypeOK'
    BY <2>2 DEF RouteWrite, RoutesTypeOK, TypeOK
  <2>3. QED BY <2>1, <2>2, RouteKinds
<1>2. QED BY <1>1, CallStep DEF RoutesTypeOK, CallState

(* A write of a route leaves the parts about holds, requests and sales      *)
(* alone, and misses a booking that a confirmation has locked.              *)
LEMMA RouteWriteKeeps ==
  ASSUME RoutesIInv, NEW b \in Bookings, RouteWrite(b)
  PROVE  /\ IdsIdentify' /\ LockHolds' /\ BeganInTime' /\ SoldOnce' /\ SaleOnTime'
         /\ DoneHasFo' /\ UnpaidHasNoFo' /\ WorkHasFo'
<1>1. /\ UNCHANGED <<holds, minted, sales, req, now>>
      /\ ~BookingLocked(b)
      /\ \A a \in Bookings \ {b} :
           status'[a] = status[a] /\ fo'[a] = fo[a] /\ window'[a] = window[a]
  BY DEF RouteWrite
<1>2. IdsIdentify' /\ BeganInTime' /\ SoldOnce' /\ SaleOnTime'
  BY <1>1 DEF RoutesIInv, IdsIdentify, BeganInTime, SoldOnce, SaleOnTime
<1>3. LockHolds'
  <2>1. \A r \in Requests :
          At(r, "confirm", "consume") => req[r].booking \in Bookings \ {b}
    BY <1>1 DEF RoutesIInv, RoutesTypeOK, TypeOK, BookingLocked, At, Idle, Creating, Confirming,
                Releasing
  <2>2. QED BY <1>1, <2>1 DEF RoutesIInv, LockHolds, At
<1>4. /\ status'[b] \in {"assigned", "in_progress", "completed"} => fo'[b] # NoFo
      /\ status'[b] = "pending_dispatch" => status[b] \in {"pending_payment", "pending_dispatch"}
      /\ status'[b] # "pending_payment"
  <2>1. CASE Shifts(b)
    BY <2>1, StepFacts DEF Shifts, RoutesIInv, WorkHasFo, DoneHasFo
  <2>2. CASE Assigns(b)
    BY <2>2, NullsAssumption DEF Assigns
  <2>3. QED BY <2>1, <2>2 DEF RouteWrite
<1>5. DoneHasFo' /\ UnpaidHasNoFo' /\ WorkHasFo'
  BY <1>1, <1>4 DEF RoutesIInv, RoutesTypeOK, TypeOK, Sale, WorkHasFo, DoneHasFo, UnpaidHasNoFo
<1>6. QED BY <1>2, <1>3, <1>5

(* What the commit of a confirmation does to the bookings. *)
LEMMA ConsumeWrites ==
  ASSUME TypeOK, LockHolds, NEW r \in Requests, ConfirmConsume(r)
  PROVE  \E b \in Bookings, h \in Hold :
           /\ status[b] = "pending_payment"
           /\ status'[b] = "assigned" /\ fo'[b] = h.fo
           /\ \A a \in Bookings \ {b} :
                status'[a] = status[a] /\ fo'[a] = fo[a] /\ window'[a] = window[a]
           /\ sales' = sales \cup {[booking |-> b, hold |-> h, at |-> now]}
<1>1. req[r].booking \in Bookings /\ req[r].hold \in Hold
  BY DEF TypeOK, ConfirmConsume, At, Idle, Creating, Confirming, Releasing
<1>2. status[req[r].booking] = "pending_payment"
  BY DEF LockHolds, ConfirmConsume
<1>3. QED BY <1>1, <1>2 DEF ConfirmConsume, TypeOK

(* What starting, completing and canceling do to the bookings. *)
LEMMA LifecycleWrites ==
  ASSUME TypeOK, NEW b \in Bookings, Lifecycle(b)
  PROVE  /\ UNCHANGED <<fo, window, sales>>
         /\ \A a \in Bookings \ {b} : status'[a] = status[a]
         /\ \/ status[b] = "assigned" /\ status'[b] = "in_progress"
            \/ status[b] = "in_progress" /\ status'[b] = "completed"
            \/ status'[b] = "canceled"
BY DEF TypeOK, Lifecycle, Start, Complete, Cancel, Transition

(* The hold path gives a booking that it sells an FO, and none back. *)
LEMMA HoldPathKeepsFo ==
  ASSUME RoutesIInv, [Next]_vars
  PROVE  DoneHasFo' /\ UnpaidHasNoFo' /\ WorkHasFo'
<1> USE DEF DoneHasFo, UnpaidHasNoFo, WorkHasFo
<1> DEFINE Goal == DoneHasFo' /\ UnpaidHasNoFo' /\ WorkHasFo'
<1>a. TypeOK /\ LockHolds /\ DoneHasFo /\ UnpaidHasNoFo /\ WorkHasFo
  BY DEF RoutesIInv, RoutesTypeOK
<1>b. \A s \in sales : s.booking \in Bookings
  BY <1>a DEF TypeOK, Sale
<1>1. CASE UNCHANGED <<bookingVars, sales>>
  BY <1>1, <1>a DEF bookingVars
<1>2. ASSUME NEW r \in Requests, ConfirmConsume(r) PROVE Goal
  <2>1. PICK b \in Bookings, h \in Hold :
          /\ status'[b] = "assigned" /\ fo'[b] = h.fo
          /\ \A a \in Bookings \ {b} :
               status'[a] = status[a] /\ fo'[a] = fo[a] /\ window'[a] = window[a]
          /\ sales' = sales \cup {[booking |-> b, hold |-> h, at |-> now]}
    BY <1>2, <1>a, ConsumeWrites
  <2>2. fo'[b] # NoFo
    BY <2>1, NullsAssumption DEF Hold
  <2>3. \A s \in sales' : s.booking = b \/ s \in sales
    BY <2>1
  <2>4. QED BY <1>a, <1>b, <2>1, <2>2, <2>3
<1>3. ASSUME NEW b \in Bookings, Lifecycle(b) PROVE Goal
  BY <1>3, <1>a, <1>b, LifecycleWrites
<1>4. QED
  BY <1>a, <1>1, <1>2, <1>3, StepKinds
  DEF Shrink, BeginConfirm, Advance, CreateInsert, bookingVars

(* The invariant holds at the start and every step keeps it. *)
THEOREM RoutesInvariant == RoutesSpec => []RoutesIInv
<1>1. RoutesInit => RoutesIInv
  BY DEF RoutesInit, Init, RoutesIInv, RoutesTypeOK, TypeOK, IdsIdentify, LockHolds, BeganInTime,
         SoldOnce, SaleOnTime, DoneHasFo, UnpaidHasNoFo, WorkHasFo, At, Idle, ActiveStatus,
         Status
<1>2. RoutesIInv /\ [RoutesNext]_allVars => RoutesIInv'
  <2> SUFFICES ASSUME RoutesIInv, [RoutesNext]_allVars PROVE RoutesIInv'
    OBVIOUS
  <2>1. CASE RoutesNext
    <3>1. RoutesTypeOK'
      BY <2>1, RoutesTypeStep DEF RoutesIInv
    <3>2. CASE [Next]_vars
      <4>1. SoldIsSpent
        BY DEF RoutesIInv, WorkHasFo, SoldIsSpent
      <4>2. IdsIdentify' /\ LockHolds' /\ BeganInTime' /\ SoldOnce' /\ SaleOnTime'
        BY <3>2, <4>1, IdsStep, LockStep, BeganStep, SalesStep DEF RoutesIInv, RoutesTypeOK
      <4>3. QED BY <3>1, <3>2, <4>2, HoldPathKeepsFo DEF RoutesIInv
    <3>3. ASSUME NEW b \in Bookings, RouteWrite(b) PROVE RoutesIInv'
      BY <3>1, <3>3, RouteWriteKeeps DEF RoutesIInv
    <3>4. QED BY <2>1, <3>2, <3>3, RouteKinds DEF RoutesIInv
  <2>2. CASE UNCHANGED allVars
    BY <2>2 DEF allVars, vars, RoutesIInv, RoutesTypeOK, TypeOK, IdsIdentify, LockHolds,
                BeganInTime, SoldOnce, SaleOnTime, DoneHasFo, UnpaidHasNoFo, WorkHasFo, At
  <2>3. QED BY <2>1, <2>2
<1>3. QED BY <1>1, <1>2, PTL DEF RoutesSpec

-----------------------------------------------------------------------------
(* What follows *)

(* Every column, row, request and call in flight stays of its type.         *)
THEOREM RoutesTypeCorrect == RoutesSpec => []RoutesTypeOK
BY RoutesInvariant, PTL DEF RoutesIInv

(* Work has an FO, and no late schedule or assignment puts a booking that    *)
(* was sold through a hold back on sale or into dispatch.                    *)
THEOREM WorkKeepsItsFo == RoutesSpec => []WorkHasFo
BY RoutesInvariant, PTL DEF RoutesIInv

(* The routes do not make the hold path sell a booking or a hold twice, or   *)
(* too late.                                                                 *)
THEOREM RoutesSellOnceOnTime == RoutesSpec => [](SoldOnce /\ SaleOnTime)
BY RoutesInvariant, PTL DEF RoutesIInv

(* A job that has been started or has ended keeps its FO, and its window but *)
(* for the call that has found it so, however late the writes of schedules,  *)
(* assignments, starts and confirmations that had read it before.            *)
THEOREM RunningJobsStay == RoutesSpec => RunningJobStays
<1> DEFINE Stays(a) == fo'[a] = fo[a] /\ (window'[a] # window[a] => MovedByCall(a))
<1>1. RoutesIInv /\ [RoutesNext]_allVars =>
        [\A a \in Bookings :
           status[a] \in {"in_progress", "completed", "canceled"} => Stays(a)]_allVars
  <2> SUFFICES ASSUME RoutesIInv, [RoutesNext]_allVars, NEW a \in Bookings,
                      status[a] \in {"in_progress", "completed", "canceled"}
               PROVE  Stays(a)
    OBVIOUS
  <2>1. CASE UNCHANGED bookingVars
    BY <2>1 DEF bookingVars
  <2>2. ASSUME NEW b \in Bookings, RouteWrite(b) PROVE Stays(a)
    BY <2>2 DEF RouteWrite, Shifts, Assigns
  <2>3. ASSUME NEW r \in Requests, ConfirmConsume(r) PROVE Stays(a)
    BY <2>3, ConsumeWrites DEF RoutesIInv, RoutesTypeOK
  <2>4. ASSUME NEW b \in Bookings, Lifecycle(b) PROVE Stays(a)
    BY <2>4, LifecycleWrites DEF RoutesIInv, RoutesTypeOK
  <2>5. CASE [Next]_vars
    BY <2>1, <2>3, <2>4, <2>5, StepKinds
    DEF RoutesIInv, RoutesTypeOK, Shrink, BeginConfirm, Advance, CreateInsert, bookingVars
  <2>6. QED BY <2>1, <2>2, <2>5, RouteKinds DEF RoutesIInv, allVars, vars, bookingVars
<1>2. RoutesIInv /\ [RoutesNext]_allVars =>
        [\A b \in Bookings :
           status[b] \in {"in_progress", "completed", "canceled"} =>
             /\ fo'[b] = fo[b]
             /\ window'[b] # window[b] =>
                  \E c \in Calls :
                    /\ call[c] # NoCall /\ call'[c] = NoCall
                    /\ call[c].kind = "move" /\ call[c].booking = b
                    /\ call[c].from = status[b]]_allVars
  BY <1>1 DEF MovedByCall
<1>3. QED
  BY <1>2, RoutesInvariant, PTL DEF RoutesSpec, RunningJobStays

-----------------------------------------------------------------------------
(* What it would take to keep NoDoubleBooking: looks that cover what is     *)
(* written, the calls for one FO, and those for one booking, one after the  *)
(* other, no call for an FO while a confirmation relies on its calendar,    *)
(* and no reopening without a start time.  The code has no such looks and   *)
(* no such locks, and TLC shows two calls that book an FO twice; with locks *)
(* per FO alone it still finds a booking that is given to another FO and    *)
(* moved to another time by two calls, each of which has looked.            *)

Running(c) == call[c] # NoCall

(* The FO that a call has looked for, and the window that the booking will  *)
(* have when it has written.                                                *)
Target(c) ==
  IF call[c].kind = "assign" THEN call[c].fo ELSE fo[call[c].booking]
Wanted(c) ==
  IF call[c].kind = "assign" THEN window[call[c].booking] ELSE call[c].window

OneWriter ==
  /\ \A c, d \in Calls :
       c # d /\ Running(c) /\ Running(d) =>
         /\ call[c].booking # call[d].booking
         /\ Target(c) = NoFo \/ Target(c) # Target(d)
  /\ \A c \in Calls, r \in Requests :
       Running(c) /\ PastCalendar(r) => Target(c) # req[r].hold.fo

Reopening == \E b \in Bookings : Reopen(b)
NobodyReopens == [][~Reopening]_allVars

(* What a call writes lies within what it has looked for: the end that a    *)
(* move keeps, or computes from the snapshot, and the end of the window of  *)
(* a booking that is assigned, are not past the estimated hours.            *)
Covered(c) ==
  Target(c) # NoFo /\ Wanted(c) # NoWindow =>
    Wanted(c).end <= Wanted(c).start + Hours[call[c].booking]

LooksCoverWrites == \A c \in Calls : Running(c) => Covered(c)

(* Until it writes, what a call will write is free.  A booking that has not  *)
(* been paid has no FO to be looked for, and is sold meanwhile or not.       *)
SeesFree(c) ==
  LET b == call[c].booking IN
  call[c].from # "pending_payment" =>
    /\ status[b] # "pending_payment"
    /\ Target(c) # NoFo /\ Wanted(c) # NoWindow => FoAvailable(b, Target(c), Wanted(c))

CallsSeeFree == \A c \in Calls : Running(c) => SeesFree(c)

CalendarIInv ==
  /\ HoldsDisjoint
  /\ HoldKeepsWindow
  /\ NoDoubleBooking
  /\ CallsSeeFree

LEMMA CallTypes ==
  ASSUME RoutesTypeOK, NEW c \in Calls, Running(c)
  PROVE  /\ call[c] \in Moving \/ call[c] \in Assigning
         /\ call[c].booking \in Bookings
         /\ Target(c) \in FOs \cup {NoFo}
         /\ Wanted(c) \in Windows \cup {NoWindow}
BY DEF RoutesTypeOK, TypeOK, Running, Target, Wanted, Moving, Assigning

(* A write to bookings[b] of other FOs, or off the calendar, leaves what    *)
(* was free free.                                                           *)
LEMMA StaysFree ==
  ASSUME NEW S, NEW b, NEW f, NEW w, ~Occupied(S, f, w, ActiveStatus),
         \A a \in S \ {b} : status'[a] = status[a] /\ fo'[a] = fo[a] /\ window'[a] = window[a],
         b \in S => \/ fo'[b] # f
                    \/ status'[b] \notin ActiveStatus
                    \/ /\ status[b] \in ActiveStatus
                       /\ fo'[b] = fo[b] /\ window'[b] = window[b]
  PROVE  ~Occupied(S, f, w, ActiveStatus)'
BY DEF Occupied, Overlaps, Calendar!Overlaps

(* A step that leaves a call, the FO and the window of its booking, and     *)
(* what will be written free alone.                                         *)
LEMMA StillSeesFree ==
  ASSUME NEW c \in Calls, call'[c] = call[c], SeesFree(c),
         NEW b, b = call[c].booking,
         status[b] # "pending_payment" => status'[b] # "pending_payment",
         fo'[b] = fo[b], window'[b] = window[b],
         \A f, w : /\ f = Target(c) /\ f # NoFo
                   /\ ~Occupied(Bookings \ {b}, f, w, ActiveStatus)
                   => ~Occupied(Bookings \ {b}, f, w, ActiveStatus)'
  PROVE  SeesFree(c)'
<1>1. Target(c)' = Target(c) /\ Wanted(c)' = Wanted(c) /\ call'[c].booking = b
  BY DEF Target, Wanted
<1>2. SUFFICES ASSUME call[c].from # "pending_payment"
               PROVE  /\ status'[b] # "pending_payment"
                      /\ Target(c) # NoFo /\ Wanted(c) # NoWindow =>
                           ~Occupied(Bookings \ {b}, Target(c), Wanted(c), ActiveStatus)'
  BY <1>1 DEF SeesFree, FoAvailable
<1>3. status'[b] # "pending_payment"
  BY <1>2 DEF SeesFree
<1>4. ASSUME Target(c) # NoFo, Wanted(c) # NoWindow
      PROVE  ~Occupied(Bookings \ {b}, Target(c), Wanted(c), ActiveStatus)'
  <2>1. ~Occupied(Bookings \ {b}, Target(c), Wanted(c), ActiveStatus)
    BY <1>2, <1>4 DEF SeesFree, FoAvailable
  <2>2. \A f, w : f = Target(c) /\ w = Wanted(c) =>
                    ~Occupied(Bookings \ {b}, f, w, ActiveStatus)'
    BY <1>4, <2>1
  <2>3. \A f, w : f = Target(c)' /\ w = Wanted(c)' =>
                    ~Occupied(Bookings \ {b}, f, w, ActiveStatus)'
    BY <1>1, <2>2
  <2>4. QED
    BY <2>3 DEF Occupied, Overlaps, Calendar!Overlaps
<1>5. QED BY <1>3, <1>4

(* The hold path takes nothing away from a call: a confirmation sells the   *)
(* window of another FO, or the call's booking, which then was not paid.    *)
LEMMA HoldPathLeavesFree ==
  ASSUME RoutesIInv, OneWriter, CallsSeeFree, [Next]_vars, UNCHANGED routeVars
  PROVE  CallsSeeFree'
<1> SUFFICES ASSUME NEW c \in Calls, Running(c)' PROVE SeesFree(c)'
  BY DEF CallsSeeFree
<1>1. call'[c] = call[c] /\ Running(c) /\ SeesFree(c)
  BY DEF routeVars, Running, CallsSeeFree
<1>2. TypeOK /\ LockHolds
  BY DEF RoutesIInv, RoutesTypeOK
<1>b. PICK b \in Bookings : b = call[c].booking
  BY <1>1, CallTypes DEF RoutesIInv
<1>3. CASE UNCHANGED bookingVars
  BY <1>1, <1>3 DEF SeesFree, Target, Wanted, FoAvailable, Occupied, bookingVars
<1>4. ASSUME NEW r \in Requests, ConfirmConsume(r) PROVE SeesFree(c)'
  <2>1. PICK a \in Bookings, h \in Hold : a = req[r].booking /\ h = req[r].hold
    BY <1>2, <1>4 DEF TypeOK, ConfirmConsume, At, Idle, Creating, Confirming, Releasing
  <2>2. /\ status[a] = "pending_payment" /\ status'[a] = "assigned"
        /\ fo'[a] = h.fo
        /\ \A e \in Bookings \ {a} :
             status'[e] = status[e] /\ fo'[e] = fo[e] /\ window'[e] = window[e]
    BY <1>2, <1>4, <2>1 DEF TypeOK, LockHolds, ConfirmConsume
  <2>3. Target(c) # h.fo
    BY <1>1, <1>4, <2>1 DEF OneWriter, PastCalendar, ConfirmConsume, At
  <2>4. CASE a = b
    BY <1>1, <1>b, <2>2, <2>4 DEF SeesFree
  <2>5. CASE a # b
    <3>1. \A f, w : f # h.fo /\ ~Occupied(Bookings \ {b}, f, w, ActiveStatus) =>
                      ~Occupied(Bookings \ {b}, f, w, ActiveStatus)'
      BY <2>2, StaysFree
    <3>2. QED BY <1>1, <1>b, <2>2, <2>3, <2>5, <3>1, StillSeesFree
  <2>6. QED BY <2>4, <2>5
<1>5. ASSUME NEW a \in Bookings, Lifecycle(a) PROVE SeesFree(c)'
  <2>1. /\ UNCHANGED <<fo, window>>
        /\ \A e \in Bookings \ {a} : status'[e] = status[e]
        /\ status'[a] \in ActiveStatus => status[a] \in ActiveStatus
    BY <1>2, <1>5, LifecycleFrees
  <2>2. status'[a] # "pending_payment"
    BY <1>2, <1>5, LifecycleWrites
  <2>3. \A f, w : ~Occupied(Bookings \ {b}, f, w, ActiveStatus) =>
                    ~Occupied(Bookings \ {b}, f, w, ActiveStatus)'
    BY <2>1, StaysFree
  <2>4. status[b] # "pending_payment" => status'[b] # "pending_payment"
    BY <1>b, <2>1, <2>2
  <2>5. QED BY <1>1, <1>b, <2>1, <2>3, <2>4, StillSeesFree
<1>6. QED
  BY <1>2, <1>3, <1>4, <1>5, StepKinds
  DEF Shrink, BeginConfirm, Advance, CreateInsert, bookingVars

(* The writes of the calls: one booking goes to the FO and the window that  *)
(* are free, if anything is written.                                        *)
Places(d) ==
  LET b == call[d].booking IN
  /\ \A a \in Bookings \ {b} :
       status'[a] = status[a] /\ fo'[a] = fo[a] /\ window'[a] = window[a]
  /\ status'[b] # "pending_payment"
  /\ fo'[b] = Target(d)
  /\ fo'[b] # NoFo /\ window'[b] # NoWindow =>
       ~Occupied(Bookings \ {b}, fo'[b], window'[b], ActiveStatus)

LEMMA CommitWrites ==
  ASSUME RoutesIInv, CallsSeeFree, NEW d \in Calls, CommitMove(d) \/ CommitAssign(d)
  PROVE  /\ Running(d)
         /\ call' = [call EXCEPT ![d] = NoCall]
         /\ UNCHANGED <<holds, minted, sales, req, now>>
         /\ UNCHANGED bookingVars \/ Places(d)
<1> USE DEF End
<1>1. TypeOK /\ RoutesTypeOK /\ Running(d) /\ SeesFree(d)
  BY DEF RoutesIInv, RoutesTypeOK, CallsSeeFree, CommitMove, CommitAssign, Running
<1>2. CASE CommitMove(d)
  <2>1. PICK q \in Moving : q = call[d]
    BY <1>1, <1>2 DEF RoutesTypeOK, CommitMove, Assigning
  <2>2. PICK b \in Bookings : b = q.booking
    BY DEF Moving
  <2>3. CASE status[b] = q.from
    <3>1. /\ status' = [status EXCEPT ![b] = q.to]
          /\ window' = [window EXCEPT ![b] = q.window]
          /\ UNCHANGED fo
          /\ Target(d) = fo[b] /\ Wanted(d) = q.window
      BY <1>2, <2>1, <2>2, <2>3 DEF CommitMove, Target, Wanted
    <3>2. q.to # "pending_payment"
      BY StepFacts DEF Moving
    <3>3. fo[b] # NoFo /\ q.window # NoWindow =>
            ~Occupied(Bookings \ {b}, fo[b], q.window, ActiveStatus)
      BY <1>1, <2>1, <2>2, <2>3, <3>1 DEF SeesFree, FoAvailable, RoutesIInv, UnpaidHasNoFo
    <3>4. Places(d)
      BY <1>1, <2>1, <2>2, <3>1, <3>2, <3>3 DEF Places, TypeOK
    <3>5. QED BY <1>1, <1>2, <3>4 DEF CommitMove
  <2>4. CASE status[b] # q.from
    BY <1>1, <1>2, <2>1, <2>2, <2>4 DEF CommitMove, bookingVars
  <2>5. QED BY <2>3, <2>4
<1>3. CASE CommitAssign(d)
  <2>1. PICK q \in Assigning : q = call[d]
    BY <1>1, <1>3 DEF RoutesTypeOK, CommitAssign, Moving
  <2>2. PICK b \in Bookings : b = q.booking
    BY DEF Assigning
  <2>3. CASE ~InvalidAssignment(b) /\ ~Replayed(q) /\ Unchanged(q)
    <3>1. /\ status' = [status EXCEPT ![b] = "assigned"]
          /\ fo' = [fo EXCEPT ![b] = q.fo]
          /\ UNCHANGED window
          /\ Target(d) = q.fo /\ Wanted(d) = window[b]
      BY <1>3, <2>1, <2>2, <2>3 DEF CommitAssign, Target, Wanted
    <3>2. q.from # "pending_payment"
      BY DEF Assigning
    <3>3. q.fo # NoFo /\ window[b] # NoWindow =>
            ~Occupied(Bookings \ {b}, q.fo, window[b], ActiveStatus)
      BY <1>1, <2>1, <2>2, <3>1, <3>2 DEF SeesFree, FoAvailable
    <3>4. Places(d)
      BY <1>1, <2>1, <2>2, <3>1, <3>3 DEF Places, TypeOK
    <3>5. QED BY <1>1, <1>3, <3>4 DEF CommitAssign
  <2>4. CASE ~(~InvalidAssignment(b) /\ ~Replayed(q) /\ Unchanged(q))
    BY <1>1, <1>3, <2>1, <2>2, <2>4 DEF CommitAssign, bookingVars
  <2>5. QED BY <2>3, <2>4
<1>4. QED BY <1>2, <1>3

(* A call that writes with nobody else at its FO and its booking breaks     *)
(* nothing: the window it found free still is.                              *)
LEMMA PlacesKeeps ==
  ASSUME RoutesIInv, OneWriter, CalendarIInv, NEW d \in Calls, Running(d),
         call' = [call EXCEPT ![d] = NoCall],
         UNCHANGED <<holds, minted, sales, req, now>>, Places(d), RoutesTypeOK'
  PROVE  CalendarIInv'
<1>b. PICK b \in Bookings : b = call[d].booking
  BY CallTypes DEF RoutesIInv
<1>1. /\ TypeOK /\ TypeOK' /\ RoutesTypeOK
      /\ fo'[b] = Target(d)
      /\ \A a \in Bookings \ {b} :
           status'[a] = status[a] /\ fo'[a] = fo[a] /\ window'[a] = window[a]
  BY <1>b DEF RoutesIInv, RoutesTypeOK, Places
<1>2. HoldsDisjoint'
  BY DEF CalendarIInv, HoldsDisjoint
<1>3. HoldKeepsWindow'
  <2> SUFFICES ASSUME NEW r \in Requests, PastCalendar(r), req[r].hold \in holds
               PROVE  ~Occupied(Bookings \ {req[r].booking}, req[r].hold.fo,
                                req[r].hold.window, ActiveStatus)'
    BY DEF HoldKeepsWindow, PastCalendar
  <2>1. fo'[b] # req[r].hold.fo
    BY <1>1 DEF OneWriter
  <2>2. ~Occupied(Bookings \ {req[r].booking}, req[r].hold.fo, req[r].hold.window, ActiveStatus)
    BY DEF CalendarIInv, HoldKeepsWindow
  <2>3. QED
    BY <1>1, <2>1, <2>2 DEF Occupied, Overlaps, Calendar!Overlaps
<1>4. NoDoubleBooking'
  <2>1. ASSUME NEW a \in Bookings \ {b}, OnCalendar(a)', OnCalendar(b)', fo'[a] = fo'[b]
        PROVE  ~Overlaps(window'[a], window'[b]) /\ ~Overlaps(window'[b], window'[a])
    <3>1. /\ status[a] \in ActiveStatus /\ fo[a] = fo'[b]
          /\ window[a] # NoWindow /\ window[a] = window'[a]
          /\ fo'[b] # NoFo /\ window'[b] # NoWindow
      BY <1>1, <2>1 DEF OnCalendar
    <3>2. ~Occupied(Bookings \ {b}, fo'[b], window'[b], ActiveStatus)
      BY <1>b, <3>1 DEF Places
    <3>3. ~Overlaps(window'[a], window'[b])
      BY <3>1, <3>2 DEF Occupied
    <3>4. window'[a] \in Windows /\ window'[b] \in Windows
      BY <1>1, <3>1 DEF TypeOK
    <3>5. QED BY <3>3, <3>4, OverlapsSymmetric
  <2>2. ASSUME NEW a \in Bookings \ {b}, NEW c \in Bookings \ {b}, a # c,
               OnCalendar(a)', OnCalendar(c)', fo'[a] = fo'[c]
        PROVE  ~Overlaps(window'[a], window'[c])
    <3>1. OnCalendar(a) /\ OnCalendar(c) /\ fo[a] = fo[c]
      BY <1>1, <2>2 DEF OnCalendar
    <3>2. QED BY <1>1, <2>2, <3>1 DEF CalendarIInv, NoDoubleBooking
  <2>3. QED
    BY <2>1, <2>2 DEF NoDoubleBooking, Overlaps, Calendar!Overlaps
<1>5. CallsSeeFree'
  <2> SUFFICES ASSUME NEW c \in Calls, Running(c)' PROVE SeesFree(c)'
    BY DEF CallsSeeFree
  <2>1. c # d /\ call'[c] = call[c] /\ Running(c) /\ SeesFree(c)
    BY <1>1 DEF Running, RoutesTypeOK, CalendarIInv, CallsSeeFree
  <2>2. PICK e \in Bookings : e = call[c].booking
    BY <1>1, <2>1, CallTypes
  <2>3. e # b /\ (Target(c) = NoFo \/ Target(c) # fo'[b])
    BY <1>b, <1>1, <2>1, <2>2 DEF OneWriter
  <2>4. \A f, w : f # fo'[b] /\ ~Occupied(Bookings \ {e}, f, w, ActiveStatus) =>
                    ~Occupied(Bookings \ {e}, f, w, ActiveStatus)'
    BY <1>1, StaysFree
  <2>5. /\ status'[e] = status[e] /\ fo'[e] = fo[e] /\ window'[e] = window[e]
        /\ \A f, w : /\ f = Target(c) /\ f # NoFo
                     /\ ~Occupied(Bookings \ {e}, f, w, ActiveStatus)
                     => ~Occupied(Bookings \ {e}, f, w, ActiveStatus)'
    BY <1>1, <2>3, <2>4
  <2>6. QED BY <2>1, <2>2, <2>5, StillSeesFree
<1>6. QED BY <1>2, <1>3, <1>4, <1>5 DEF CalendarIInv

(* What is free for the estimated hours is free for a window within them.   *)
LEMMA LookCovers ==
  ASSUME TypeOK, NEW b \in Bookings, NEW f \in FOs, NEW w \in Windows,
         w.end <= w.start + Hours[b], FoAvailable(b, f, Asked(b, w.start))
  PROVE  FoAvailable(b, f, w)
<1> SUFFICES ASSUME NEW a \in Bookings \ {b}, status[a] \in ActiveStatus, fo[a] = f,
                    window[a] # NoWindow, Overlaps(window[a], w)
             PROVE  Overlaps(window[a], Asked(b, w.start))
  BY DEF FoAvailable, Occupied
<1>1. window[a] \in Windows /\ Hours[b] \in Nat
  BY DurationsAssumption DEF TypeOK
<1>2. /\ window[a].start \in Nat /\ window[a].end \in Nat
      /\ w.start \in Nat /\ w.end \in Nat
  BY <1>1, WindowsAssumption
<1>3. Asked(b, w.start).start = w.start /\ Asked(b, w.start).end = w.start + Hours[b]
  BY DEF Asked
<1>4. QED BY <1>1, <1>2, <1>3 DEF Overlaps, Calendar!Overlaps

(* A call begins with what it has found, if its look covers what it is to   *)
(* write.                                                                   *)
LEMMA BeginSees ==
  ASSUME RoutesTypeOK, CallsSeeFree, NEW d \in Calls, call[d] = NoCall,
         UNCHANGED vars, NEW what \in Moving \cup Assigning,
         call' = [call EXCEPT ![d] = what], what # NoCall, LooksCoverWrites',
         NEW b \in Bookings, what.booking = b, what.from = status[b],
         \/ /\ what.kind = "move"
            /\ fo[b] # NoFo => FoAvailable(b, fo[b], Asked(b, what.window.start))
         \/ /\ what.kind = "assign"
            /\ window[b] # NoWindow =>
                 FoAvailable(b, what.fo, Asked(b, window[b].start))
  PROVE  CallsSeeFree'
<1> SUFFICES ASSUME NEW c \in Calls, Running(c)' PROVE SeesFree(c)'
  BY DEF CallsSeeFree
<1>1. call \in [Calls -> CallState] /\ UNCHANGED bookingVars /\ TypeOK
  BY DEF RoutesTypeOK, CallState, vars, bookingVars
<1> DEFINE f == IF what.kind = "assign" THEN what.fo ELSE fo[b]
           w == IF what.kind = "assign" THEN window[b] ELSE what.window
<1>2. CASE c = d
  <2>1. call'[c] = what
    BY <1>1, <1>2
  <2>2. Target(c)' = f /\ Wanted(c)' = w
    BY <1>1, <2>1 DEF Target, Wanted, bookingVars
  <2>3. f \in FOs \cup {NoFo} /\ w \in Windows \cup {NoWindow}
    BY <1>1 DEF TypeOK, Moving, Assigning
  <2>4. f # NoFo /\ w # NoWindow => w.end <= w.start + Hours[b]
    BY <2>1, <2>2 DEF LooksCoverWrites, Covered
  <2>5. f # NoFo /\ w # NoWindow => FoAvailable(b, f, Asked(b, w.start))
    OBVIOUS
  <2>6. f # NoFo /\ w # NoWindow => FoAvailable(b, f, w)
    BY <1>1, <2>3, <2>4, <2>5, LookCovers
  <2> HIDE DEF f, w
  <2>7. \A g, v : g = f /\ v = w /\ g # NoFo /\ v # NoWindow => FoAvailable(b, g, v)'
    BY <1>1, <2>6 DEF FoAvailable, Occupied, bookingVars
  <2>8. Target(c)' # NoFo /\ Wanted(c)' # NoWindow => FoAvailable(b, Target(c), Wanted(c))'
    BY <2>2, <2>7 DEF FoAvailable, Occupied
  <2>9. QED
    BY <1>1, <2>1, <2>8 DEF SeesFree, bookingVars
<1>3. CASE c # d
  <2>1. call'[c] = call[c] /\ Running(c) /\ SeesFree(c)
    BY <1>1, <1>3 DEF Running, CallsSeeFree
  <2>2. QED
    BY <1>1, <2>1 DEF SeesFree, Target, Wanted, FoAvailable, Occupied, bookingVars
<1>4. QED BY <1>2, <1>3

(* A booking that is scheduled without a start time has no FO yet.          *)
LEMMA ScheduleKeeps ==
  ASSUME RoutesIInv, CalendarIInv, NEW b \in Bookings, Schedule(b)
  PROVE  CalendarIInv'
<1>1. /\ TypeOK /\ status[b] = "pending_payment" /\ fo[b] = NoFo
      /\ status'[b] = "pending_dispatch"
      /\ \A a \in Bookings \ {b} : status'[a] = status[a]
      /\ UNCHANGED <<fo, window, holds, req, call>>
  BY DEF RoutesIInv, RoutesTypeOK, TypeOK, UnpaidHasNoFo, Schedule, Transition, routeVars
<1>2. ASSUME NEW a \in Bookings, NEW f, NEW w, f # NoFo,
             ~Occupied(Bookings \ {a}, f, w, ActiveStatus)
      PROVE  ~Occupied(Bookings \ {a}, f, w, ActiveStatus)'
  BY <1>1, <1>2 DEF Occupied, Overlaps, Calendar!Overlaps
<1>3. HoldsDisjoint'
  BY <1>1 DEF CalendarIInv, HoldsDisjoint
<1>4. HoldKeepsWindow'
  <2> SUFFICES ASSUME NEW r \in Requests, PastCalendar(r), req[r].hold \in holds
               PROVE  ~Occupied(Bookings \ {req[r].booking}, req[r].hold.fo,
                                req[r].hold.window, ActiveStatus)'
    BY <1>1 DEF HoldKeepsWindow, PastCalendar
  <2>1. PICK a \in Bookings, h \in Hold : a = req[r].booking /\ h = req[r].hold
    BY <1>1 DEF TypeOK, PastCalendar, Idle, Creating, Confirming, Releasing
  <2>2. h.fo # NoFo /\ ~Occupied(Bookings \ {a}, h.fo, h.window, ActiveStatus)
    BY <2>1, NullsAssumption DEF CalendarIInv, HoldKeepsWindow, Hold
  <2>3. ~Occupied(Bookings \ {a}, h.fo, h.window, ActiveStatus)'
    BY <1>2, <2>2
  <2>4. QED
    BY <1>1, <2>1, <2>3 DEF Occupied, Overlaps, Calendar!Overlaps
<1>5. NoDoubleBooking'
  BY <1>1 DEF CalendarIInv, NoDoubleBooking, OnCalendar, Overlaps, Calendar!Overlaps
<1>6. CallsSeeFree'
  <2> SUFFICES ASSUME NEW c \in Calls, Running(c)' PROVE SeesFree(c)'
    BY DEF CallsSeeFree
  <2>1. call'[c] = call[c] /\ Running(c) /\ SeesFree(c)
    BY <1>1 DEF Running, CalendarIInv, CallsSeeFree
  <2>2. PICK e \in Bookings : e = call[c].booking
    BY <2>1, CallTypes DEF RoutesIInv
  <2>3. /\ fo'[e] = fo[e] /\ window'[e] = window[e]
        /\ status[e] # "pending_payment" => status'[e] # "pending_payment"
    BY <1>1
  <2>4. \A f, w : /\ f = Target(c) /\ f # NoFo
                  /\ ~Occupied(Bookings \ {e}, f, w, ActiveStatus)
                  => ~Occupied(Bookings \ {e}, f, w, ActiveStatus)'
    BY <1>2
  <2>5. QED BY <2>1, <2>2, <2>3, <2>4, StillSeesFree
<1>7. QED BY <1>3, <1>4, <1>5, <1>6 DEF CalendarIInv

LEMMA CalendarKept ==
  ASSUME RoutesIInv, RoutesTypeOK', OneWriter, LooksCoverWrites', CalendarIInv, RoutesNext,
         ~Reopening
  PROVE  CalendarIInv'
<1> USE DEF CalendarIInv
<1>1. TypeOK /\ IdsIdentify /\ RoutesTypeOK
  BY DEF RoutesIInv, RoutesTypeOK
<1>2. CASE Next /\ UNCHANGED routeVars
  BY <1>1, <1>2, DisjointStep, KeepsWindowStep, CalendarStep, HoldPathLeavesFree
<1>3. ASSUME UNCHANGED vars PROVE HoldsDisjoint' /\ HoldKeepsWindow' /\ NoDoubleBooking'
  BY <1>1, <1>3, DisjointStep, KeepsWindowStep, CalendarStep
<1>4. ASSUME NEW d \in Calls, NEW b \in Bookings, NEW to \in Status, NEW s \in Starts,
             BeginMove(d, b, to, s)
      PROVE  CalendarIInv'
  <2> DEFINE what == [kind |-> "move", booking |-> b, from |-> status[b], to |-> to,
                      window |-> Patch(b, s)]
  <2>1. /\ call[d] = NoCall /\ UNCHANGED vars /\ call' = [call EXCEPT ![d] = what]
        /\ fo[b] # NoFo => FoAvailable(b, fo[b], Asked(b, s))
    BY <1>4 DEF BeginMove
  <2>2. what.kind = "move" /\ what.booking = b /\ what.from = status[b]
        /\ what.window = Patch(b, s)
    OBVIOUS
  <2>3. what.window.start = s /\ what \in Moving
    BY <1>1, <1>4, PatchIsWindow DEF BeginMove, TypeOK, Moving
  <2> HIDE DEF what
  <2>4. CASE what # NoCall
    BY <1>1, <1>3, <2>1, <2>2, <2>3, <2>4, BeginSees
  <2>5. CASE what = NoCall
    <3>1. UNCHANGED <<vars, call, bookingVars>>
      BY <1>1, <2>1, <2>5 DEF RoutesTypeOK, vars, bookingVars
    <3>2. QED
      BY <1>3, <3>1 DEF CallsSeeFree, Running, SeesFree, Target, Wanted, FoAvailable,
                        Occupied, bookingVars
  <2>6. QED BY <2>4, <2>5
<1>5. ASSUME NEW d \in Calls, NEW b \in Bookings, NEW f \in FOs, NEW k \in BOOLEAN,
             BeginAssign(d, b, f, k)
      PROVE  CalendarIInv'
  <2> DEFINE what == [kind |-> "assign", booking |-> b, from |-> status[b], fromFo |-> fo[b],
                      fo |-> f, defaultKey |-> k]
  <2>1. /\ call[d] = NoCall /\ UNCHANGED vars /\ call' = [call EXCEPT ![d] = what]
        /\ window[b] # NoWindow => FoAvailable(b, f, Asked(b, window[b].start))
    BY <1>5 DEF BeginAssign
  <2>2. what.kind = "assign" /\ what.booking = b /\ what.from = status[b] /\ what.fo = f
    OBVIOUS
  <2>3. what \in Assigning
    BY <1>1, <1>5 DEF BeginAssign, TypeOK, Assigning
  <2> HIDE DEF what
  <2>4. CASE what # NoCall
    BY <1>1, <1>3, <2>1, <2>2, <2>3, <2>4, BeginSees
  <2>5. CASE what = NoCall
    <3>1. UNCHANGED <<vars, call, bookingVars>>
      BY <1>1, <2>1, <2>5 DEF RoutesTypeOK, vars, bookingVars
    <3>2. QED
      BY <1>3, <3>1 DEF CallsSeeFree, Running, SeesFree, Target, Wanted, FoAvailable,
                        Occupied, bookingVars
  <2>6. QED BY <2>4, <2>5
<1>6. ASSUME NEW d \in Calls, call[d] # NoCall, End(d), UNCHANGED bookingVars,
             UNCHANGED <<holds, minted, sales, req, now>>
      PROVE  CalendarIInv'
  <2>1. UNCHANGED vars
    BY <1>6 DEF vars, bookingVars
  <2>2. CallsSeeFree'
    <3> SUFFICES ASSUME NEW c \in Calls, Running(c)' PROVE SeesFree(c)'
      BY DEF CallsSeeFree
    <3>1. call'[c] = call[c] /\ Running(c) /\ SeesFree(c)
      BY <1>1, <1>6 DEF End, Running, RoutesTypeOK, CallsSeeFree
    <3>2. QED
      BY <1>6, <3>1 DEF SeesFree, Target, Wanted, FoAvailable, Occupied, bookingVars
  <2>3. QED BY <1>3, <2>1, <2>2
<1>7. ASSUME NEW d \in Calls, CommitMove(d) \/ CommitAssign(d) PROVE CalendarIInv'
  BY <1>6, <1>7, CommitWrites, PlacesKeeps DEF End, Running
<1>8. ASSUME NEW d \in Calls, Drop(d) PROVE CalendarIInv'
  BY <1>6, <1>8 DEF Drop, vars, bookingVars
<1>9. QED BY <1>2, <1>4, <1>5, <1>7, <1>8, ScheduleKeeps DEF RoutesNext, Reopening

(* With one call at a time for each FO and each booking, no confirmation    *)
(* for that FO between its look at the calendar and its commit, looks that  *)
(* cover what is written, and nobody who reopens a job without a start      *)
(* time, no FO is booked twice for overlapping windows: where the routes    *)
(* look is right, but how far they look is not, and nothing keeps what they *)
(* have seen.                                                               *)
THEOREM SerialRoutesKeepCalendar ==
  RoutesSpec /\ []OneWriter /\ []LooksCoverWrites /\ NobodyReopens => []NoDoubleBooking
<1>1. RoutesInit => CalendarIInv
  BY DEF RoutesInit, Init, CalendarIInv, HoldsDisjoint, HoldKeepsWindow, PastCalendar,
         NoDoubleBooking, OnCalendar, ActiveStatus, CallsSeeFree, Running, Idle
<1>2. RoutesIInv /\ RoutesIInv' /\ OneWriter /\ LooksCoverWrites' /\ CalendarIInv
      /\ [RoutesNext]_allVars
      /\ [~Reopening]_allVars => CalendarIInv'
  <2> SUFFICES ASSUME RoutesIInv, RoutesIInv', OneWriter, LooksCoverWrites', CalendarIInv,
                      [RoutesNext]_allVars, [~Reopening]_allVars
               PROVE  CalendarIInv'
    OBVIOUS
  <2>1. CASE UNCHANGED allVars
    <3>1. UNCHANGED vars /\ call' = call /\ UNCHANGED bookingVars
      BY <2>1 DEF allVars, vars, bookingVars
    <3>2. HoldsDisjoint' /\ HoldKeepsWindow' /\ NoDoubleBooking'
      BY <3>1, DisjointStep, KeepsWindowStep, CalendarStep
      DEF RoutesIInv, RoutesTypeOK, CalendarIInv
    <3>3. CallsSeeFree'
      BY <3>1 DEF CalendarIInv, CallsSeeFree, Running, SeesFree, Target, Wanted, FoAvailable,
                  Occupied, bookingVars
    <3>4. QED BY <3>2, <3>3 DEF CalendarIInv
  <2>2. CASE ~UNCHANGED allVars
    BY <2>2, CalendarKept DEF RoutesIInv
  <2>3. QED BY <2>1, <2>2
<1>3. CalendarIInv => NoDoubleBooking
  BY DEF CalendarIInv
<1>4. QED
  BY <1>1, <1>2, <1>3, RoutesInvariant, PTL DEF RoutesSpec, NobodyReopens
=============================================================================
