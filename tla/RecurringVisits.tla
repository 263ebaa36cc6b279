-------------------------- MODULE RecurringVisits --------------------------
(***************************************************************************)
(* The visit of a recurring plan (recurring.service.ts), from the plan to  *)
(* the booking.  Every 30 seconds a worker (recurring.worker.ts) starts a  *)
(* run over the visits that are due, whether or not the one before has     *)
(* ended.  A run claims a visit with a token of its own, looks for a       *)
(* booking whose note carries the visit's fingerprint, creates one if      *)
(* there is none, and links it to the visit.  If the link cannot be        *)
(* written the visit is marked with the booking, and a later run links it  *)
(* without a claim.  Meanwhile the customer skips or moves the visit, or   *)
(* pauses, resumes or cancels the plan.                                    *)
(*                                                                         *)
(* A plan has one visit: nothing creates a second one.  Bookings are named *)
(* by the attempt that created them.                                       *)
(***************************************************************************)
EXTENDS Integers

CONSTANTS
  Runs,         \* runs of the worker at the same time
  Customers,    \* calls of the customer at the same time
  Dates,        \* days that a visit can be planned for
  None,         \* null
  MaxAttempts,  \* MAX_OCCURRENCE_PROCESSING_ATTEMPTS
  MaxFaults     \* bound on failed statements and crashes

ASSUME VisitsAssumption ==
  /\ None \notin Runs /\ None \notin Dates
  /\ MaxAttempts \in Nat \ {0} /\ MaxFaults \in Nat

NoBooking == 0

VARIABLES
  plan,    \* RecurringPlan.status
  visit,   \* the row of RecurringOccurrence
  made,    \* the day that the booking of an attempt is for
  run,     \* where each run is between two statements
  call,    \* where each call of the customer is
  faults,
  moved,   \* history: the customer has moved the visit to another day
  lost     \* history: bookings whose maker got no answer, or died

vars == <<plan, visit, made, run, call, faults, moved, lost>>
history == <<faults, moved, lost>>

Attempts == 1 .. MaxAttempts
Bookings == {NoBooking} \cup Attempts

(* The abstract book this module implements. *)
Book == INSTANCE VisitBook WITH Names <- Attempts, link <- visit.booking

-----------------------------------------------------------------------------

Unbooked == {"pending_generation", "needs_review"}
Mutable == Unbooked \cup {"booked"}
Dropped == {"skipped", "canceled"}

(* booking_created and scheduled are one status, pending and mark stand for *)
(* reconciliationState and the booking that generationError names.          *)
Visit == [status : Mutable \cup Dropped,
          state : {"ready", "processing", "failed", "completed"},
          attempts : 0 .. MaxAttempts, token : Runs \cup {None}, date : Dates,
          booking : Bookings, pending : BOOLEAN, mark : Bookings]

Stages == {"idle", "read", "reconcile", "claim", "reread", "lookup", "create",
           "link", "split", "fail"}
Run == [stage : Stages, attempt : 0 .. MaxAttempts, date : Dates \cup {None},
        booking : Bookings]
Idle == [stage |-> "idle", attempt |-> 0, date |-> None, booking |-> NoBooking]

Steps == {"idle", "patch", "skip", "pause", "resume", "cancelVisit", "cancelPlan"}

(* Runs that have claimed the visit and may still write it. *)
InHand(r) == run[r].stage \in {"reread", "lookup", "create", "link", "split", "fail"}

Init ==
  /\ plan = "active"
  /\ \E d \in Dates :
       visit = [status |-> "pending_generation", state |-> "ready", attempts |-> 0,
                token |-> None, date |-> d, booking |-> NoBooking,
                pending |-> FALSE, mark |-> NoBooking]
  /\ made = [n \in Attempts |-> None]
  /\ run = [r \in Runs |-> Idle]
  /\ call = [c \in Customers |-> "idle"]
  /\ faults = 0 /\ moved = FALSE /\ lost = {}

-----------------------------------------------------------------------------
(* Runs of the worker *)

At(r, s) == run[r].stage = s
Go(r, s) == run' = [run EXCEPT ![r].stage = s]
End(r) == run' = [run EXCEPT ![r] = Idle]

(* The part of a row that says: this booking exists, link it. *)
Marked == visit.pending /\ visit.mark # NoBooking /\ visit.booking = NoBooking

Claimable ==
  /\ visit.status \in Unbooked
  /\ visit.state \in {"ready", "failed"}
  /\ visit.attempts < MaxAttempts

(* Fault: a visit that is being reconciled is not looked for. *)
FaultDue == plan = "active" /\ Claimable

Due == plan = "active" /\ (Claimable \/ Marked)

Begin(r) ==
  /\ At(r, "idle") /\ Due
  /\ Go(r, "read")
  /\ UNCHANGED <<plan, visit, made, call, history>>

(* The row is read again when the run comes to it. *)
Read(r) ==
  /\ At(r, "read")
  /\ \/ /\ Marked
        /\ run' = [run EXCEPT ![r].stage = "reconcile", ![r].booking = visit.mark]
     \/ /\ ~Marked
        /\ ~(visit.state = "completed" /\ visit.booking # NoBooking)
        /\ visit.status \in Unbooked /\ plan = "active"
        /\ Go(r, "claim")
     \/ /\ ~Marked
        /\ \/ visit.state = "completed" /\ visit.booking # NoBooking
           \/ visit.status \notin Unbooked
           \/ plan # "active"
        /\ End(r)
  /\ UNCHANGED <<plan, visit, made, call, history>>

Linked(b) ==
  [visit EXCEPT !.booking = b, !.status = "booked", !.state = "completed",
                !.token = None, !.pending = FALSE, !.mark = NoBooking]

(* Fault: a visit that has been linked meanwhile is linked again. *)
FaultReconcileAgain(r) ==
  /\ At(r, "reconcile")
  /\ visit' = Linked(run[r].booking)
  /\ End(r)
  /\ UNCHANGED <<plan, made, call, history>>

(* Links the marked booking, without a token; if that fails, the mark stays. *)
Reconcile(r) ==
  /\ At(r, "reconcile")
  /\ visit' = IF visit.pending /\ visit.booking = NoBooking
              THEN Linked(run[r].booking) ELSE visit
  /\ End(r)
  /\ UNCHANGED <<plan, made, call, history>>

(* Fault: the claim does not look at the state. *)
FaultClaimAgain(r) ==
  /\ At(r, "claim")
  /\ IF visit.status \in Unbooked /\ visit.attempts < MaxAttempts
     THEN /\ visit' = [visit EXCEPT !.state = "processing", !.token = r,
                                    !.attempts = visit.attempts + 1]
          /\ run' = [run EXCEPT ![r].stage = "reread",
                                ![r].attempt = visit.attempts + 1]
     ELSE End(r) /\ UNCHANGED visit
  /\ UNCHANGED <<plan, made, call, history>>

(* Fault: the claim does not look at the status. *)
FaultClaimDropped(r) ==
  /\ At(r, "claim")
  /\ IF visit.state \in {"ready", "failed"} /\ visit.attempts < MaxAttempts
     THEN /\ visit' = [visit EXCEPT !.state = "processing", !.token = r,
                                    !.attempts = visit.attempts + 1]
          /\ run' = [run EXCEPT ![r].stage = "reread",
                                ![r].attempt = visit.attempts + 1]
     ELSE End(r) /\ UNCHANGED visit
  /\ UNCHANGED <<plan, made, call, history>>

(* The claim is one guarded statement, which does not look at the plan. *)
Claim(r) ==
  /\ At(r, "claim")
  /\ IF Claimable
     THEN /\ visit' = [visit EXCEPT !.state = "processing", !.token = r,
                                    !.attempts = visit.attempts + 1]
          /\ run' = [run EXCEPT ![r].stage = "reread",
                                ![r].attempt = visit.attempts + 1]
     ELSE End(r) /\ UNCHANGED visit
  /\ UNCHANGED <<plan, made, call, history>>

(* The row is read by its token.  A booking it has already is linked again. *)
Reread(r) ==
  /\ At(r, "reread")
  /\ \/ visit.token # r /\ End(r)
     \/ /\ visit.token = r
        /\ run' = [run EXCEPT
             ![r].stage = IF visit.booking = NoBooking THEN "lookup" ELSE "link",
             ![r].date = visit.date, ![r].booking = visit.booking]
  /\ UNCHANGED <<plan, visit, made, call, history>>

(* The fingerprint in the note of a booking names visit and day. *)
Lookup(r) ==
  /\ At(r, "lookup")
  /\ \/ \E n \in Attempts :
          /\ made[n] = run[r].date
          /\ run' = [run EXCEPT ![r].stage = "link", ![r].booking = n]
     \/ /\ \A n \in Attempts : made[n] # run[r].date
        /\ Go(r, "create")
  /\ UNCHANGED <<plan, visit, made, call, history>>

Create(r) ==
  /\ At(r, "create")
  /\ made' = [made EXCEPT ![run[r].attempt] = run[r].date]
  /\ run' = [run EXCEPT ![r].stage = "link", ![r].booking = run[r].attempt]
  /\ UNCHANGED <<plan, visit, call, history>>

(* createBooking throws: before its transaction has committed, or after it, *)
(* in one of the statements that follow.                                    *)
CreateThrows(r) ==
  /\ At(r, "create")
  /\ \/ UNCHANGED <<made, lost>>
     \/ /\ made' = [made EXCEPT ![run[r].attempt] = run[r].date]
        /\ lost' = lost \cup {run[r].attempt}
  /\ Go(r, "fail")
  /\ UNCHANGED <<plan, visit, call, faults, moved>>

(* Guarded by the token alone: the visit may have been skipped meanwhile. *)
Link(r) ==
  /\ At(r, "link")
  /\ IF visit.token = r
     THEN visit' = Linked(run[r].booking) /\ End(r)
     ELSE Go(r, "split") /\ UNCHANGED visit
  /\ UNCHANGED <<plan, made, call, history>>

(* The transaction of the link fails. *)
LinkFails(r) ==
  /\ At(r, "link") /\ faults < MaxFaults
  /\ Go(r, "split")
  /\ faults' = faults + 1
  /\ UNCHANGED <<plan, visit, made, call, moved, lost>>

(* Fault: the booking is not noted. *)
FaultSplitUnmarked(r) ==
  /\ At(r, "split")
  /\ visit' = IF visit.token = r
              THEN [visit EXCEPT !.state = "failed", !.token = None]
              ELSE visit
  /\ End(r)
  /\ UNCHANGED <<plan, made, call, history>>

(* The booking is there, the link is not: mark the visit. *)
Split(r) ==
  /\ At(r, "split")
  /\ visit' = IF visit.token = r
              THEN [visit EXCEPT !.state = "failed", !.pending = TRUE,
                                 !.mark = run[r].booking, !.token = None]
              ELSE visit
  /\ End(r)
  /\ UNCHANGED <<plan, made, call, history>>

(* The mark cannot be written either.  For a booking created in this run the *)
(* error is taken for one of createBooking, otherwise it ends the run.       *)
SplitFails(r) ==
  /\ At(r, "split") /\ faults < MaxFaults
  /\ IF run[r].booking = run[r].attempt THEN Go(r, "fail") ELSE End(r)
  /\ lost' = lost \cup {run[r].booking}
  /\ faults' = faults + 1
  /\ UNCHANGED <<plan, visit, made, call, moved>>

(* Fault: the status is spelled as the state. *)
FaultFailSpelling(r) ==
  /\ At(r, "fail")
  /\ visit' = [visit EXCEPT !.status = "failed", !.state = "failed",
                            !.mark = NoBooking, !.token = None]
  /\ End(r)
  /\ UNCHANGED <<plan, made, call, history>>

(* finishOccurrenceFailure writes by id, over whatever the row has become; *)
(* its message takes the place of a mark.                                  *)
Fail(r) ==
  /\ At(r, "fail")
  /\ visit' = [visit EXCEPT !.status = "needs_review", !.state = "failed",
                            !.mark = NoBooking, !.token = None]
  /\ End(r)
  /\ UNCHANGED <<plan, made, call, history>>

(* The process dies, or a statement throws that nothing catches.  The claim *)
(* stays, and no run looks for it.                                          *)
Dies(r) ==
  /\ ~At(r, "idle") /\ faults < MaxFaults
  /\ End(r)
  /\ lost' = IF run[r].stage \in {"link", "split"}
             THEN lost \cup {run[r].booking} ELSE lost
  /\ faults' = faults + 1
  /\ UNCHANGED <<plan, visit, made, call, moved>>

-----------------------------------------------------------------------------
(* The customer: each call reads plan and visit, and then writes by id. *)

BeginCall(c, s) == call[c] = "idle" /\ call' = [call EXCEPT ![c] = s]
EndCall(c) == call' = [call EXCEPT ![c] = "idle"]

Ask(c) ==
  /\ \/ plan # "canceled" /\ visit.status \in Mutable
        /\ (BeginCall(c, "patch") \/ BeginCall(c, "skip"))
     \/ plan = "active" /\ BeginCall(c, "pause")
     \/ plan = "paused" /\ BeginCall(c, "resume")
  /\ UNCHANGED <<plan, visit, made, run, history>>

PatchDate(c) ==
  /\ call[c] = "patch"
  /\ \E d \in Dates :
       /\ visit' = [visit EXCEPT !.date = d]
       /\ moved' = (moved \/ d # visit.date)
  /\ EndCall(c)
  /\ UNCHANGED <<plan, made, run, faults, lost>>

Skip(c) ==
  /\ call[c] = "skip"
  /\ visit' = [visit EXCEPT !.status = "skipped"]
  /\ EndCall(c)
  /\ UNCHANGED <<plan, made, run, history>>

SetPlan(c) ==
  /\ \/ call[c] = "pause" /\ plan' = "paused"
     \/ call[c] = "resume" /\ plan' = "active"
     \/ call[c] = "cancelPlan" /\ plan' = "canceled"
  /\ EndCall(c)
  /\ UNCHANGED <<visit, made, run, history>>

(* A visit that is booked is canceled once its booking has been, which may *)
(* be refused; one that is skipped or canceled is no next visit.           *)
BeginCancel(c) ==
  /\ plan # "canceled"
  /\ \/ visit.status \in Mutable /\ BeginCall(c, "cancelVisit")
     \/ visit.status \notin Unbooked /\ BeginCall(c, "cancelPlan")
  /\ UNCHANGED <<plan, visit, made, run, history>>

CancelVisit(c) ==
  /\ call[c] = "cancelVisit"
  /\ visit' = [visit EXCEPT !.status = "canceled"]
  /\ call' = [call EXCEPT ![c] = "cancelPlan"]
  /\ UNCHANGED <<plan, made, run, history>>

-----------------------------------------------------------------------------
Proceed(r) ==
  \/ Begin(r) \/ Read(r) \/ Reconcile(r) \/ Claim(r) \/ Reread(r) \/ Lookup(r)
  \/ Create(r) \/ CreateThrows(r) \/ Link(r) \/ Split(r) \/ Fail(r)

Fails(r) == LinkFails(r) \/ SplitFails(r) \/ Dies(r)

Customer(c) ==
  Ask(c) \/ PatchDate(c) \/ Skip(c) \/ SetPlan(c) \/ BeginCancel(c) \/ CancelVisit(c)

Next == (\E r \in Runs : Proceed(r) \/ Fails(r)) \/ \E c \in Customers : Customer(c)

Spec == Init /\ [][Next]_vars

(* The worker's timer fires every 30 seconds, and a run goes on. *)
FairSpec == Spec /\ \A r \in Runs : WF_vars(Proceed(r))

-----------------------------------------------------------------------------
(* Properties *)

VisitsTypeOK ==
  /\ plan \in {"active", "paused", "canceled"}
  /\ visit \in Visit
  /\ made \in [Attempts -> Dates \cup {None}]
  /\ run \in [Runs -> Run]
  /\ call \in [Customers -> Steps]
  /\ faults \in 0 .. MaxFaults
  /\ moved \in BOOLEAN
  /\ lost \subseteq Attempts

(* A visit is booked once for a day, however many runs have it in hand, lose *)
(* their answers, die, or have it taken away by a run that reconciles.       *)
BookedOnce ==
  \A m, n \in Attempts : m # n /\ made[m] # None => made[m] # made[n]

(* Runs that overlap, lose their answers, die, or have the visit taken away *)
(* by a run that reconciles implement VisitBook: it is booked once for a    *)
(* day, and never linked to another booking than the one it is linked to.   *)
ImplementsBook == Book!BookSpec

(* Unless the customer has moved the visit, no booking is forgotten: it is *)
(* linked to the visit, marked on it, in the hand of a run, or its maker   *)
(* never knew of it.                                                       *)
BookingsAreKnown ==
  ~moved => \A n \in Attempts : made[n] # None =>
    \/ visit.booking = n
    \/ visit.pending /\ visit.mark = n
    \/ \E r \in Runs : run[r].stage \in {"link", "split"} /\ run[r].booking = n
    \/ n \in lost

(* No run has the visit in hand, and none is to link a booking to it. *)
AtRest ==
  /\ \A r \in Runs : ~InHand(r)
  /\ visit.pending => visit.booking # NoBooking

(* A visit that is skipped or canceled at rest stays so and stays at rest: *)
(* runs that have read it before, and find out later, leave it alone.      *)
DroppedStays ==
  [][visit.status \in Dropped /\ AtRest
     => visit'.status \in Dropped /\ AtRest']_vars

(* A marked visit is linked to its booking, also when no attempt is left or *)
(* it has been skipped, as long as the plan is active; only the failure of  *)
(* an attempt for another day can wipe out the mark.                        *)
MarkedIsLinked ==
  Marked ~> visit.booking # NoBooking \/ plan # "active" \/ moved
=============================================================================
