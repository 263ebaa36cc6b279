---------------------- MODULE RecurringVisitsProofs -----------------------
(* Type correctness and safety of RecurringVisits, for any numbers of runs, *)
(* calls, days, attempts and faults.                                        *)
EXTENDS RecurringVisits, TLAPS

-----------------------------------------------------------------------------
(* The inductive invariant. *)

(* What a row or a run names as a booking is one. *)
NamesBookings ==
  /\ visit.booking # NoBooking => made[visit.booking] # None
  /\ visit.mark # NoBooking => made[visit.mark] # None
  /\ \A r \in Runs : run[r].stage \in {"reconcile", "link", "split"} =>
       run[r].booking # NoBooking /\ made[run[r].booking] # None

(* A run in hand has an attempt of its own, which makes no booking but its. *)
OwnAttempts ==
  /\ \A n \in Attempts : made[n] # None => n <= visit.attempts
  /\ \A r \in Runs : InHand(r) => run[r].attempt \in 1 .. visit.attempts
  /\ \A r, s \in Runs : InHand(r) /\ InHand(s) /\ r # s => run[r].attempt # run[s].attempt
  /\ \A r \in Runs : run[r].stage \in {"reread", "lookup", "create"} =>
       made[run[r].attempt] = None
  /\ \A r \in Runs : run[r].stage \in {"lookup", "create"} => run[r].date \in Dates

(* Until a booking is linked, a claim is exclusive: only a run that links *)
(* a booking takes it away.                                               *)
OneClaim ==
  visit.booking = NoBooking =>
    \A r \in Runs : InHand(r) => visit.token = r /\ visit.state = "processing"

Seeks(r) == run[r].stage \in {"lookup", "create"}

(* So at most one run is between its lookup and its booking. *)
OneSeeker == \A r, s \in Runs : Seeks(r) /\ Seeks(s) => r = s

(* And what it did not find is not there. *)
NotFound ==
  \A r \in Runs : run[r].stage = "create" => \A n \in Attempts : made[n] # run[r].date

(* While the customer does not move the visit there is one day. *)
OneDay ==
  ~moved =>
    /\ \A n \in Attempts : made[n] \in {None, visit.date}
    /\ \A r \in Runs : Seeks(r) => run[r].date = visit.date

(* A run that is going to wipe out the mark knows of no booking, but such *)
(* as are linked or whose maker got no answer.                            *)
FailsEmpty ==
  ~moved =>
    \A r \in Runs : run[r].stage = "fail" =>
      \A n \in Attempts : made[n] # None => n \in lost \/ n = visit.booking

IInv ==
  /\ VisitsTypeOK /\ NamesBookings /\ OwnAttempts /\ OneClaim /\ OneSeeker
  /\ NotFound /\ BookedOnce /\ OneDay /\ FailsEmpty /\ BookingsAreKnown

-----------------------------------------------------------------------------
(* What the steps do, field by field. *)

(* The run r gets this place, and no other run moves. *)
RunIs(r, s, a, d, b) ==
  /\ run' \in [Runs -> Run]
  /\ run'[r].stage = s /\ run'[r].attempt = a /\ run'[r].date = d /\ run'[r].booking = b
  /\ \A q \in Runs : q # r => run'[q] = run[q]

(* The visit keeps day and status, the claim and the links are these. *)
RowIs(s, n, t, b, p, m) ==
  /\ visit' \in Visit
  /\ visit'.state = s /\ visit'.attempts = n /\ visit'.token = t
  /\ visit'.booking = b /\ visit'.pending = p /\ visit'.mark = m
  /\ visit'.date = visit.date

(* The fields of a run and of the row have their types. *)
LEMMA RunFields ==
  ASSUME VisitsTypeOK, NEW r \in Runs
  PROVE  /\ run[r].stage \in Stages /\ run[r].attempt \in 0 .. MaxAttempts
         /\ run[r].date \in Dates \cup {None} /\ run[r].booking \in Bookings
         /\ run \in [Runs -> Run]
BY DEF VisitsTypeOK, Run

LEMMA RowFields ==
  ASSUME VisitsTypeOK
  PROVE  /\ visit \in Visit
         /\ visit.status \in Mutable \cup Dropped
         /\ visit.state \in {"ready", "processing", "failed", "completed"}
         /\ visit.attempts \in 0 .. MaxAttempts /\ visit.token \in Runs \cup {None}
         /\ visit.date \in Dates /\ visit.booking \in Bookings
         /\ visit.pending \in BOOLEAN /\ visit.mark \in Bookings
BY DEF VisitsTypeOK, Visit

(* Replacing a run by a record of its own. *)
LEMMA Replaced ==
  ASSUME VisitsTypeOK, NEW r \in Runs, NEW x \in Run, run' = [run EXCEPT ![r] = x]
  PROVE  RunIs(r, x.stage, x.attempt, x.date, x.booking)
BY RunFields DEF RunIs

(* A run that goes on, and one that ends. *)
LEMMA GoEffect ==
  ASSUME VisitsTypeOK, NEW r \in Runs, NEW s \in Stages, Go(r, s)
  PROVE  RunIs(r, s, run[r].attempt, run[r].date, run[r].booking)
<1> DEFINE x == [run[r] EXCEPT !.stage = s]
<1>1. run[r] \in Run
  BY RunFields
<1>2. x \in Run /\ x.stage = s /\ x.attempt = run[r].attempt
      /\ x.date = run[r].date /\ x.booking = run[r].booking
  BY <1>1 DEF Run
<1>3. run' = [run EXCEPT ![r] = x]
  BY DEF Go
<1> HIDE DEF x
<1> QED BY <1>2, <1>3, Replaced

LEMMA EndEffect ==
  ASSUME VisitsTypeOK, NEW r \in Runs, End(r)
  PROVE  RunIs(r, "idle", 0, None, NoBooking)
<1>1. Idle \in Run
  BY VisitsAssumption DEF Idle, Run, Stages, Bookings, NoBooking
<1> QED BY <1>1, Replaced DEF End, Idle

(* What becomes of the row when it is linked, claimed, marked, failed, dropped. *)
LEMMA LinkedEffect ==
  ASSUME VisitsTypeOK, NEW b \in Bookings, visit' = Linked(b)
  PROVE  RowIs("completed", visit.attempts, None, b, FALSE, NoBooking)
BY RowFields DEF Linked, RowIs, Visit, Bookings, Mutable, NoBooking

LEMMA ClaimedRow ==
  ASSUME VisitsTypeOK, NEW r \in Runs, Claimable,
         visit' = [visit EXCEPT !.state = "processing", !.token = r,
                                !.attempts = visit.attempts + 1]
  PROVE  RowIs("processing", visit.attempts + 1, r, visit.booking,
               visit.pending, visit.mark)
<1>1. visit.attempts + 1 \in 0 .. MaxAttempts
  BY RowFields, VisitsAssumption DEF Claimable
<1> QED BY <1>1, RowFields DEF RowIs, Visit

(* One lemma per step. *)
LEMMA ReadEffect ==
  ASSUME VisitsTypeOK, NEW r \in Runs, Read(r)
  PROVE  /\ UNCHANGED <<plan, visit, made, call, history>> /\ At(r, "read")
         /\ \/ RunIs(r, "reconcile", run[r].attempt, run[r].date, visit.mark) /\ Marked
            \/ RunIs(r, "claim", run[r].attempt, run[r].date, run[r].booking)
            \/ RunIs(r, "idle", 0, None, NoBooking)
<1>1. CASE Marked
  <2> DEFINE x == [run[r] EXCEPT !.stage = "reconcile", !.booking = visit.mark]
  <2>1. x \in Run /\ x.stage = "reconcile" /\ x.booking = visit.mark
        /\ x.attempt = run[r].attempt /\ x.date = run[r].date
    BY RunFields, RowFields DEF Run, Stages
  <2>2. run' = [run EXCEPT ![r] = x]
    BY <1>1, RunFields DEF Read
  <2> HIDE DEF x
  <2>3. RunIs(r, "reconcile", run[r].attempt, run[r].date, visit.mark)
    BY <2>1, <2>2, Replaced
  <2> QED BY <1>1, <2>3 DEF Read
<1>2. CASE Go(r, "claim") /\ ~Marked
  BY <1>2, GoEffect DEF Read, Stages
<1>3. CASE End(r) /\ ~Marked
  BY <1>3, EndEffect DEF Read
<1> QED BY <1>1, <1>2, <1>3 DEF Read

LEMMA ClaimEffect ==
  ASSUME VisitsTypeOK, NEW r \in Runs, Claim(r)
  PROVE  /\ UNCHANGED <<plan, made, call, history>> /\ At(r, "claim")
         /\ \/ /\ Claimable
               /\ RowIs("processing", visit.attempts + 1, r, visit.booking,
                        visit.pending, visit.mark)
               /\ RunIs(r, "reread", visit.attempts + 1, run[r].date, run[r].booking)
            \/ ~Claimable /\ visit' = visit /\ RunIs(r, "idle", 0, None, NoBooking)
<1>1. CASE Claimable
  <2> DEFINE x == [run[r] EXCEPT !.stage = "reread", !.attempt = visit.attempts + 1]
  <2>0. visit.attempts + 1 \in 0 .. MaxAttempts
    BY <1>1, RowFields, VisitsAssumption DEF Claimable
  <2>1. x \in Run /\ x.stage = "reread" /\ x.booking = run[r].booking
        /\ x.attempt = visit.attempts + 1 /\ x.date = run[r].date
    BY <2>0, RunFields DEF Run, Stages
  <2>2. run' = [run EXCEPT ![r] = x]
    BY <1>1, RunFields DEF Claim
  <2> HIDE DEF x
  <2>3. RunIs(r, "reread", visit.attempts + 1, run[r].date, run[r].booking)
    BY <2>1, <2>2, Replaced
  <2>4. RowIs("processing", visit.attempts + 1, r, visit.booking, visit.pending, visit.mark)
    BY <1>1, ClaimedRow DEF Claim
  <2> QED BY <1>1, <2>3, <2>4 DEF Claim
<1>2. CASE ~Claimable
  BY <1>2, EndEffect DEF Claim
<1> QED BY <1>1, <1>2

LEMMA RereadEffect ==
  ASSUME VisitsTypeOK, NEW r \in Runs, Reread(r)
  PROVE  /\ UNCHANGED <<plan, visit, made, call, history>> /\ At(r, "reread")
         /\ \/ RunIs(r, "idle", 0, None, NoBooking)
            \/ /\ visit.token = r /\ visit.booking = NoBooking
               /\ RunIs(r, "lookup", run[r].attempt, visit.date, NoBooking)
            \/ /\ visit.token = r /\ visit.booking # NoBooking
               /\ RunIs(r, "link", run[r].attempt, visit.date, visit.booking)
<1>1. CASE visit.token # r
  BY <1>1, EndEffect DEF Reread
<1>2. CASE visit.token = r
  <2> DEFINE s == IF visit.booking = NoBooking THEN "lookup" ELSE "link"
             x == [run[r] EXCEPT !.stage = s, !.date = visit.date,
                                 !.booking = visit.booking]
  <2>1. x \in Run /\ x.stage = s /\ x.booking = visit.booking
        /\ x.attempt = run[r].attempt /\ x.date = visit.date
    BY RunFields, RowFields DEF Run, Stages
  <2>2. run' = [run EXCEPT ![r] = x]
    BY <1>2, RunFields DEF Reread
  <2> HIDE DEF x
  <2>3. RunIs(r, s, run[r].attempt, visit.date, visit.booking)
    BY <2>1, <2>2, Replaced
  <2> QED BY <1>2, <2>3 DEF Reread
<1> QED BY <1>1, <1>2

LEMMA LookupEffect ==
  ASSUME VisitsTypeOK, NEW r \in Runs, Lookup(r)
  PROVE  /\ UNCHANGED <<plan, visit, made, call, history>> /\ At(r, "lookup")
         /\ \/ \E n \in Attempts : /\ made[n] = run[r].date
                                   /\ RunIs(r, "link", run[r].attempt, run[r].date, n)
            \/ /\ \A n \in Attempts : made[n] # run[r].date
               /\ RunIs(r, "create", run[r].attempt, run[r].date, run[r].booking)
<1>1. ASSUME NEW n \in Attempts, made[n] = run[r].date,
             run' = [run EXCEPT ![r].stage = "link", ![r].booking = n]
      PROVE  RunIs(r, "link", run[r].attempt, run[r].date, n)
  <2> DEFINE x == [run[r] EXCEPT !.stage = "link", !.booking = n]
  <2>1. x \in Run /\ x.stage = "link" /\ x.booking = n
        /\ x.attempt = run[r].attempt /\ x.date = run[r].date
    BY RunFields DEF Run, Stages, Bookings
  <2>2. run' = [run EXCEPT ![r] = x]
    BY <1>1, RunFields
  <2> HIDE DEF x
  <2> QED BY <2>1, <2>2, Replaced
<1>2. CASE Go(r, "create") /\ \A n \in Attempts : made[n] # run[r].date
  BY <1>2, GoEffect DEF Lookup, Stages
<1> QED BY <1>1, <1>2 DEF Lookup, At

LEMMA CreateEffect ==
  ASSUME VisitsTypeOK, NEW r \in Runs, Create(r)
  PROVE  /\ UNCHANGED <<plan, visit, call, history>> /\ At(r, "create")
         /\ made' = [made EXCEPT ![run[r].attempt] = run[r].date]
         /\ RunIs(r, "link", run[r].attempt, run[r].date, run[r].attempt)
<1> DEFINE x == [run[r] EXCEPT !.stage = "link", !.booking = run[r].attempt]
<1>0. run[r].attempt \in Bookings
  BY RunFields, VisitsAssumption DEF Bookings, Attempts, NoBooking
<1>1. x \in Run /\ x.stage = "link" /\ x.booking = run[r].attempt
      /\ x.attempt = run[r].attempt /\ x.date = run[r].date
  BY <1>0, RunFields DEF Run, Stages
<1>2. run' = [run EXCEPT ![r] = x]
  BY RunFields DEF Create
<1> HIDE DEF x
<1>3. RunIs(r, "link", run[r].attempt, run[r].date, run[r].attempt)
  BY <1>1, <1>2, Replaced
<1> QED BY <1>3 DEF Create

LEMMA SplitRow ==
  ASSUME VisitsTypeOK, NEW b \in Bookings,
         visit' = [visit EXCEPT !.state = "failed", !.pending = TRUE,
                                !.mark = b, !.token = None]
  PROVE  RowIs("failed", visit.attempts, None, visit.booking, TRUE, b)
BY RowFields DEF RowIs, Visit

LEMMA FailedRow ==
  ASSUME VisitsTypeOK,
         visit' = [visit EXCEPT !.status = "needs_review", !.state = "failed",
                                !.mark = NoBooking, !.token = None]
  PROVE  RowIs("failed", visit.attempts, None, visit.booking, visit.pending, NoBooking)
BY RowFields DEF RowIs, Visit, Mutable, Unbooked, Bookings, NoBooking

LEMMA StatusRow ==
  ASSUME VisitsTypeOK, NEW s \in Dropped, visit' = [visit EXCEPT !.status = s]
  PROVE  RowIs(visit.state, visit.attempts, visit.token, visit.booking,
               visit.pending, visit.mark)
BY RowFields DEF RowIs, Visit

LEMMA ReconcileEffect ==
  ASSUME VisitsTypeOK, NEW r \in Runs, Reconcile(r)
  PROVE  /\ UNCHANGED <<plan, made, call, history>> /\ At(r, "reconcile")
         /\ RunIs(r, "idle", 0, None, NoBooking)
         /\ \/ /\ visit.pending /\ visit.booking = NoBooking
               /\ RowIs("completed", visit.attempts, None, run[r].booking, FALSE, NoBooking)
            \/ visit' = visit
<1>1. CASE visit.pending /\ visit.booking = NoBooking
  BY <1>1, RunFields, EndEffect, LinkedEffect DEF Reconcile
<1>2. CASE ~(visit.pending /\ visit.booking = NoBooking)
  BY <1>2, EndEffect DEF Reconcile
<1> QED BY <1>1, <1>2

LEMMA LinkEffect ==
  ASSUME VisitsTypeOK, NEW r \in Runs, Link(r)
  PROVE  /\ UNCHANGED <<plan, made, call, history>> /\ At(r, "link")
         /\ \/ /\ visit.token = r /\ RunIs(r, "idle", 0, None, NoBooking)
               /\ RowIs("completed", visit.attempts, None, run[r].booking, FALSE, NoBooking)
            \/ /\ visit.token # r /\ visit' = visit
               /\ RunIs(r, "split", run[r].attempt, run[r].date, run[r].booking)
<1>1. CASE visit.token = r
  BY <1>1, RunFields, EndEffect, LinkedEffect DEF Link
<1>2. CASE visit.token # r
  BY <1>2, GoEffect DEF Link, Stages
<1> QED BY <1>1, <1>2

LEMMA SplitEffect ==
  ASSUME VisitsTypeOK, NEW r \in Runs, Split(r)
  PROVE  /\ UNCHANGED <<plan, made, call, history>> /\ At(r, "split")
         /\ RunIs(r, "idle", 0, None, NoBooking)
         /\ \/ /\ visit.token = r
               /\ RowIs("failed", visit.attempts, None, visit.booking, TRUE, run[r].booking)
            \/ visit.token # r /\ visit' = visit
<1>1. CASE visit.token = r
  BY <1>1, RunFields, EndEffect, SplitRow DEF Split
<1>2. CASE visit.token # r
  BY <1>2, EndEffect DEF Split
<1> QED BY <1>1, <1>2

LEMMA FailEffect ==
  ASSUME VisitsTypeOK, NEW r \in Runs, Fail(r)
  PROVE  /\ UNCHANGED <<plan, made, call, history>> /\ At(r, "fail")
         /\ RunIs(r, "idle", 0, None, NoBooking)
         /\ RowIs("failed", visit.attempts, None, visit.booking, visit.pending, NoBooking)
BY EndEffect, FailedRow DEF Fail

LEMMA CreateThrowsEffect ==
  ASSUME VisitsTypeOK, NEW r \in Runs, CreateThrows(r)
  PROVE  /\ UNCHANGED <<plan, visit, call, faults, moved>> /\ At(r, "create")
         /\ RunIs(r, "fail", run[r].attempt, run[r].date, run[r].booking)
         /\ \/ UNCHANGED <<made, lost>>
            \/ /\ made' = [made EXCEPT ![run[r].attempt] = run[r].date]
               /\ lost' = lost \cup {run[r].attempt}
BY GoEffect DEF CreateThrows, Stages

LEMMA LinkFailsEffect ==
  ASSUME VisitsTypeOK, NEW r \in Runs, LinkFails(r)
  PROVE  /\ UNCHANGED <<plan, visit, made, call, moved, lost>> /\ At(r, "link")
         /\ faults' = faults + 1 /\ faults < MaxFaults
         /\ RunIs(r, "split", run[r].attempt, run[r].date, run[r].booking)
BY GoEffect DEF LinkFails, Stages

LEMMA SplitFailsEffect ==
  ASSUME VisitsTypeOK, NEW r \in Runs, SplitFails(r)
  PROVE  /\ UNCHANGED <<plan, visit, made, call, moved>> /\ At(r, "split")
         /\ faults' = faults + 1 /\ faults < MaxFaults
         /\ lost' = lost \cup {run[r].booking}
         /\ \/ RunIs(r, "fail", run[r].attempt, run[r].date, run[r].booking)
            \/ RunIs(r, "idle", 0, None, NoBooking)
<1>1. CASE run[r].booking = run[r].attempt
  BY <1>1, GoEffect DEF SplitFails, Stages
<1>2. CASE run[r].booking # run[r].attempt
  BY <1>2, EndEffect DEF SplitFails
<1> QED BY <1>1, <1>2

LEMMA DiesEffect ==
  ASSUME VisitsTypeOK, NEW r \in Runs, Dies(r)
  PROVE  /\ UNCHANGED <<plan, visit, made, call, moved>>
         /\ faults' = faults + 1 /\ faults < MaxFaults
         /\ RunIs(r, "idle", 0, None, NoBooking)
         /\ lost' = IF run[r].stage \in {"link", "split"}
                    THEN lost \cup {run[r].booking} ELSE lost
BY EndEffect DEF Dies

LEMMA BeginEffect ==
  ASSUME VisitsTypeOK, NEW r \in Runs, Begin(r)
  PROVE  /\ UNCHANGED <<plan, visit, made, call, history>> /\ At(r, "idle")
         /\ RunIs(r, "read", run[r].attempt, run[r].date, run[r].booking)
BY GoEffect DEF Begin, Stages

LEMMA CustomerEffect ==
  ASSUME VisitsTypeOK, NEW c \in Customers, Customer(c)
  PROVE  /\ UNCHANGED <<made, run, faults, lost>>
         /\ call' \in [Customers -> Steps]
         /\ plan' \in {"active", "paused", "canceled"}
         /\ visit' \in Visit
         /\ visit'.state = visit.state /\ visit'.attempts = visit.attempts
         /\ visit'.token = visit.token /\ visit'.booking = visit.booking
         /\ visit'.pending = visit.pending /\ visit'.mark = visit.mark
         /\ moved' \in BOOLEAN /\ (moved => moved')
         /\ ~moved' => visit'.date = visit.date
<1> USE DEF VisitsTypeOK, Steps
<1>1. CASE Ask(c)
  BY <1>1, RowFields DEF Ask, BeginCall, history
<1>2. CASE PatchDate(c)
  BY <1>2, RowFields DEF PatchDate, EndCall, Visit
<1>3. CASE Skip(c)
  BY <1>3, StatusRow DEF Skip, EndCall, history, Dropped, RowIs
<1>4. CASE SetPlan(c)
  BY <1>4, RowFields DEF SetPlan, EndCall, history
<1>5. CASE BeginCancel(c)
  BY <1>5, RowFields DEF BeginCancel, BeginCall, history
<1>6. CASE CancelVisit(c)
  BY <1>6, StatusRow DEF CancelVisit, history, Dropped, RowIs
<1> QED BY <1>1, <1>2, <1>3, <1>4, <1>5, <1>6 DEF Customer

-----------------------------------------------------------------------------
(* The steps that neither claim nor look nor create. *)
Quiet(r) ==
  \/ Begin(r) \/ Read(r) \/ Reconcile(r) \/ Link(r) \/ LinkFails(r)
  \/ Split(r) \/ SplitFails(r) \/ Fail(r) \/ Dies(r)

LEMMA StepKinds ==
  ASSUME [Next]_vars
  PROVE  \/ \E r \in Runs : \/ Quiet(r) \/ Claim(r) \/ Reread(r) \/ Lookup(r)
                            \/ Create(r) \/ CreateThrows(r)
         \/ \E c \in Customers : Customer(c)
         \/ UNCHANGED vars
BY DEF Next, Proceed, Fails, Quiet

(* They leave bookings and attempts alone, and bring a run nowhere near its *)
(* claim or its lookup.                                                     *)
LEMMA QuietEffect ==
  ASSUME VisitsTypeOK, NEW r \in Runs, Quiet(r)
  PROVE  /\ UNCHANGED <<made, moved>>
         /\ visit'.attempts = visit.attempts /\ visit'.date = visit.date
         /\ \A q \in Runs : q # r => run'[q] = run[q]
         /\ run'[r].stage \in {"idle", "read", "reconcile", "claim", "split", "fail"}
         /\ run'[r].stage \in {"split", "fail"} =>
              InHand(r) /\ run'[r].attempt = run[r].attempt
<1> USE DEF RunIs, RowIs, history, At, InHand
<1>1. CASE Begin(r)
  BY <1>1, BeginEffect
<1>2. CASE Read(r)
  BY <1>2, ReadEffect
<1>3. CASE Reconcile(r)
  BY <1>3, ReconcileEffect
<1>4. CASE Link(r)
  BY <1>4, LinkEffect
<1>5. CASE LinkFails(r)
  BY <1>5, LinkFailsEffect
<1>6. CASE Split(r)
  BY <1>6, SplitEffect
<1>7. CASE SplitFails(r)
  BY <1>7, SplitFailsEffect
<1>8. CASE Fail(r)
  BY <1>8, FailEffect
<1>9. CASE Dies(r)
  BY <1>9, DiesEffect
<1> QED BY <1>1, <1>2, <1>3, <1>4, <1>5, <1>6, <1>7, <1>8, <1>9 DEF Quiet

(* What it takes to create: the booking of one's own attempt is added. *)
Makes(r) ==
  /\ run[r].attempt \in Attempts
  /\ made' \in [Attempts -> Dates \cup {None}]
  /\ made'[run[r].attempt] = run[r].date
  /\ \A n \in Attempts : n # run[r].attempt => made'[n] = made[n]

LEMMA Made ==
  ASSUME VisitsTypeOK, OwnAttempts, NEW r \in Runs, At(r, "create"),
         made' = [made EXCEPT ![run[r].attempt] = run[r].date]
  PROVE  Makes(r)
<1>1. run[r].attempt \in Attempts
  BY RowFields, VisitsAssumption DEF OwnAttempts, InHand, At, Attempts
<1> QED BY <1>1, RunFields DEF Makes, VisitsTypeOK

LEMMA CreateMakes ==
  ASSUME VisitsTypeOK, OwnAttempts, NEW r \in Runs, Create(r)
  PROVE  Makes(r)
BY Made, CreateEffect

LEMMA CreateThrowsMakes ==
  ASSUME VisitsTypeOK, OwnAttempts, NEW r \in Runs, CreateThrows(r)
  PROVE  UNCHANGED <<made, lost>> \/ (Makes(r) /\ lost' = lost \cup {run[r].attempt})
BY Made, CreateThrowsEffect

LEMMA AttemptsStep ==
  ASSUME VisitsTypeOK, OwnAttempts, [Next]_vars
  PROVE  OwnAttempts'
<1> USE DEF RunIs, RowIs, history, At, Makes, InHand
<1>a. visit.attempts \in Nat /\ visit.date \in Dates
  BY RowFields, VisitsAssumption
<1>b. \A n \in Attempts : n \in Nat
  BY DEF Attempts
<1>1. ASSUME NEW r \in Runs, Quiet(r) PROVE OwnAttempts'
  BY <1>1, QuietEffect DEF OwnAttempts
<1>2. ASSUME NEW r \in Runs, Claim(r) PROVE OwnAttempts'
  <2>1. CASE Claimable
    <3>1. visit'.attempts = visit.attempts + 1 /\ made' = made
          /\ run'[r].attempt = visit.attempts + 1 /\ run'[r].stage = "reread"
          /\ \A q \in Runs : q # r => run'[q] = run[q]
      BY <1>2, <2>1, ClaimEffect
    <3>2. \A n \in Attempts : made'[n] # None => n <= visit'.attempts
      BY <1>a, <1>b, <3>1 DEF OwnAttempts
    <3>3. \A q \in Runs : InHand(q)' => run'[q].attempt \in 1 .. visit'.attempts
      BY <1>a, <3>1 DEF OwnAttempts
    <3>4. ASSUME NEW p \in Runs, NEW q \in Runs, InHand(p)', InHand(q)', p # q
          PROVE  run'[p].attempt # run'[q].attempt
      BY <1>a, <3>1, <3>4 DEF OwnAttempts
    <3>5. ASSUME NEW q \in Runs, run'[q].stage \in {"reread", "lookup", "create"}
          PROVE  made'[run'[q].attempt] = None
      <4>1. CASE q = r
        <5>1. visit.attempts + 1 \in Attempts
          BY <1>a, <2>1, RowFields, VisitsAssumption DEF Claimable, Attempts
        <5>2. ~(visit.attempts + 1 <= visit.attempts)
          BY <1>a
        <5> QED BY <3>1, <4>1, <5>1, <5>2 DEF OwnAttempts
      <4> QED BY <3>1, <3>5, <4>1 DEF OwnAttempts
    <3> QED BY <3>1, <3>2, <3>3, <3>4, <3>5 DEF OwnAttempts
  <2>2. CASE ~Claimable
    BY <1>2, <2>2, ClaimEffect DEF OwnAttempts
  <2> QED BY <2>1, <2>2
<1>3. ASSUME NEW r \in Runs, Reread(r) PROVE OwnAttempts'
  BY <1>3, <1>a, RereadEffect DEF OwnAttempts
<1>4. ASSUME NEW r \in Runs, Lookup(r) PROVE OwnAttempts'
  BY <1>4, LookupEffect DEF OwnAttempts
<1>5. ASSUME NEW r \in Runs, Makes(r), At(r, "create"), visit' = visit,
             run'[r].stage \in {"link", "fail"}, run'[r].attempt = run[r].attempt,
             \A q \in Runs : q # r => run'[q] = run[q]
      PROVE  OwnAttempts'
  <2>1. run[r].attempt <= visit.attempts
    BY <1>5, <1>a DEF OwnAttempts
  <2>2. \A n \in Attempts : made'[n] # None => n <= visit'.attempts
    BY <1>5, <2>1 DEF OwnAttempts
  <2>3. \A q \in Runs : run'[q].stage \in {"reread", "lookup", "create"} =>
          made'[run'[q].attempt] = None
    <3> SUFFICES ASSUME NEW q \in Runs, run'[q].stage \in {"reread", "lookup", "create"}
                 PROVE  made'[run[q].attempt] = None /\ run'[q] = run[q]
      OBVIOUS
    <3>1. q # r /\ run'[q] = run[q]
      BY <1>5
    <3>2. run[q].attempt \in Attempts
      BY <3>1, RowFields, VisitsAssumption DEF OwnAttempts, Attempts
    <3>3. run[q].attempt # run[r].attempt /\ made[run[q].attempt] = None
      BY <1>5, <3>1 DEF OwnAttempts
    <3> QED BY <1>5, <3>1, <3>2, <3>3
  <2> QED BY <1>5, <2>2, <2>3 DEF OwnAttempts
<1>6. ASSUME NEW r \in Runs, Create(r) PROVE OwnAttempts'
  BY <1>5, <1>6, CreateEffect, CreateMakes
<1>7. ASSUME NEW r \in Runs, CreateThrows(r) PROVE OwnAttempts'
  <2>1. CASE made' = made
    BY <1>7, <2>1, CreateThrowsEffect DEF OwnAttempts
  <2>2. CASE Makes(r)
    BY <1>5, <1>7, <2>2, CreateThrowsEffect
  <2> QED BY <1>7, <2>1, <2>2, CreateThrowsMakes
<1>8. ASSUME NEW c \in Customers, Customer(c) PROVE OwnAttempts'
  BY <1>8, CustomerEffect DEF OwnAttempts
<1>9. CASE UNCHANGED vars
  BY <1>9 DEF vars, OwnAttempts
<1> QED BY <1>1, <1>2, <1>3, <1>4, <1>6, <1>7, <1>8, <1>9, StepKinds

LEMMA TypeStep ==
  ASSUME VisitsTypeOK, NamesBookings, OwnAttempts, [Next]_vars
  PROVE  VisitsTypeOK'
<1> USE DEF RunIs, RowIs, history, At
<1>a. /\ plan \in {"active", "paused", "canceled"} /\ visit \in Visit
      /\ made \in [Attempts -> Dates \cup {None}] /\ run \in [Runs -> Run]
      /\ call \in [Customers -> Steps] /\ faults \in 0 .. MaxFaults
      /\ moved \in BOOLEAN /\ lost \subseteq Attempts
  BY DEF VisitsTypeOK
<1>b. \A r \in Runs : run[r].stage \in {"link", "split"} => run[r].booking \in Attempts
  BY RunFields DEF NamesBookings, Bookings
<1>f. faults < MaxFaults => faults + 1 \in 0 .. MaxFaults
  BY <1>a, VisitsAssumption
<1>1. ASSUME NEW r \in Runs, Begin(r) PROVE VisitsTypeOK'
  BY <1>1, <1>a, BeginEffect DEF VisitsTypeOK
<1>2. ASSUME NEW r \in Runs, Read(r) PROVE VisitsTypeOK'
  BY <1>2, <1>a, ReadEffect DEF VisitsTypeOK
<1>3. ASSUME NEW r \in Runs, Reconcile(r) PROVE VisitsTypeOK'
  BY <1>3, <1>a, ReconcileEffect DEF VisitsTypeOK
<1>4. ASSUME NEW r \in Runs, Claim(r) PROVE VisitsTypeOK'
  BY <1>4, <1>a, ClaimEffect DEF VisitsTypeOK
<1>5. ASSUME NEW r \in Runs, Reread(r) PROVE VisitsTypeOK'
  BY <1>5, <1>a, RereadEffect DEF VisitsTypeOK
<1>6. ASSUME NEW r \in Runs, Lookup(r) PROVE VisitsTypeOK'
  BY <1>6, <1>a, LookupEffect DEF VisitsTypeOK
<1>7. ASSUME NEW r \in Runs, Create(r) PROVE VisitsTypeOK'
  BY <1>7, <1>a, CreateEffect, CreateMakes DEF VisitsTypeOK, Makes
<1>8. ASSUME NEW r \in Runs, CreateThrows(r) PROVE VisitsTypeOK'
  BY <1>8, <1>a, CreateThrowsEffect, CreateThrowsMakes DEF VisitsTypeOK, Makes
<1>9. ASSUME NEW r \in Runs, Link(r) PROVE VisitsTypeOK'
  BY <1>9, <1>a, LinkEffect DEF VisitsTypeOK
<1>10. ASSUME NEW r \in Runs, LinkFails(r) PROVE VisitsTypeOK'
  BY <1>10, <1>a, <1>f, LinkFailsEffect DEF VisitsTypeOK
<1>11. ASSUME NEW r \in Runs, Split(r) PROVE VisitsTypeOK'
  BY <1>11, <1>a, SplitEffect DEF VisitsTypeOK
<1>12. ASSUME NEW r \in Runs, SplitFails(r) PROVE VisitsTypeOK'
  BY <1>12, <1>a, <1>b, <1>f, SplitFailsEffect DEF VisitsTypeOK
<1>13. ASSUME NEW r \in Runs, Fail(r) PROVE VisitsTypeOK'
  BY <1>13, <1>a, FailEffect DEF VisitsTypeOK
<1>14. ASSUME NEW r \in Runs, Dies(r) PROVE VisitsTypeOK'
  BY <1>14, <1>a, <1>b, <1>f, DiesEffect DEF VisitsTypeOK
<1>15. ASSUME NEW c \in Customers, Customer(c) PROVE VisitsTypeOK'
  BY <1>15, <1>a, CustomerEffect DEF VisitsTypeOK
<1>16. CASE UNCHANGED vars
  BY <1>16, <1>a DEF vars, VisitsTypeOK
<1> QED
  BY <1>1, <1>2, <1>3, <1>4, <1>5, <1>6, <1>7, <1>8, <1>9, <1>10, <1>11, <1>12, <1>13,
     <1>14, <1>15, <1>16 DEF Next, Proceed, Fails

LEMMA NamesStep ==
  ASSUME VisitsTypeOK, OwnAttempts, NamesBookings, [Next]_vars
  PROVE  NamesBookings'
<1> USE DEF RunIs, RowIs, history, At, Makes
<1>a. /\ visit.booking # NoBooking => visit.booking \in Attempts
      /\ visit.mark # NoBooking => visit.mark \in Attempts
      /\ \A r \in Runs : run[r].booking # NoBooking => run[r].booking \in Attempts
  BY RowFields, RunFields DEF Bookings
<1>0. NoBooking \notin Attempts
  BY DEF NoBooking, Attempts
(* A step of one run that leaves the bookings alone. *)
<1>h. ASSUME UNCHANGED made, NEW r \in Runs,
             \A q \in Runs : q # r => run'[q] = run[q],
             run'[r].stage \in {"reconcile", "link", "split"} =>
               run'[r].booking # NoBooking /\ made[run'[r].booking] # None,
             visit'.booking # NoBooking => made[visit'.booking] # None,
             visit'.mark # NoBooking => made[visit'.mark] # None
      PROVE  NamesBookings'
  <2>1. \A q \in Runs : run'[q].stage \in {"reconcile", "link", "split"} =>
          run'[q].booking # NoBooking /\ made[run'[q].booking] # None
    BY <1>h DEF NamesBookings
  <2> QED BY <1>h, <2>1 DEF NamesBookings
<1>n. \A r \in Runs : run[r].stage \in {"link", "split"} =>
        run[r].booking # NoBooking /\ made[run[r].booking] # None
  BY DEF NamesBookings
<1>v. /\ visit.booking # NoBooking => made[visit.booking] # None
      /\ visit.mark # NoBooking => made[visit.mark] # None
  BY DEF NamesBookings
<1>1. ASSUME NEW r \in Runs, Begin(r) PROVE NamesBookings'
  BY <1>1, BeginEffect DEF NamesBookings
<1>2. ASSUME NEW r \in Runs, Read(r) PROVE NamesBookings'
  BY <1>2, ReadEffect DEF NamesBookings, Marked
<1>3. ASSUME NEW r \in Runs, Reconcile(r) PROVE NamesBookings'
  BY <1>3, ReconcileEffect DEF NamesBookings
<1>4. ASSUME NEW r \in Runs, Claim(r) PROVE NamesBookings'
  BY <1>4, ClaimEffect DEF NamesBookings
<1>5. ASSUME NEW r \in Runs, Reread(r) PROVE NamesBookings'
  BY <1>5, RereadEffect DEF NamesBookings
<1>6. ASSUME NEW r \in Runs, Lookup(r) PROVE NamesBookings'
  <2>1. ASSUME NEW n \in Attempts, made[n] = run[r].date,
               RunIs(r, "link", run[r].attempt, run[r].date, n)
        PROVE  NamesBookings'
    <3>1. made[n] # None /\ n # NoBooking
      BY <1>6, <1>0, <2>1, VisitsAssumption, LookupEffect DEF OwnAttempts
    <3> QED BY <1>6, <2>1, <3>1, LookupEffect DEF NamesBookings
  <2>2. CASE RunIs(r, "create", run[r].attempt, run[r].date, run[r].booking)
    BY <1>6, <2>2, LookupEffect DEF NamesBookings
  <2> QED BY <1>6, <2>1, <2>2, LookupEffect
<1>7. ASSUME NEW r \in Runs, At(r, "create"), Makes(r)
      PROVE  /\ \A n \in Attempts : made[n] # None => made'[n] # None
             /\ made'[run[r].attempt] # None /\ run[r].attempt # NoBooking
  BY <1>7, <1>0, VisitsAssumption DEF OwnAttempts
<1>8. ASSUME NEW r \in Runs, Create(r) PROVE NamesBookings'
  BY <1>8, <1>7, <1>a, CreateEffect, CreateMakes DEF NamesBookings
<1>9. ASSUME NEW r \in Runs, CreateThrows(r) PROVE NamesBookings'
  <2>1. CASE made' = made
    BY <1>9, <2>1, CreateThrowsEffect DEF NamesBookings
  <2>2. CASE Makes(r)
    BY <1>9, <2>2, <1>7, <1>a, CreateThrowsEffect DEF NamesBookings
  <2> QED BY <1>9, <2>1, <2>2, CreateThrowsMakes
<1>10. ASSUME NEW r \in Runs, Link(r) PROVE NamesBookings'
  <2>1. /\ run[r].booking # NoBooking /\ made[run[r].booking] # None
        /\ UNCHANGED made /\ \A q \in Runs : q # r => run'[q] = run[q]
    BY <1>10, <1>n, LinkEffect
  <2>2. CASE visit.token = r
    <3>1. /\ visit'.booking = run[r].booking /\ visit'.mark = NoBooking
          /\ run'[r].stage = "idle"
      BY <1>10, <2>2, LinkEffect
    <3> QED BY <2>1, <3>1, <1>h
  <2>3. CASE visit.token # r
    <3>1. visit' = visit /\ run'[r].booking = run[r].booking
      BY <1>10, <2>3, LinkEffect
    <3> QED BY <2>1, <3>1, <1>v, <1>h
  <2> QED BY <2>2, <2>3
<1>11. ASSUME NEW r \in Runs, LinkFails(r) PROVE NamesBookings'
  BY <1>11, LinkFailsEffect DEF NamesBookings
<1>12. ASSUME NEW r \in Runs, Split(r) PROVE NamesBookings'
  <2>1. /\ run[r].booking # NoBooking /\ made[run[r].booking] # None
        /\ UNCHANGED made /\ \A q \in Runs : q # r => run'[q] = run[q]
        /\ run'[r].stage = "idle" /\ visit'.booking = visit.booking
        /\ visit'.mark \in {visit.mark, run[r].booking}
    BY <1>12, <1>n, SplitEffect
  <2> QED BY <2>1, <1>v, <1>h
<1>13. ASSUME NEW r \in Runs, SplitFails(r) PROVE NamesBookings'
  BY <1>13, SplitFailsEffect DEF NamesBookings
<1>14. ASSUME NEW r \in Runs, Fail(r) PROVE NamesBookings'
  BY <1>14, FailEffect DEF NamesBookings
<1>15. ASSUME NEW r \in Runs, Dies(r) PROVE NamesBookings'
  BY <1>15, DiesEffect DEF NamesBookings
<1>16. ASSUME NEW c \in Customers, Customer(c) PROVE NamesBookings'
  BY <1>16, CustomerEffect DEF NamesBookings
<1>17. CASE UNCHANGED vars
  BY <1>17 DEF vars, NamesBookings
<1> QED
  BY <1>1, <1>2, <1>3, <1>4, <1>5, <1>6, <1>8, <1>9, <1>10, <1>11, <1>12, <1>13, <1>14,
     <1>15, <1>16, <1>17 DEF Next, Proceed, Fails

LEMMA ClaimStep ==
  ASSUME VisitsTypeOK, NamesBookings, OneClaim, [Next]_vars
  PROVE  OneClaim'
<1> USE DEF RunIs, RowIs, history, At, InHand
<1>1. ASSUME NEW r \in Runs, Begin(r) PROVE OneClaim'
  BY <1>1, BeginEffect DEF OneClaim
<1>2. ASSUME NEW r \in Runs, Read(r) PROVE OneClaim'
  BY <1>2, ReadEffect DEF OneClaim
<1>3. ASSUME NEW r \in Runs, Reconcile(r) PROVE OneClaim'
  BY <1>3, ReconcileEffect DEF OneClaim, NamesBookings
<1>4. ASSUME NEW r \in Runs, Claim(r) PROVE OneClaim'
  <2>1. CASE Claimable
    <3>1. visit.state # "processing"
      BY <2>1 DEF Claimable
    <3>2. visit'.booking = NoBooking => \A q \in Runs : ~InHand(q)
      BY <1>4, <2>1, <3>1, ClaimEffect DEF OneClaim
    <3> QED BY <1>4, <2>1, <3>2, ClaimEffect DEF OneClaim
  <2>2. CASE ~Claimable
    BY <1>4, <2>2, ClaimEffect DEF OneClaim
  <2> QED BY <2>1, <2>2
<1>5. ASSUME NEW r \in Runs, Reread(r) PROVE OneClaim'
  BY <1>5, RereadEffect DEF OneClaim
<1>6. ASSUME NEW r \in Runs, Lookup(r) PROVE OneClaim'
  BY <1>6, LookupEffect DEF OneClaim
<1>7. ASSUME NEW r \in Runs, Create(r) PROVE OneClaim'
  BY <1>7, CreateEffect DEF OneClaim
<1>8. ASSUME NEW r \in Runs, CreateThrows(r) PROVE OneClaim'
  BY <1>8, CreateThrowsEffect DEF OneClaim
<1>9. ASSUME NEW r \in Runs, Link(r) PROVE OneClaim'
  BY <1>9, LinkEffect DEF OneClaim, NamesBookings
<1>10. ASSUME NEW r \in Runs, LinkFails(r) PROVE OneClaim'
  BY <1>10, LinkFailsEffect DEF OneClaim
<1>11. ASSUME NEW r \in Runs, Split(r) PROVE OneClaim'
  BY <1>11, SplitEffect DEF OneClaim
<1>12. ASSUME NEW r \in Runs, SplitFails(r) PROVE OneClaim'
  BY <1>12, SplitFailsEffect DEF OneClaim
<1>13. ASSUME NEW r \in Runs, Fail(r) PROVE OneClaim'
  BY <1>13, FailEffect DEF OneClaim
<1>14. ASSUME NEW r \in Runs, Dies(r) PROVE OneClaim'
  BY <1>14, DiesEffect DEF OneClaim
<1>15. ASSUME NEW c \in Customers, Customer(c) PROVE OneClaim'
  BY <1>15, CustomerEffect DEF OneClaim
<1>16. CASE UNCHANGED vars
  BY <1>16 DEF vars, OneClaim
<1> QED
  BY <1>1, <1>2, <1>3, <1>4, <1>5, <1>6, <1>7, <1>8, <1>9, <1>10, <1>11, <1>12, <1>13,
     <1>14, <1>15, <1>16 DEF Next, Proceed, Fails

LEMMA SeekerStep ==
  ASSUME VisitsTypeOK, OwnAttempts, OneClaim, OneSeeker, [Next]_vars
  PROVE  OneSeeker'
<1> USE DEF RunIs, RowIs, history, At, Makes, OneClaim, OneSeeker, Seeks, InHand
<1>1. ASSUME NEW r \in Runs, Quiet(r) PROVE OneSeeker'
  BY <1>1, QuietEffect
<1>2. ASSUME NEW r \in Runs, Claim(r) PROVE OneSeeker'
  BY <1>2, ClaimEffect
<1>3. ASSUME NEW r \in Runs, Reread(r) PROVE OneSeeker'
  BY <1>3, RereadEffect
<1>4. ASSUME NEW r \in Runs, Lookup(r) PROVE OneSeeker'
  BY <1>4, LookupEffect
<1>5. ASSUME NEW r \in Runs, Create(r) PROVE OneSeeker'
  BY <1>5, CreateEffect, CreateMakes
<1>6. ASSUME NEW r \in Runs, CreateThrows(r) PROVE OneSeeker'
  BY <1>6, CreateThrowsEffect, CreateThrowsMakes
<1>7. ASSUME NEW c \in Customers, Customer(c) PROVE OneSeeker'
  BY <1>7, CustomerEffect
<1>8. CASE UNCHANGED vars
  BY <1>8 DEF vars
<1> QED BY <1>1, <1>2, <1>3, <1>4, <1>5, <1>6, <1>7, <1>8, StepKinds

LEMMA NotFoundStep ==
  ASSUME VisitsTypeOK, OwnAttempts, OneSeeker, NotFound, [Next]_vars
  PROVE  NotFound'
<1> USE DEF RunIs, RowIs, history, At, Makes, NotFound, OneSeeker, Seeks
<1>1. ASSUME NEW r \in Runs, Quiet(r) PROVE NotFound'
  BY <1>1, QuietEffect
<1>2. ASSUME NEW r \in Runs, Claim(r) PROVE NotFound'
  BY <1>2, ClaimEffect
<1>3. ASSUME NEW r \in Runs, Reread(r) PROVE NotFound'
  BY <1>3, RereadEffect
<1>4. ASSUME NEW r \in Runs, Lookup(r) PROVE NotFound'
  BY <1>4, LookupEffect
<1>5. ASSUME NEW r \in Runs, Create(r) PROVE NotFound'
  BY <1>5, CreateEffect, CreateMakes
<1>6. ASSUME NEW r \in Runs, CreateThrows(r) PROVE NotFound'
  BY <1>6, CreateThrowsEffect, CreateThrowsMakes
<1>7. ASSUME NEW c \in Customers, Customer(c) PROVE NotFound'
  BY <1>7, CustomerEffect
<1>8. CASE UNCHANGED vars
  BY <1>8 DEF vars
<1> QED BY <1>1, <1>2, <1>3, <1>4, <1>5, <1>6, <1>7, <1>8, StepKinds

LEMMA OnceStep ==
  ASSUME VisitsTypeOK, OwnAttempts, NotFound, BookedOnce, [Next]_vars
  PROVE  BookedOnce'
<1> USE DEF RunIs, RowIs, history, At, Makes, BookedOnce, NotFound, OwnAttempts, InHand
<1>1. ASSUME NEW r \in Runs, Quiet(r) PROVE BookedOnce'
  BY <1>1, QuietEffect
<1>2. ASSUME NEW r \in Runs, Claim(r) PROVE BookedOnce'
  BY <1>2, ClaimEffect
<1>3. ASSUME NEW r \in Runs, Reread(r) PROVE BookedOnce'
  BY <1>3, RereadEffect
<1>4. ASSUME NEW r \in Runs, Lookup(r) PROVE BookedOnce'
  BY <1>4, LookupEffect
<1>5. ASSUME NEW r \in Runs, Create(r) PROVE BookedOnce'
  BY <1>5, CreateEffect, CreateMakes
<1>6. ASSUME NEW r \in Runs, CreateThrows(r) PROVE BookedOnce'
  BY <1>6, CreateThrowsEffect, CreateThrowsMakes
<1>7. ASSUME NEW c \in Customers, Customer(c) PROVE BookedOnce'
  BY <1>7, CustomerEffect
<1>8. CASE UNCHANGED vars
  BY <1>8 DEF vars
<1> QED BY <1>1, <1>2, <1>3, <1>4, <1>5, <1>6, <1>7, <1>8, StepKinds

LEMMA OneDayStep ==
  ASSUME VisitsTypeOK, OwnAttempts, OneDay, [Next]_vars
  PROVE  OneDay'
<1> USE DEF RunIs, RowIs, history, At, Makes, OneDay, Seeks
<1>1. ASSUME NEW r \in Runs, Quiet(r) PROVE OneDay'
  BY <1>1, QuietEffect
<1>2. ASSUME NEW r \in Runs, Claim(r) PROVE OneDay'
  BY <1>2, ClaimEffect
<1>3. ASSUME NEW r \in Runs, Reread(r) PROVE OneDay'
  BY <1>3, RereadEffect
<1>4. ASSUME NEW r \in Runs, Lookup(r) PROVE OneDay'
  BY <1>4, LookupEffect
<1>5. ASSUME NEW r \in Runs, Create(r) PROVE OneDay'
  BY <1>5, CreateEffect, CreateMakes
<1>6. ASSUME NEW r \in Runs, CreateThrows(r) PROVE OneDay'
  BY <1>6, CreateThrowsEffect, CreateThrowsMakes
<1>7. ASSUME NEW c \in Customers, Customer(c) PROVE OneDay'
  BY <1>7, CustomerEffect
<1>8. CASE UNCHANGED vars
  BY <1>8 DEF vars
<1> QED BY <1>1, <1>2, <1>3, <1>4, <1>5, <1>6, <1>7, <1>8, StepKinds

-----------------------------------------------------------------------------
(* While the customer does not move the visit there is at most one booking. *)
LEMMA OneMade ==
  ASSUME BookedOnce, OneDay, ~moved,
         NEW m \in Attempts, NEW n \in Attempts, made[m] # None, made[n] # None
  PROVE  m = n
BY DEF BookedOnce, OneDay

(* And none as long as a run is about to create it. *)
LEMMA NoneMade ==
  ASSUME NotFound, OneDay, ~moved, NEW r \in Runs, At(r, "create")
  PROVE  \A n \in Attempts : made[n] = None
BY DEF NotFound, OneDay, At, Seeks

(* Then no other run has the visit in hand. *)
LEMMA AloneInHand ==
  ASSUME VisitsTypeOK, NamesBookings, OneClaim, NotFound, OneDay, ~moved,
         NEW r \in Runs, At(r, "create"), NEW q \in Runs, InHand(q)
  PROVE  q = r
<1>1. visit.booking = NoBooking
  BY NoneMade, RowFields DEF NamesBookings, Bookings
<1> QED BY <1>1 DEF OneClaim, InHand, At

LEMMA FailsEmptyStep ==
  ASSUME IInv, [Next]_vars
  PROVE  FailsEmpty'
<1> USE DEF RunIs, RowIs, history, At, Makes, IInv
<1> SUFFICES ASSUME ~moved',
                    NEW q \in Runs, run'[q].stage = "fail",
                    NEW n \in Attempts, made'[n] # None
             PROVE  n \in lost' \/ n = visit'.booking
  BY DEF FailsEmpty
<1>a. ASSUME UNCHANGED made, ~moved, visit'.booking # NoBooking,
             visit'.booking \in Attempts, made[visit'.booking] # None
      PROVE  n = visit'.booking
  BY <1>a, OneMade
<1>b. ASSUME UNCHANGED made, ~moved, visit'.booking = visit.booking, lost \subseteq lost',
             run[q].stage = "fail"
      PROVE  n \in lost' \/ n = visit'.booking
  BY <1>b DEF FailsEmpty
<1>c. \A r \in Runs : run[r].stage \in {"reconcile", "link", "split"} =>
        run[r].booking \in Attempts /\ made[run[r].booking] # None
  BY RunFields DEF NamesBookings, Bookings
<1>1. ASSUME NEW r \in Runs, Begin(r) PROVE n \in lost' \/ n = visit'.booking
  BY <1>1, <1>b, BeginEffect
<1>2. ASSUME NEW r \in Runs, Read(r) PROVE n \in lost' \/ n = visit'.booking
  BY <1>2, <1>b, ReadEffect
<1>3. ASSUME NEW r \in Runs, Reconcile(r) PROVE n \in lost' \/ n = visit'.booking
  <2>1. CASE visit' = visit
    BY <1>3, <1>b, <2>1, ReconcileEffect
  <2>2. CASE visit'.booking = run[r].booking
    <3>1. run[r].booking \in Attempts /\ made[run[r].booking] # None
      BY <1>3, <1>c, ReconcileEffect
    <3>2. ~moved /\ made[n] # None
      BY <1>3, ReconcileEffect
    <3> QED BY <2>2, <3>1, <3>2, OneMade
  <2> QED BY <1>3, <2>1, <2>2, ReconcileEffect
<1>4. ASSUME NEW r \in Runs, Claim(r) PROVE n \in lost' \/ n = visit'.booking
  BY <1>4, <1>b, ClaimEffect
<1>5. ASSUME NEW r \in Runs, Reread(r) PROVE n \in lost' \/ n = visit'.booking
  BY <1>5, <1>b, RereadEffect
<1>6. ASSUME NEW r \in Runs, Lookup(r) PROVE n \in lost' \/ n = visit'.booking
  BY <1>6, <1>b, LookupEffect
<1>7. ASSUME NEW r \in Runs, Create(r) PROVE n \in lost' \/ n = visit'.booking
  <2>1. q # r /\ InHand(q) /\ ~moved
    BY <1>7, CreateEffect DEF InHand
  <2> QED BY <1>7, <2>1, AloneInHand, CreateEffect
<1>8. ASSUME NEW r \in Runs, CreateThrows(r) PROVE n \in lost' \/ n = visit'.booking
  BY <1>8, NoneMade, CreateThrowsEffect, CreateThrowsMakes
<1>9. ASSUME NEW r \in Runs, Link(r) PROVE n \in lost' \/ n = visit'.booking
  <2>1. CASE visit' = visit
    BY <1>9, <1>b, <2>1, LinkEffect
  <2>2. CASE visit'.booking = run[r].booking
    <3>1. run[r].booking \in Attempts /\ made[run[r].booking] # None
      BY <1>9, <1>c, LinkEffect
    <3>2. ~moved /\ made[n] # None
      BY <1>9, LinkEffect
    <3> QED BY <2>2, <3>1, <3>2, OneMade
  <2> QED BY <1>9, <2>1, <2>2, LinkEffect
<1>10. ASSUME NEW r \in Runs, LinkFails(r) PROVE n \in lost' \/ n = visit'.booking
  BY <1>10, <1>b, LinkFailsEffect
<1>11. ASSUME NEW r \in Runs, Split(r) PROVE n \in lost' \/ n = visit'.booking
  <2>1. q # r /\ visit'.booking = visit.booking
    BY <1>11, SplitEffect
  <2> QED BY <1>11, <1>b, <2>1, SplitEffect
<1>12. ASSUME NEW r \in Runs, SplitFails(r) PROVE n \in lost' \/ n = visit'.booking
  <2>1. CASE q = r
    BY <1>12, <1>c, <2>1, OneMade, SplitFailsEffect
  <2>2. CASE q # r
    BY <1>12, <1>b, <2>2, SplitFailsEffect
  <2> QED BY <2>1, <2>2
<1>13. ASSUME NEW r \in Runs, Fail(r) PROVE n \in lost' \/ n = visit'.booking
  BY <1>13, <1>b, FailEffect
<1>14. ASSUME NEW r \in Runs, Dies(r) PROVE n \in lost' \/ n = visit'.booking
  BY <1>14, <1>b, DiesEffect
<1>15. ASSUME NEW c \in Customers, Customer(c) PROVE n \in lost' \/ n = visit'.booking
  BY <1>15, <1>b, CustomerEffect
<1>16. CASE UNCHANGED vars
  BY <1>16, <1>b DEF vars
<1> QED
  BY <1>1, <1>2, <1>3, <1>4, <1>5, <1>6, <1>7, <1>8, <1>9, <1>10, <1>11, <1>12, <1>13,
     <1>14, <1>15, <1>16 DEF Next, Proceed, Fails

(* Where a booking is known. *)
Known(n) ==
  \/ visit.booking = n
  \/ visit.pending /\ visit.mark = n
  \/ \E r \in Runs : run[r].stage \in {"link", "split"} /\ run[r].booking = n
  \/ n \in lost

LEMMA KnownStep ==
  ASSUME IInv, [Next]_vars
  PROVE  BookingsAreKnown'
<1> USE DEF RunIs, RowIs, history, At, Makes, IInv
<1> SUFFICES ASSUME ~moved', NEW n \in Attempts, made'[n] # None
             PROVE  Known(n)'
  BY DEF BookingsAreKnown, Known
<1>a. ASSUME UNCHANGED made, ~moved PROVE Known(n)
  BY <1>a DEF BookingsAreKnown, Known
<1>c. \A r \in Runs : run[r].stage \in {"reconcile", "link", "split"} =>
        run[r].booking \in Attempts /\ made[run[r].booking] # None
  BY RunFields DEF NamesBookings, Bookings
<1>l. visit.booking # NoBooking => visit.booking \in Attempts /\ made[visit.booking] # None
  BY RowFields DEF NamesBookings, Bookings
(* A step that leaves the row's links and its own run's booking alone. *)
<1>s. ASSUME NEW r \in Runs, UNCHANGED <<made, moved>>, lost \subseteq lost',
             visit'.booking = visit.booking, visit'.pending = visit.pending,
             visit'.mark = visit.mark,
             \A q \in Runs : q # r => run'[q] = run[q],
             run[r].stage \in {"link", "split"} =>
               \/ run[r].booking \in lost'
               \/ run'[r].stage \in {"link", "split"} /\ run'[r].booking = run[r].booking
      PROVE  Known(n)'
  <2>1. Known(n)
    BY <1>a, <1>s
  <2>2. CASE \E q \in Runs : run[q].stage \in {"link", "split"} /\ run[q].booking = n
    <3> PICK q \in Runs : run[q].stage \in {"link", "split"} /\ run[q].booking = n
      BY <2>2
    <3>1. CASE q = r
      BY <1>s, <3>1 DEF Known
    <3>2. CASE q # r
      BY <1>s, <3>2 DEF Known
    <3> QED BY <3>1, <3>2
  <2>3. CASE visit.booking = n \/ (visit.pending /\ visit.mark = n) \/ n \in lost
    BY <1>s, <2>3 DEF Known
  <2> QED BY <2>1, <2>2, <2>3 DEF Known
<1>1. ASSUME NEW r \in Runs, Begin(r) PROVE Known(n)'
  BY <1>1, <1>s, BeginEffect
<1>2. ASSUME NEW r \in Runs, Read(r) PROVE Known(n)'
  BY <1>2, <1>s, ReadEffect
<1>3. ASSUME NEW r \in Runs, Reconcile(r) PROVE Known(n)'
  <2>1. CASE visit' = visit
    BY <1>3, <1>s, <2>1, ReconcileEffect
  <2>2. CASE visit'.booking = run[r].booking
    BY <1>3, <1>c, <2>2, OneMade, ReconcileEffect DEF Known
  <2> QED BY <1>3, <2>1, <2>2, ReconcileEffect
<1>4. ASSUME NEW r \in Runs, Claim(r) PROVE Known(n)'
  <2>1. CASE Claimable
    BY <1>4, <1>s, <2>1, ClaimEffect
  <2>2. CASE ~Claimable
    BY <1>4, <1>s, <2>2, ClaimEffect
  <2> QED BY <2>1, <2>2
<1>5. ASSUME NEW r \in Runs, Reread(r) PROVE Known(n)'
  BY <1>5, <1>s, RereadEffect
<1>6. ASSUME NEW r \in Runs, Lookup(r) PROVE Known(n)'
  BY <1>6, <1>s, LookupEffect
<1>7. ASSUME NEW r \in Runs, Create(r) PROVE Known(n)'
  <2>1. n = run[r].attempt
    BY <1>7, NoneMade, CreateEffect, CreateMakes
  <2> QED BY <1>7, <2>1, CreateEffect DEF Known
<1>8. ASSUME NEW r \in Runs, CreateThrows(r) PROVE Known(n)'
  BY <1>8, NoneMade, CreateThrowsEffect, CreateThrowsMakes DEF Known
<1>9. ASSUME NEW r \in Runs, Link(r) PROVE Known(n)'
  <2>1. CASE visit.token = r
    <3>1. visit'.booking = run[r].booking
      BY <1>9, <2>1, LinkEffect
    <3>2. run[r].booking \in Attempts /\ made[run[r].booking] # None
      BY <1>9, <1>c, LinkEffect
    <3>3. ~moved /\ made[n] # None
      BY <1>9, LinkEffect
    <3>4. run[r].booking = n
      BY <3>2, <3>3, OneMade
    <3> QED BY <3>1, <3>4 DEF Known
  <2>2. CASE visit.token # r
    BY <1>9, <1>s, <2>2, LinkEffect
  <2> QED BY <2>1, <2>2
<1>10. ASSUME NEW r \in Runs, LinkFails(r) PROVE Known(n)'
  BY <1>10, <1>s, LinkFailsEffect
<1>11. ASSUME NEW r \in Runs, Split(r) PROVE Known(n)'
  <2>1. n = run[r].booking /\ ~moved /\ made[n] # None
    BY <1>11, <1>c, OneMade, SplitEffect
  <2>2. CASE visit.token = r
    BY <1>11, <2>1, <2>2, SplitEffect DEF Known
  <2>3. CASE visit.token # r
    <3>1. visit.booking # NoBooking /\ visit' = visit
      BY <1>11, <2>3, SplitEffect DEF OneClaim, InHand
    <3>2. visit.booking = n
      BY <1>l, <2>1, <3>1, OneMade
    <3> QED BY <3>1, <3>2 DEF Known
  <2> QED BY <2>2, <2>3
<1>12. ASSUME NEW r \in Runs, SplitFails(r) PROVE Known(n)'
  BY <1>12, <1>s, SplitFailsEffect
<1>13. ASSUME NEW r \in Runs, Fail(r) PROVE Known(n)'
  <2>1. n \in lost \/ n = visit.booking
    BY <1>13, FailEffect DEF FailsEmpty
  <2> QED BY <1>13, <2>1, FailEffect DEF Known
<1>14. ASSUME NEW r \in Runs, Dies(r) PROVE Known(n)'
  BY <1>14, <1>s, DiesEffect
<1>15. ASSUME NEW c \in Customers, Customer(c) PROVE Known(n)'
  <2>1. ~moved /\ made[n] # None /\ UNCHANGED <<made, run, lost>>
    BY <1>15, CustomerEffect
  <2> QED BY <1>15, <1>a, <2>1, CustomerEffect DEF Known
<1>16. CASE UNCHANGED vars
  BY <1>16, <1>a DEF vars, Known
<1> QED
  BY <1>1, <1>2, <1>3, <1>4, <1>5, <1>6, <1>7, <1>8, <1>9, <1>10, <1>11, <1>12, <1>13,
     <1>14, <1>15, <1>16 DEF Next, Proceed, Fails

-----------------------------------------------------------------------------
LEMMA InitIInv == Init => IInv
<1> SUFFICES ASSUME Init PROVE IInv
  OBVIOUS
<1>1. PICK d \in Dates :
        visit = [status |-> "pending_generation", state |-> "ready", attempts |-> 0,
                 token |-> None, date |-> d, booking |-> NoBooking,
                 pending |-> FALSE, mark |-> NoBooking]
  BY DEF Init
<1>2. visit \in Visit
  BY <1>1, VisitsAssumption DEF Visit, Mutable, Unbooked, Bookings
<1>3. Idle \in Run /\ run = [r \in Runs |-> Idle]
  BY VisitsAssumption DEF Init, Idle, Run, Stages, Bookings
<1>4. VisitsTypeOK
  <2>1. plan \in {"active", "paused", "canceled"} /\ call \in [Customers -> Steps]
    BY DEF Init, Steps
  <2>2. made \in [Attempts -> Dates \cup {None}] /\ run \in [Runs -> Run]
    BY <1>3 DEF Init
  <2>3. faults \in 0 .. MaxFaults /\ lost \subseteq Attempts
    BY VisitsAssumption DEF Init
  <2>4. moved \in BOOLEAN
    BY DEF Init
  <2> QED BY <1>2, <2>1, <2>2, <2>3, <2>4 DEF VisitsTypeOK
<1>5. \A r \in Runs : run[r].stage = "idle"
  BY <1>3 DEF Idle
<1>6. \A n \in Attempts : made[n] = None
  BY DEF Init
<1>7. NamesBookings /\ OwnAttempts /\ OneClaim /\ OneSeeker
  BY <1>1, <1>5, <1>6 DEF NamesBookings, OwnAttempts, OneClaim, OneSeeker, InHand, Seeks
<1>8. NotFound /\ BookedOnce /\ OneDay /\ FailsEmpty /\ BookingsAreKnown
  BY <1>5, <1>6 DEF NotFound, BookedOnce, OneDay, FailsEmpty, BookingsAreKnown, Seeks
<1> QED BY <1>4, <1>7, <1>8 DEF IInv

(* The inductive invariant holds always. *)
THEOREM VisitsInvariant == Spec => []IInv
<1>1. IInv /\ [Next]_vars => IInv'
  <2> SUFFICES ASSUME IInv, [Next]_vars PROVE IInv'
    OBVIOUS
  <2> USE DEF IInv
  <2>1. VisitsTypeOK' /\ NamesBookings' /\ OwnAttempts' /\ OneClaim' /\ OneSeeker'
    BY TypeStep, NamesStep, AttemptsStep, ClaimStep, SeekerStep
  <2>2. NotFound' /\ BookedOnce' /\ OneDay'
    BY NotFoundStep, OnceStep, OneDayStep
  <2>3. FailsEmpty' /\ BookingsAreKnown'
    BY FailsEmptyStep, KnownStep
  <2> QED BY <2>1, <2>2, <2>3
<1> QED BY InitIInv, <1>1, PTL DEF Spec

(* Row, bookings, runs and calls keep their types. *)
THEOREM VisitsTypeCorrect == Spec => []VisitsTypeOK
<1>1. IInv => VisitsTypeOK
  BY DEF IInv
<1> QED BY VisitsInvariant, <1>1, PTL

(* Never two bookings of the visit for one day, whatever number of runs *)
(* overlap and wherever they fail.                                      *)
THEOREM VisitsBookedOnce == Spec => []BookedOnce
<1>1. IInv => BookedOnce
  BY DEF IInv
<1> QED BY VisitsInvariant, <1>1, PTL

(* While the customer does not move the visit no booking is forgotten. *)
THEOREM VisitBookingsKnown == Spec => []BookingsAreKnown
<1>1. IInv => BookingsAreKnown
  BY DEF IInv
<1> QED BY VisitsInvariant, <1>1, PTL

(* A visit that is dropped at rest stays so. *)
THEOREM DroppedVisitsStay == Spec => DroppedStays
<1>1. ASSUME VisitsTypeOK, [Next]_vars, visit.status \in Dropped, AtRest
      PROVE  visit'.status \in Dropped /\ AtRest'
  <2> USE DEF RunIs, RowIs, history, At, InHand, AtRest
  <2>0. visit.status \notin Unbooked
    BY <1>1 DEF Dropped, Unbooked
  <2>1. ASSUME NEW r \in Runs, Proceed(r)
        PROVE  UNCHANGED visit /\ \A q \in Runs : ~InHand(q)'
    <3>1. CASE Begin(r)
      BY <1>1, <3>1, BeginEffect
    <3>2. CASE Read(r)
      BY <1>1, <3>2, ReadEffect
    <3>3. CASE Reconcile(r)
      BY <1>1, <3>3, ReconcileEffect
    <3>4. CASE Claim(r)
      BY <1>1, <2>0, <3>4, ClaimEffect DEF Claimable
    <3>5. CASE \/ Reread(r) \/ Lookup(r) \/ Create(r) \/ CreateThrows(r)
               \/ Link(r) \/ Split(r) \/ Fail(r)
      BY <1>1, <3>5 DEF Reread, Lookup, Create, CreateThrows, Link, Split, Fail
    <3> QED BY <2>1, <3>1, <3>2, <3>3, <3>4, <3>5 DEF Proceed
  <2>2. ASSUME NEW r \in Runs, Fails(r)
        PROVE  UNCHANGED visit /\ \A q \in Runs : ~InHand(q)'
    <3>1. CASE Dies(r)
      BY <1>1, <3>1, DiesEffect
    <3>2. CASE LinkFails(r) \/ SplitFails(r)
      BY <1>1, <3>2 DEF LinkFails, SplitFails
    <3> QED BY <2>2, <3>1, <3>2 DEF Fails
  <2>3. ASSUME NEW c \in Customers, Customer(c)
        PROVE  visit'.status \in Dropped /\ AtRest'
    <3>1. visit'.status \in Dropped
      BY <1>1, <2>3, RowFields DEF Customer, Ask, PatchDate, Skip, SetPlan, BeginCancel,
         CancelVisit, Visit, Dropped
    <3> QED BY <1>1, <2>3, <3>1, CustomerEffect
  <2>4. CASE UNCHANGED vars
    BY <1>1, <2>4 DEF vars
  <2> QED BY <1>1, <2>1, <2>2, <2>3, <2>4 DEF Next
<1>2. IInv /\ [Next]_vars
      => [visit.status \in Dropped /\ AtRest => visit'.status \in Dropped /\ AtRest']_vars
  BY <1>1 DEF IInv
<1> QED BY VisitsInvariant, <1>2, PTL DEF Spec, DroppedStays

-----------------------------------------------------------------------------
(* Implementing VisitBook *)

(* Whoever holds the claim of a linked visit is to link the same booking. *)
KeepsLink ==
  \A r \in Runs : visit.token = r /\ visit.booking # NoBooking =>
    /\ ~Seeks(r)
    /\ At(r, "link") => run[r].booking = visit.booking

(* Linking gives the claim away, and a new claim rereads what is linked. *)
LEMMA KeepsLinkStep ==
  ASSUME VisitsTypeOK, KeepsLink, [Next]_vars
  PROVE  KeepsLink'
<1> USE VisitsAssumption DEF RunIs, RowIs, history, At, Seeks, KeepsLink
<1>1. ASSUME NEW r \in Runs, Begin(r) PROVE KeepsLink'
  BY <1>1, BeginEffect
<1>2. ASSUME NEW r \in Runs, Read(r) PROVE KeepsLink'
  BY <1>2, ReadEffect
<1>3. ASSUME NEW r \in Runs, Reconcile(r) PROVE KeepsLink'
  BY <1>3, ReconcileEffect
<1>4. ASSUME NEW r \in Runs, Claim(r) PROVE KeepsLink'
  BY <1>4, ClaimEffect
<1>5. ASSUME NEW r \in Runs, Reread(r) PROVE KeepsLink'
  BY <1>5, RereadEffect
<1>6. ASSUME NEW r \in Runs, Lookup(r) PROVE KeepsLink'
  BY <1>6, LookupEffect
<1>7. ASSUME NEW r \in Runs, Create(r) PROVE KeepsLink'
  BY <1>7, CreateEffect
<1>8. ASSUME NEW r \in Runs, CreateThrows(r) PROVE KeepsLink'
  BY <1>8, CreateThrowsEffect
<1>9. ASSUME NEW r \in Runs, Link(r) PROVE KeepsLink'
  <2>1. CASE visit.token = r
    <3>1. visit'.token = None
      BY <1>9, <2>1, LinkEffect
    <3> QED BY <3>1
  <2>2. CASE visit.token # r
    <3>1. /\ UNCHANGED visit /\ run'[r].stage = "split"
          /\ \A q \in Runs \ {r} : run'[q] = run[q]
      BY <1>9, <2>2, RunFields DEF Link, Go, Run
    <3> QED BY <3>1
  <2> QED BY <2>1, <2>2
<1>10. ASSUME NEW r \in Runs, LinkFails(r) PROVE KeepsLink'
  BY <1>10, LinkFailsEffect
<1>11. ASSUME NEW r \in Runs, Split(r) PROVE KeepsLink'
  <2>1. CASE visit.token = r
    <3>1. visit'.token = None
      BY <1>11, <2>1, SplitEffect
    <3> QED BY <3>1
  <2>2. CASE visit.token # r
    <3>1. /\ UNCHANGED visit /\ run'[r].stage = "idle"
          /\ \A q \in Runs \ {r} : run'[q] = run[q]
      BY <1>11, <2>2, SplitEffect
    <3> QED BY <3>1
  <2> QED BY <2>1, <2>2
<1>12. ASSUME NEW r \in Runs, SplitFails(r) PROVE KeepsLink'
  BY <1>12, SplitFailsEffect
<1>13. ASSUME NEW r \in Runs, Fail(r) PROVE KeepsLink'
  BY <1>13, FailEffect
<1>14. ASSUME NEW r \in Runs, Dies(r) PROVE KeepsLink'
  BY <1>14, DiesEffect
<1>15. ASSUME NEW c \in Customers, Customer(c) PROVE KeepsLink'
  BY <1>15, CustomerEffect
<1>16. CASE UNCHANGED vars
  BY <1>16 DEF vars
<1> QED
  BY <1>1, <1>2, <1>3, <1>4, <1>5, <1>6, <1>7, <1>8, <1>9, <1>10, <1>11, <1>12,
     <1>13, <1>14, <1>15, <1>16 DEF Next, Proceed, Fails

(* A run that creates makes a booking for a day that had none. *)
LEMMA CreateRefines ==
  ASSUME IInv, NEW r \in Runs, Create(r) \/ CreateThrows(r)
  PROVE  Book!BookNext \/ UNCHANGED <<made, visit.booking>>
<1> USE DEF IInv
<1>1. visit' = visit /\ At(r, "create")
  BY CreateEffect, CreateThrowsEffect
<1>2. CASE UNCHANGED made
  BY <1>1, <1>2
<1>3. CASE made' # made
  <2>1. /\ made' = [made EXCEPT ![run[r].attempt] = run[r].date]
        /\ run[r].attempt \in Attempts
    BY <1>3, CreateEffect, CreateThrowsEffect, CreateMakes, CreateThrowsMakes DEF Makes
  <2>2. PICK n \in Attempts, d \in Dates : n = run[r].attempt /\ d = run[r].date
    BY <1>1, <2>1 DEF OwnAttempts, At
  <2>3. made[n] = None /\ \A m \in Attempts : made[m] # d
    BY <1>1, <2>2 DEF OwnAttempts, NotFound, At
  <2>4. Book!Book(n, d)
    BY <1>1, <2>1, <2>2, <2>3 DEF Book!Book
  <2> QED BY <2>4 DEF Book!BookNext
<1> QED BY <1>2, <1>3

(* A run that links, does so where no booking is linked, or it links the    *)
(* one that is.                                                             *)
LEMMA LinkRefines ==
  ASSUME IInv, KeepsLink, NEW r \in Runs, Link(r) \/ Reconcile(r)
  PROVE  Book!BookNext \/ UNCHANGED <<made, visit.booking>>
<1> USE DEF IInv
<1>1. /\ UNCHANGED made
      /\ At(r, "link") \/ At(r, "reconcile")
      /\ \/ visit'.booking = visit.booking
         \/ visit'.booking = run[r].booking /\ visit.booking = NoBooking
         \/ /\ visit'.booking = run[r].booking
            /\ visit.token = r /\ At(r, "link")
  BY LinkEffect, ReconcileEffect DEF RowIs
<1>2. CASE visit'.booking = visit.booking
  BY <1>1, <1>2
<1>3. CASE visit'.booking # visit.booking
  <2>1. /\ visit.booking = NoBooking
        /\ visit'.booking = run[r].booking
    BY <1>1, <1>3 DEF KeepsLink
  <2>2. run[r].booking \in Attempts /\ made[run[r].booking] # None
    BY <1>1, RunFields DEF NamesBookings, At, Bookings
  <2>3. PICK n \in Attempts : n = run[r].booking
    BY <2>2
  <2>4. Book!Link(n)
    BY <1>1, <2>1, <2>2, <2>3 DEF Book!Link
  <2> QED BY <2>4 DEF Book!BookNext
<1> QED BY <1>2, <1>3

(* Runs that overlap, lose their answers, die or have the visit taken away  *)
(* implement VisitBook, for any number of runs, attempts, days and faults:  *)
(* one booking for a day, and a link that is never exchanged.               *)
THEOREM VisitsImplementBook == Spec => ImplementsBook
<1>1. Init => KeepsLink /\ Book!BookInit
  BY VisitsAssumption DEF Init, KeepsLink, Book!BookInit
<1>2. IInv /\ KeepsLink /\ [Next]_vars => KeepsLink'
  BY KeepsLinkStep DEF IInv
<1>3. IInv /\ KeepsLink /\ [Next]_vars => [Book!BookNext]_(Book!vbvars)
  <2> SUFFICES ASSUME IInv, KeepsLink, [Next]_vars
               PROVE  Book!BookNext \/ UNCHANGED <<made, visit.booking>>
    BY DEF Book!vbvars
  <2> USE DEF IInv
  <2>1. ASSUME NEW r \in Runs,
               \/ Begin(r) \/ Read(r) \/ Claim(r) \/ Reread(r) \/ Lookup(r)
               \/ LinkFails(r) \/ Split(r) \/ SplitFails(r) \/ Fail(r) \/ Dies(r)
        PROVE  UNCHANGED <<made, visit.booking>>
    BY <2>1, BeginEffect, ReadEffect, ClaimEffect, RereadEffect, LookupEffect,
       LinkFailsEffect, SplitEffect, SplitFailsEffect, FailEffect, DiesEffect DEF RowIs
  <2>2. ASSUME NEW c \in Customers, Customer(c) PROVE UNCHANGED <<made, visit.booking>>
    BY <2>2, CustomerEffect
  <2> QED
    BY <2>1, <2>2, CreateRefines, LinkRefines DEF Next, Proceed, Fails, vars
<1> QED
  BY <1>1, <1>2, <1>3, VisitsInvariant, PTL DEF Spec, ImplementsBook, Book!BookSpec
=============================================================================
