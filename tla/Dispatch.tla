------------------------------ MODULE Dispatch ------------------------------
(***************************************************************************)
(* Dispatch of one booking: offers to FOs, their answers, the sweeps of    *)
(* dispatch.worker.ts, the guard around a dispatch run (an in-process      *)
(* result cache and a lock column), and what an admin may do meanwhile.    *)
(* Bookings are dispatched independently of each other: the cache key, the *)
(* lock and every query name one booking.                                  *)
(*                                                                         *)
(* Outside acceptOfferForBooking and the admin calls there is no           *)
(* transaction: each statement commits on its own, and anything may happen *)
(* between two of them.  Inside one, READ COMMITTED lets the row change    *)
(* between the read and the write.                                         *)
(*                                                                         *)
(* Time enters through the windows of offers (open, then over) and through *)
(* the cache entry, which lapses.  The stagger of a few seconds between    *)
(* the offers of a round and the cap of five open offers are left out.     *)
(***************************************************************************)
EXTENDS Integers, FiniteSets

CONSTANTS FOs,        \* the candidates of the estimate; they stay eligible
          Round,      \* Round[f]: the dispatch round of f's reputation tier
          Requests,   \* concurrent API calls and SLA sweeps
          Sweeper,    \* the offer expiry sweep, one at a time
          NoFo,       \* Booking.foId = NULL
          MaxCrashes  \* bound on crashes of the process

VARIABLES
  status, fo,   \* columns of Booking
  locked,       \* Booking.dispatchLockedAt is set
  offer,        \* offer[f]: the BookingOffer row of f
  cached,       \* the cache holds a result for <booking>:start_dispatch
  proc,         \* what each process is in the middle of
  crashes

vars == <<status, fo, locked, offer, cached, proc, crashes>>

Processes == Requests \cup {Sweeper}

ASSUME DispatchAssumption ==
  /\ NoFo \notin FOs
  /\ Sweeper \notin Requests
  /\ Round \in [FOs -> Nat]
  /\ MaxCrashes \in Nat

-----------------------------------------------------------------------------
(* Types *)

Status == {"pending_payment", "pending_dispatch", "offered", "assigned",
           "in_progress", "completed", "canceled"}

(* A row per FO, "none" before it is created: unique (bookingId, foId,      *)
(* dispatchRound), and the round of an FO does not change.                  *)
Offer == [state : {"none", "offered", "accepted", "rejected", "expired", "canceled"},
          window : {"dormant", "open", "over"}]

Idle == [stage |-> "idle"]

(* A dispatch run before each of its statements: the offers still to be     *)
(* created, those that open at once, and whether it has a result to cache.  *)
Dispatching == [stage : {"start", "lock", "core", "create", "mark", "release"},
                todo : SUBSET FOs, opens : SUBSET FOs, result : BOOLEAN]

(* acceptOfferForBooking, decline, the SLA sweep at one booking, and an      *)
(* admin's manualAssign before its re-check and before its write.           *)
Answering == [stage : {"accept", "commit", "lapse", "reject", "requeue",
                       "manual", "overwrite"}, fo : FOs]

(* The expiry sweep: offers found over, and those not yet handled. *)
Sweeping == [stage : {"expire", "activate", "check"},
             over : SUBSET FOs, todo : SUBSET FOs, retry : BOOLEAN]

(* decline after its write, and an admin's reassignBooking before its write. *)
Other == [stage : {"count", "reopen", "return"}]

DispatchTypeOK ==
  /\ status \in Status
  /\ fo \in FOs \cup {NoFo}
  /\ locked \in BOOLEAN
  /\ offer \in [FOs -> Offer]
  /\ cached \in BOOLEAN
  /\ proc \in [Processes -> {Idle} \cup Dispatching \cup Answering \cup Sweeping \cup Other]
  /\ crashes \in 0..MaxCrashes

Init ==
  /\ status = "pending_payment"
  /\ fo = NoFo
  /\ locked = FALSE
  /\ offer = [f \in FOs |-> [state |-> "none", window |-> "dormant"]]
  /\ cached = FALSE
  /\ proc = [p \in Processes |-> Idle]
  /\ crashes = 0

-----------------------------------------------------------------------------
(* Helpers *)

Asked(f) == offer[f].state # "none"
Standing(f) == offer[f].state = "offered"        \* dormant ones included
Open(f) == Standing(f) /\ offer[f].window = "open"
Over(f) == Standing(f) /\ offer[f].window = "over"
Dormant(f) == offer[f].window = "dormant" /\ Asked(f)

LeastRound(S) == {f \in S : \A g \in S : Round[f] <= Round[g]}

At(p, stage) == proc[p].stage = stage
Become(p, what) == proc' = [proc EXCEPT ![p] = what]
Goto(p, stage) == proc' = [proc EXCEPT ![p].stage = stage]
Finish(p) == Become(p, Idle)

(* The run has written the lock and not yet released it. *)
Holds(p) == proc[p].stage \in {"core", "create", "mark", "release"}

RunOf(stage) == [stage |-> stage, todo |-> {}, opens |-> {}, result |-> FALSE]
StartDispatch(p) == Become(p, RunOf("start"))

-----------------------------------------------------------------------------
(* dispatchWithSafety and executeDispatchCore *)

(* The cache and the lock are looked at; either one ends the run. *)
DispatchGate(p) ==
  /\ At(p, "start")
  /\ IF cached \/ locked THEN Finish(p) ELSE Goto(p, "lock")
  /\ UNCHANGED <<status, fo, locked, offer, cached, crashes>>

(* The lock is written without looking again. *)
DispatchLock(p) ==
  /\ At(p, "lock")
  /\ locked' = TRUE
  /\ Goto(p, "core")
  /\ UNCHANGED <<status, fo, offer, cached, crashes>>

(* What a run may choose among FOs never asked before: the ranked ones      *)
(* (geographic path, all opened at once) or those in the radius (legacy     *)
(* path, the least round opened).                                           *)
Selections ==
  UNION {{<<S, S>>, <<S, LeastRound(S)>>} : S \in SUBSET {f \in FOs : ~Asked(f)} \ {{}}}

(* Offers that stand end the run, and so does the lack of FOs to ask.  The  *)
(* status of the booking is not looked at.  The two reads of the offers are *)
(* one step.                                                                *)
DispatchCore(p) ==
  /\ At(p, "core")
  /\ IF Selections = {} \/ \E f \in FOs : Standing(f)
       THEN Become(p, [RunOf("release") EXCEPT !.result = TRUE])
       ELSE \E s \in Selections :
              Become(p, [RunOf("create") EXCEPT !.todo = s[1], !.opens = s[2]])
  /\ UNCHANGED <<status, fo, locked, offer, cached, crashes>>

(* One insert; a row that is there already fails it, and the run with it. *)
DispatchCreate(p, f) ==
  /\ At(p, "create")
  /\ f \in proc[p].todo
  /\ IF Asked(f)
       THEN Become(p, RunOf("release")) /\ UNCHANGED offer
       ELSE LET left == proc[p].todo \ {f} IN
            /\ offer' = [offer EXCEPT ![f] =
                 [state |-> "offered",
                  window |-> IF f \in proc[p].opens THEN "open" ELSE "dormant"]]
            /\ IF left = {}
                 THEN Become(p, RunOf("mark"))
                 ELSE proc' = [proc EXCEPT ![p].todo = left, ![p].opens = @ \ {f}]
  /\ UNCHANGED <<status, fo, locked, cached, crashes>>

(* The booking becomes offered, whatever it has become meanwhile. *)
DispatchMark(p) ==
  /\ At(p, "mark")
  /\ status' = "offered"
  /\ Become(p, [RunOf("release") EXCEPT !.result = TRUE])
  /\ UNCHANGED <<fo, locked, offer, cached, crashes>>

(* Fault: no "finally", a run that failed does not come here. *)
FaultReleaseOnSuccess(p) ==
  /\ At(p, "release")
  /\ locked' = IF proc[p].result THEN FALSE ELSE locked
  /\ cached' = (cached \/ proc[p].result)
  /\ Finish(p)
  /\ UNCHANGED <<status, fo, offer, crashes>>

(* A result is cached, also an empty one; the lock is released in any case. *)
DispatchRelease(p) ==
  /\ At(p, "release")
  /\ locked' = FALSE
  /\ cached' = (cached \/ proc[p].result)
  /\ Finish(p)
  /\ UNCHANGED <<status, fo, offer, crashes>>

(* Any statement before the release may fail: "finally" releases the lock. *)
DispatchFail(p) ==
  /\ proc[p].stage \in {"core", "create", "mark"}
  /\ Become(p, RunOf("release"))
  /\ UNCHANGED <<status, fo, locked, offer, cached, crashes>>

-----------------------------------------------------------------------------
(* acceptOfferForBooking *)

(* The checks outside the transaction.  An offer that is over is marked     *)
(* expired by the refusal itself.                                           *)
BeginAccept(p, f) ==
  /\ proc[p] = Idle
  /\ ~locked
  /\ fo = NoFo
  /\ status = "offered"
  /\ Open(f) \/ Over(f)
  /\ Become(p, [stage |-> IF Over(f) THEN "lapse" ELSE "accept", fo |-> f])
  /\ UNCHANGED <<status, fo, locked, offer, cached, crashes>>

(* update by id, not guarded. *)
AcceptLapsed(p) ==
  /\ At(p, "lapse")
  /\ offer' = [offer EXCEPT ![proc[p].fo].state = "expired"]
  /\ Finish(p)
  /\ UNCHANGED <<status, fo, locked, cached, crashes>>

(* The checks are repeated at the start of the transaction. *)
AcceptRecheck(p) ==
  /\ At(p, "accept")
  /\ IF ~locked /\ fo = NoFo /\ status = "offered" /\ Standing(proc[p].fo)
       THEN Goto(p, "commit")
       ELSE Finish(p)
  /\ UNCHANGED <<status, fo, locked, offer, cached, crashes>>

(* Fault: the update trusts what the transaction has read. *)
FaultAcceptCommitUnguarded(p) ==
  LET f == proc[p].fo IN
  /\ At(p, "commit")
  /\ Standing(f)
  /\ status' = "assigned"
  /\ fo' = f
  /\ offer' = [offer EXCEPT ![f].state = "accepted"]
  /\ Finish(p)
  /\ UNCHANGED <<locked, cached, crashes>>

(* applyAssignmentTransitionInTx, the accepted offer, the others canceled,  *)
(* and the commit.  The booking must still be offered and unassigned, or    *)
(* already assigned to the same FO by hand; otherwise all is undone.        *)
AcceptCommit(p) ==
  LET f == proc[p].fo
      unassigned == status = "offered" /\ fo = NoFo
      assignedSame == status = "assigned" /\ fo = f IN
  /\ At(p, "commit")
  /\ IF Standing(f) /\ (unassigned \/ assignedSame)
       THEN /\ status' = "assigned"
            /\ fo' = f
            /\ offer' = [g \in FOs |->
                 IF g = f THEN [offer[g] EXCEPT !.state = "accepted"]
                 ELSE IF Standing(g) THEN [offer[g] EXCEPT !.state = "canceled"]
                 ELSE offer[g]]
       ELSE UNCHANGED <<status, fo, offer>>
  /\ Finish(p)
  /\ UNCHANGED <<locked, cached, crashes>>

-----------------------------------------------------------------------------
(* decline *)

(* A dormant offer can be declined too. *)
BeginDecline(p, f) ==
  /\ proc[p] = Idle
  /\ Standing(f)
  /\ Become(p, [stage |-> "reject", fo |-> f])
  /\ UNCHANGED <<status, fo, locked, offer, cached, crashes>>

(* update by id, not guarded. *)
DeclineReject(p) ==
  /\ At(p, "reject")
  /\ offer' = [offer EXCEPT ![proc[p].fo].state = "rejected"]
  /\ Become(p, [stage |-> "count"])
  /\ UNCHANGED <<status, fo, locked, cached, crashes>>

(* Dormant offers count as remaining. *)
DeclineCount(p) ==
  /\ At(p, "count")
  /\ IF \E f \in FOs : Standing(f) THEN StartDispatch(p) ELSE Goto(p, "reopen")
  /\ UNCHANGED <<status, fo, locked, offer, cached, crashes>>

(* Fault: an update by id alone. *)
FaultReopenUnguarded(p) ==
  /\ At(p, "reopen")
  /\ status' = "pending_dispatch"
  /\ StartDispatch(p)
  /\ UNCHANGED <<fo, locked, offer, cached, crashes>>

(* updateMany offered -> pending_dispatch, then startDispatch either way:   *)
(* the end of decline and of the expiry sweep.                              *)
Reopen(p) ==
  /\ At(p, "reopen")
  /\ status' = IF status = "offered" THEN "pending_dispatch" ELSE status
  /\ StartDispatch(p)
  /\ UNCHANGED <<fo, locked, offer, cached, crashes>>

-----------------------------------------------------------------------------
(* expireOffersAndRedispatch *)

BeginSweep ==
  LET over == {f \in FOs : Over(f)} IN
  /\ proc[Sweeper] = Idle
  /\ over # {}
  /\ Become(Sweeper, [stage |-> "expire", over |-> over, todo |-> over, retry |-> FALSE])
  /\ UNCHANGED <<status, fo, locked, offer, cached, crashes>>

(* Fault: only offers of a booking that is still offered are expired. *)
FaultSweepExpireOffered(f) ==
  LET left == proc[Sweeper].todo \ {f} IN
  /\ At(Sweeper, "expire")
  /\ f \in proc[Sweeper].todo
  /\ IF Standing(f) /\ status = "offered"
       THEN /\ offer' = [offer EXCEPT ![f].state = "expired"]
            /\ proc' = [proc EXCEPT ![Sweeper].todo = left,
                 ![Sweeper].stage = "activate", ![Sweeper].retry = TRUE]
       ELSE /\ proc' = [proc EXCEPT ![Sweeper].todo = left,
                 ![Sweeper].stage = IF left = {} THEN "check" ELSE "expire"]
            /\ UNCHANGED offer
  /\ UNCHANGED <<status, fo, locked, cached, crashes>>

(* updateMany where status = offered; a row it misses is passed over. *)
SweepExpire(f) ==
  LET left == proc[Sweeper].todo \ {f} IN
  /\ At(Sweeper, "expire")
  /\ f \in proc[Sweeper].todo
  /\ IF Standing(f)
       THEN /\ offer' = [offer EXCEPT ![f].state = "expired"]
            /\ proc' = [proc EXCEPT ![Sweeper].todo = left,
                 ![Sweeper].stage = "activate", ![Sweeper].retry = TRUE]
       ELSE /\ proc' = [proc EXCEPT ![Sweeper].todo = left,
                 ![Sweeper].stage = IF left = {} THEN "check" ELSE "expire"]
            /\ UNCHANGED offer
  /\ UNCHANGED <<status, fo, locked, cached, crashes>>

(* activateNextDormantRoundForBooking: only for a booking that is pending,  *)
(* with no open offer; the least dormant round is opened, where it stands.  *)
SweepActivate ==
  LET next == LeastRound({f \in FOs : Dormant(f)}) IN
  /\ At(Sweeper, "activate")
  /\ offer' = IF status = "pending_dispatch" /\ ~\E f \in FOs : Open(f)
                THEN [f \in FOs |-> IF f \in next /\ Standing(f)
                                      THEN [offer[f] EXCEPT !.window = "open"]
                                      ELSE offer[f]]
                ELSE offer
  /\ Goto(Sweeper, IF proc[Sweeper].todo = {} THEN "check" ELSE "expire")
  /\ UNCHANGED <<status, fo, locked, cached, crashes>>

(* The booking is read and its open offers counted, against the time at     *)
(* which the sweep began; a dormant offer has no expiry and is not counted. *)
SweepCheck ==
  LET open == {f \in FOs : Standing(f) /\ ~Dormant(f) /\ f \notin proc[Sweeper].over} IN
  /\ At(Sweeper, "check")
  /\ IF proc[Sweeper].retry /\ status = "offered" /\ open = {}
       THEN Become(Sweeper, [stage |-> "reopen"])
       ELSE Finish(Sweeper)
  /\ UNCHANGED <<status, fo, locked, offer, cached, crashes>>

-----------------------------------------------------------------------------
(* requeueAssignedBookingsMissingStart *)

(* The start is overdue by the grace period: at any time. *)
BeginRequeue(p) ==
  /\ proc[p] = Idle
  /\ status = "assigned"
  /\ fo # NoFo
  /\ Become(p, [stage |-> "requeue", fo |-> fo])
  /\ UNCHANGED <<status, fo, locked, offer, cached, crashes>>

(* Fault: an update by id alone. *)
FaultRequeueUnguarded(p) ==
  /\ At(p, "requeue")
  /\ status' = "pending_dispatch"
  /\ fo' = NoFo
  /\ StartDispatch(p)
  /\ UNCHANGED <<locked, offer, cached, crashes>>

(* updateMany where assigned to the FO that was read. *)
Requeue(p) ==
  /\ At(p, "requeue")
  /\ IF status = "assigned" /\ fo = proc[p].fo
       THEN /\ status' = "pending_dispatch"
            /\ fo' = NoFo
            /\ StartDispatch(p)
       ELSE /\ Finish(p)
            /\ UNCHANGED <<status, fo>>
  /\ UNCHANGED <<locked, offer, cached, crashes>>

-----------------------------------------------------------------------------
(* What an admin does to a booking in dispatch *)

NonAssignable == {"in_progress", "completed", "canceled"}

(* manualAssign: the checks before its transaction.  That the booking is    *)
(* neither held nor under review is left open.                              *)
BeginManual(p, f) ==
  /\ proc[p] = Idle
  /\ ~locked
  /\ fo = NoFo
  /\ status \notin NonAssignable \cup {"assigned"}
  /\ Become(p, [stage |-> "manual", fo |-> f])
  /\ UNCHANGED <<status, fo, locked, offer, cached, crashes>>

(* The checks are repeated in the transaction, except for the lock. *)
ManualRecheck(p) ==
  /\ At(p, "manual")
  /\ IF fo = NoFo /\ status \notin NonAssignable
       THEN Goto(p, "overwrite")
       ELSE Finish(p)
  /\ UNCHANGED <<status, fo, locked, offer, cached, crashes>>

(* applyAssignmentTransitionInTx without updateWhere: an update by id.      *)
ManualWrite(p) ==
  /\ At(p, "overwrite")
  /\ status' = "assigned"
  /\ fo' = proc[p].fo
  /\ Finish(p)
  /\ UNCHANGED <<locked, offer, cached, crashes>>

(* reassignBooking reads the status, then returns the booking to the queue  *)
(* by an update by id.  It dispatches nothing.                              *)
BeginReturn(p) ==
  /\ proc[p] = Idle
  /\ status \notin NonAssignable \cup {"pending_payment"}
  /\ Become(p, [stage |-> "return"])
  /\ UNCHANGED <<status, fo, locked, offer, cached, crashes>>

ReturnToQueue(p) ==
  /\ At(p, "return")
  /\ status' = "pending_dispatch"
  /\ fo' = NoFo
  /\ Finish(p)
  /\ UNCHANGED <<locked, offer, cached, crashes>>

(* releaseDispatchLock, whoever holds it; triggerRedispatch writes nothing  *)
(* else to these columns either.                                            *)
ReleaseLock ==
  /\ locked
  /\ locked' = FALSE
  /\ UNCHANGED <<status, fo, offer, cached, proc, crashes>>

-----------------------------------------------------------------------------
(* The rest of the booking's life *)

(* transitionBooking "schedule" of a paid booking, which dispatches it. *)
Schedule(p) ==
  /\ proc[p] = Idle
  /\ status = "pending_payment"
  /\ status' = "pending_dispatch"
  /\ StartDispatch(p)
  /\ UNCHANGED <<fo, locked, offer, cached, crashes>>

(* assignBooking of an unassigned booking, its transaction as one step: the *)
(* lock is respected and offers that stand are left standing.               *)
Assign(f) ==
  /\ status \in {"pending_dispatch", "offered"}
  /\ fo = NoFo
  /\ ~locked
  /\ status' = "assigned"
  /\ fo' = f
  /\ UNCHANGED <<locked, offer, cached, proc, crashes>>

(* assignBooking of an assigned booking to another FO: its update is guarded *)
(* by the status and by the FO that it has read.                             *)
Reassign(f) ==
  /\ status = "assigned"
  /\ fo # f
  /\ ~locked
  /\ fo' = f
  /\ UNCHANGED <<status, locked, offer, cached, proc, crashes>>

Transition(from, to) ==
  /\ status \in from
  /\ status' = to
  /\ UNCHANGED <<fo, locked, offer, cached, proc, crashes>>

Start == Transition({"assigned"}, "in_progress")
Complete == Transition({"in_progress"}, "completed")
(* Fault: the other spelling in the BookingStatus enumeration. *)
FaultCancelSpelling == Transition(Status \ {"completed", "canceled"}, "cancelled")
Cancel == Transition(Status \ {"completed", "canceled"}, "canceled")

(* Time passes: an offer is over, the cache entry lapses. *)
OfferLapses(f) ==
  /\ Open(f)
  /\ offer' = [offer EXCEPT ![f].window = "over"]
  /\ UNCHANGED <<status, fo, locked, cached, proc, crashes>>

CacheLapses ==
  /\ cached
  /\ cached' = FALSE
  /\ UNCHANGED <<status, fo, locked, offer, proc, crashes>>

(* A call that does not hold the lock fails between two statements. *)
CallFails(p) ==
  /\ proc[p] # Idle
  /\ ~Holds(p)
  /\ Finish(p)
  /\ UNCHANGED <<status, fo, locked, offer, cached, crashes>>

(* The process dies: every call ends where it is, the cache is lost, a      *)
(* transaction that has not committed is undone, the lock column stays.     *)
Crash ==
  /\ crashes < MaxCrashes
  /\ crashes' = crashes + 1
  /\ proc' = [p \in Processes |-> Idle]
  /\ cached' = FALSE
  /\ UNCHANGED <<status, fo, locked, offer>>

-----------------------------------------------------------------------------

DispatchStep(p) ==
  \/ DispatchGate(p) \/ DispatchLock(p) \/ DispatchCore(p)
  \/ \E f \in FOs : DispatchCreate(p, f)
  \/ DispatchMark(p) \/ DispatchRelease(p)

AnswerStep(p) ==
  \/ AcceptLapsed(p) \/ AcceptRecheck(p) \/ AcceptCommit(p)
  \/ DeclineReject(p) \/ DeclineCount(p) \/ Reopen(p) \/ Requeue(p)

AdminStep(p) == ManualRecheck(p) \/ ManualWrite(p) \/ ReturnToQueue(p)

SweepStep == (\E f \in FOs : SweepExpire(f)) \/ SweepActivate \/ SweepCheck

Step(p) ==
  DispatchStep(p) \/ AnswerStep(p) \/ AdminStep(p) \/ (p = Sweeper /\ SweepStep)

Begin(p) ==
  \/ Schedule(p) \/ BeginRequeue(p) \/ BeginReturn(p)
  \/ \E f \in FOs : BeginAccept(p, f) \/ BeginDecline(p, f) \/ BeginManual(p, f)

Lifecycle ==
  Start \/ Complete \/ Cancel \/ \E f \in FOs : Assign(f) \/ Reassign(f)

Next ==
  \/ \E p \in Requests : Begin(p) \/ CallFails(p)
  \/ BeginSweep
  \/ \E p \in Processes : Step(p) \/ DispatchFail(p)
  \/ Lifecycle
  \/ ReleaseLock
  \/ \E f \in FOs : OfferLapses(f)
  \/ CacheLapses
  \/ Crash

Spec == Init /\ [][Next]_vars

(* A call that has begun goes on unless it fails, time passes, and the      *)
(* sweep runs every minute and gets through.  Nobody has to answer, assign, *)
(* start or cancel anything.                                                *)
Fairness ==
  /\ \A p \in Processes : WF_vars(Step(p))
  /\ WF_vars(BeginSweep)
  /\ WF_vars(CacheLapses)
  /\ \A f \in FOs : WF_vars(OfferLapses(f))

FairSpec == Spec /\ Fairness

-----------------------------------------------------------------------------
(* Properties *)

(* However many FOs accept, however late, and whoever is assigned meanwhile: *)
(* a booking that has an FO is not given to another one by an FO's           *)
(* acceptance, nor by what a dispatch run, a decline or a sweep still has to *)
(* write.  Only an admin does that: assignBooking to a job that has not been *)
(* started, manualAssign, an update by id, to any.                           *)
NeverStolen ==
  [][fo # NoFo /\ fo' \notin {NoFo, fo}
       => \/ \E p \in Requests : ManualWrite(p)
          \/ \E f \in FOs : Reassign(f)]_vars

(* The SLA sweep takes back only jobs that have not started, however old     *)
(* its reading is.  The two admin updates by id are the only writes that     *)
(* take a started job from its FO.                                           *)
StartedJobKept ==
  [][fo' # fo /\ status \in {"in_progress", "completed"}
       => \E p \in Requests : ManualWrite(p) \/ ReturnToQueue(p)]_vars

(* The delayed writes of declines and sweeps miss a booking that has moved   *)
(* on.  Only three writes put it back into dispatch: the SLA sweep's, with   *)
(* the FO removed, and two unconditional ones, an admin's return to the      *)
(* queue and the last write of a dispatch run.                               *)
LateWritesMiss ==
  [][/\ status \in {"assigned", "in_progress", "completed", "canceled"}
     /\ status' \in {"pending_dispatch", "offered"}
     => \/ status = "assigned" /\ fo' = NoFo
        \/ \E p \in Processes : DispatchMark(p) \/ ReturnToQueue(p)]_vars

(* A lock that blocks the booking has a run behind it that is still going    *)
(* to release it, also when that run has failed on a row that another one    *)
(* has created.  Only the death of the process leaves a lock without one.    *)
LockHasHolder == locked => crashes > 0 \/ \E p \in Processes : Holds(p)

(* No FO is left with an open offer that nobody ends: it is answered,       *)
(* canceled or expired, whatever becomes of the booking.                    *)
OpenOffersEnd == \A f \in FOs : Open(f) ~> ~Standing(f)

(* dispatch.worker.ts: "re-dispatch bookings that no longer have any open   *)
(* offers".  A booking that the sweep has found so and sends back, with FOs *)
(* not yet asked or not yet active, gets an open offer or leaves dispatch.  *)
BookingsAreRedispatched ==
  (/\ At(Sweeper, "reopen")
   /\ status = "offered" /\ fo = NoFo
   /\ \E f \in FOs : ~Asked(f) \/ (Standing(f) /\ Dormant(f)))
  ~> ((\E f \in FOs : Open(f)) \/ status \notin {"offered", "pending_dispatch"})
=============================================================================
