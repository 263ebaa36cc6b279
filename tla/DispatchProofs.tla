-------------------------- MODULE DispatchProofs ---------------------------
(***************************************************************************)
(* For any FOs, rounds, number of concurrent calls and crashes: dispatch   *)
(* is type correct, a lock has a run behind it unless the process has      *)
(* died, and the writes that come late do no more than NeverStolen,        *)
(* StartedJobKept and LateWritesMiss say; and a booking that dispatch has  *)
(* left behind stays behind until a person acts (StrandedBookingsStay).    *)
(***************************************************************************)
EXTENDS Dispatch, TLAPS

ProcState == {Idle} \cup Dispatching \cup Answering \cup Sweeping \cup Other

(* The sweep makes no admin's call. *)
SweepOnlySweeps == proc[Sweeper].stage \notin {"manual", "overwrite", "return"}

IInv == DispatchTypeOK /\ LockHasHolder /\ SweepOnlySweeps

-----------------------------------------------------------------------------
(* Types *)

(* Where a call is tells what it carries. *)
LEMMA StageTells ==
  ASSUME DispatchTypeOK, NEW p \in Processes
  PROVE  /\ proc[p].stage \in {"start", "lock", "core", "create", "mark", "release"}
              => proc[p] \in Dispatching
         /\ proc[p].stage \in {"accept", "commit", "lapse", "reject", "requeue", "manual",
                               "overwrite"}
              => proc[p] \in Answering /\ proc[p].fo \in FOs
         /\ proc[p].stage \in {"expire", "activate", "check"} => proc[p] \in Sweeping
         /\ proc[p].stage \in {"count", "reopen", "return"} => proc[p] \in Other
         /\ proc[p].stage = "idle" => proc[p] = Idle
  BY DEF DispatchTypeOK, Idle, Dispatching, Answering, Sweeping, Other

(* A call goes on with something that a call can be. *)
LEMMA BecomeTyped ==
  ASSUME DispatchTypeOK, NEW p \in Processes, NEW what \in ProcState, Become(p, what)
  PROVE  proc' \in [Processes -> ProcState]
  BY DEF DispatchTypeOK, Become, ProcState

(* So does a call that ends. *)
LEMMA FinishTyped ==
  ASSUME DispatchTypeOK, NEW p \in Processes, Finish(p)
  PROVE  proc' \in [Processes -> ProcState]
  BY DEF DispatchTypeOK, Finish, Become, ProcState

(* A dispatch run at any of its stages is something a call can be. *)
LEMMA RunTyped ==
  ASSUME NEW stage \in {"start", "lock", "core", "create", "mark", "release"},
         NEW result \in BOOLEAN
  PROVE  /\ RunOf(stage) \in ProcState
         /\ [RunOf(stage) EXCEPT !.result = result] \in ProcState
  BY DEF RunOf, ProcState, Dispatching

(* startDispatch puts a call at the first stage of a run. *)
LEMMA StartTyped ==
  ASSUME DispatchTypeOK, NEW p \in Processes, StartDispatch(p)
  PROVE  proc' \in [Processes -> ProcState]
  BY RunTyped, BecomeTyped DEF StartDispatch

(* A call that only changes its stage stays typed if the result is. *)
LEMMA GotoTyped ==
  ASSUME DispatchTypeOK, NEW p \in Processes, NEW stage, Goto(p, stage),
         [proc[p] EXCEPT !.stage = stage] \in ProcState
  PROVE  proc' \in [Processes -> ProcState]
  BY DEF DispatchTypeOK, Goto, ProcState

(* Every step keeps the types of all variables. *)
LEMMA TypeStep ==
  ASSUME DispatchTypeOK, Next
  PROVE  DispatchTypeOK'
<1> SUFFICES /\ status' \in Status
             /\ fo' \in FOs \cup {NoFo}
             /\ locked' \in BOOLEAN
             /\ offer' \in [FOs -> Offer]
             /\ cached' \in BOOLEAN
             /\ proc' \in [Processes -> ProcState]
             /\ crashes' \in 0..MaxCrashes
  BY DEF DispatchTypeOK, ProcState
<1> DEFINE Typed == /\ status' \in Status
                    /\ fo' \in FOs \cup {NoFo}
                    /\ locked' \in BOOLEAN
                    /\ offer' \in [FOs -> Offer]
                    /\ cached' \in BOOLEAN
                    /\ proc' \in [Processes -> ProcState]
                    /\ crashes' \in 0..MaxCrashes
<1>a. Requests \subseteq Processes /\ Sweeper \in Processes
  BY DEF Processes
<1>b. /\ status \in Status /\ fo \in FOs \cup {NoFo} /\ locked \in BOOLEAN
      /\ offer \in [FOs -> Offer] /\ cached \in BOOLEAN /\ crashes \in 0..MaxCrashes
      /\ proc \in [Processes -> ProcState]
  BY DEF DispatchTypeOK, ProcState

<1>1. ASSUME NEW p \in Processes, DispatchGate(p) PROVE Typed
  <2>1. proc[p] \in Dispatching
    BY <1>1, StageTells DEF DispatchGate, At
  <2>2. [proc[p] EXCEPT !.stage = "lock"] \in ProcState
    BY <2>1 DEF Dispatching, ProcState
  <2>3. QED BY <1>1, <1>b, <2>2, FinishTyped, GotoTyped DEF DispatchGate

<1>2. ASSUME NEW p \in Processes, DispatchLock(p) PROVE Typed
  <2>1. proc[p] \in Dispatching
    BY <1>2, StageTells DEF DispatchLock, At
  <2>2. [proc[p] EXCEPT !.stage = "core"] \in ProcState
    BY <2>1 DEF Dispatching, ProcState
  <2>3. QED BY <1>2, <1>b, <2>2, GotoTyped DEF DispatchLock

<1>3. ASSUME NEW p \in Processes, DispatchCore(p) PROVE Typed
  <2>1. ASSUME NEW s \in Selections
        PROVE  [RunOf("create") EXCEPT !.todo = s[1], !.opens = s[2]] \in ProcState
    <3>1. s[1] \subseteq FOs /\ s[2] \subseteq FOs
      BY DEF Selections, LeastRound
    <3>2. QED BY <3>1 DEF RunOf, ProcState, Dispatching
  <2>2. proc' \in [Processes -> ProcState]
    BY <1>3, <2>1, RunTyped, BecomeTyped DEF DispatchCore
  <2>3. QED BY <1>3, <1>b, <2>2 DEF DispatchCore

<1>4. ASSUME NEW p \in Processes, NEW f \in FOs, DispatchCreate(p, f) PROVE Typed
  <2>1. proc[p] \in Dispatching
    BY <1>4, StageTells DEF DispatchCreate, At
  <2>2. [proc[p] EXCEPT !.todo = @ \ {f}, !.opens = @ \ {f}] \in ProcState
    BY <2>1 DEF Dispatching, ProcState
  <2>3. proc' \in [Processes -> ProcState]
    <3>1. CASE Asked(f)
      BY <1>4, <3>1, RunTyped, BecomeTyped DEF DispatchCreate
    <3>2. CASE ~Asked(f) /\ proc[p].todo \ {f} = {}
      BY <1>4, <3>2, RunTyped, BecomeTyped DEF DispatchCreate
    <3>3. CASE ~Asked(f) /\ proc[p].todo \ {f} # {}
      BY <1>4, <1>b, <3>3, <2>1 DEF DispatchCreate, Dispatching, ProcState
    <3>4. QED BY <3>1, <3>2, <3>3
  <2>4. offer' \in [FOs -> Offer]
    BY <1>4, <1>b DEF DispatchCreate, Offer
  <2>5. QED BY <1>4, <1>b, <2>3, <2>4 DEF DispatchCreate

<1>5. ASSUME NEW p \in Processes, DispatchMark(p) PROVE Typed
  BY <1>5, <1>b, RunTyped, BecomeTyped DEF DispatchMark, Status

<1>6. ASSUME NEW p \in Processes, DispatchRelease(p) PROVE Typed
  <2>1. proc[p].result \in BOOLEAN
    BY <1>6, StageTells DEF DispatchRelease, At, Dispatching
  <2>2. QED BY <1>6, <1>b, <2>1, FinishTyped DEF DispatchRelease

<1>7. ASSUME NEW p \in Processes, DispatchFail(p) PROVE Typed
  BY <1>7, <1>b, RunTyped, BecomeTyped DEF DispatchFail

<1>8. ASSUME NEW p \in Requests, NEW f \in FOs,
             BeginAccept(p, f) \/ BeginDecline(p, f) \/ BeginManual(p, f)
      PROVE  Typed
  <2>1. \A s \in {"lapse", "accept", "reject", "manual"} : [stage |-> s, fo |-> f] \in ProcState
    BY DEF ProcState, Answering
  <2>2. proc' \in [Processes -> ProcState]
    BY <1>8, <1>a, <2>1, BecomeTyped DEF BeginAccept, BeginDecline, BeginManual
  <2>3. QED BY <1>8, <1>b, <2>2 DEF BeginAccept, BeginDecline, BeginManual

<1>9. ASSUME NEW p \in Processes, AcceptLapsed(p) PROVE Typed
  <2>1. offer' \in [FOs -> Offer]
    BY <1>9, <1>b DEF AcceptLapsed, Offer
  <2>2. QED BY <1>9, <1>b, <2>1, FinishTyped DEF AcceptLapsed

<1>10. ASSUME NEW p \in Processes, AcceptRecheck(p) PROVE Typed
  <2>1. proc[p] \in Answering
    BY <1>10, StageTells DEF AcceptRecheck, At
  <2>2. [proc[p] EXCEPT !.stage = "commit"] \in ProcState
    BY <2>1 DEF Answering, ProcState
  <2>3. QED BY <1>10, <1>b, <2>2, FinishTyped, GotoTyped DEF AcceptRecheck

<1>11. ASSUME NEW p \in Processes, AcceptCommit(p) PROVE Typed
  <2>1. proc[p].fo \in FOs
    BY <1>11, StageTells DEF AcceptCommit, At
  <2>2. offer' \in [FOs -> Offer]
    BY <1>11, <1>b DEF AcceptCommit, Offer
  <2>3. QED BY <1>11, <1>b, <2>1, <2>2, FinishTyped DEF AcceptCommit, Status

<1>12. ASSUME NEW p \in Processes, DeclineReject(p) PROVE Typed
  <2>1. offer' \in [FOs -> Offer]
    BY <1>12, <1>b DEF DeclineReject, Offer
  <2>2. [stage |-> "count"] \in ProcState
    BY DEF ProcState, Other
  <2>3. QED BY <1>12, <1>b, <2>1, <2>2, BecomeTyped DEF DeclineReject

<1>13. ASSUME NEW p \in Processes, DeclineCount(p) PROVE Typed
  <2>1. proc[p] \in Other
    BY <1>13, StageTells DEF DeclineCount, At
  <2>2. [proc[p] EXCEPT !.stage = "reopen"] \in ProcState
    BY <2>1 DEF Other, ProcState
  <2>3. QED BY <1>13, <1>b, <2>2, StartTyped, GotoTyped DEF DeclineCount

<1>14. ASSUME NEW p \in Processes, Reopen(p) PROVE Typed
  BY <1>14, <1>b, StartTyped DEF Reopen, Status

<1>15. ASSUME NEW p \in Processes, Requeue(p) PROVE Typed
  BY <1>15, <1>b, StartTyped, FinishTyped DEF Requeue, Status

<1>16. ASSUME BeginSweep PROVE Typed
  <2> DEFINE over == {f \in FOs : Over(f)}
  <2>1. [stage |-> "expire", over |-> over, todo |-> over, retry |-> FALSE] \in ProcState
    BY DEF ProcState, Sweeping
  <2>2. QED BY <1>16, <1>a, <1>b, <2>1, BecomeTyped DEF BeginSweep

<1>17. ASSUME NEW f \in FOs, SweepExpire(f) PROVE Typed
  <2>1. proc[Sweeper] \in Sweeping
    BY <1>17, <1>a, StageTells DEF SweepExpire, At
  <2>2. proc' \in [Processes -> ProcState]
    BY <1>17, <1>a, <1>b, <2>1 DEF SweepExpire, Sweeping, ProcState
  <2>3. offer' \in [FOs -> Offer]
    BY <1>17, <1>b DEF SweepExpire, Offer
  <2>4. QED BY <1>17, <1>b, <2>2, <2>3 DEF SweepExpire

<1>18. ASSUME SweepActivate PROVE Typed
  <2>1. proc[Sweeper] \in Sweeping
    BY <1>18, <1>a, StageTells DEF SweepActivate, At
  <2>2. \A s \in {"check", "expire"} : [proc[Sweeper] EXCEPT !.stage = s] \in ProcState
    BY <2>1 DEF Sweeping, ProcState
  <2>3. proc' \in [Processes -> ProcState]
    BY <1>18, <1>a, <2>2, GotoTyped DEF SweepActivate
  <2>4. offer' \in [FOs -> Offer]
    BY <1>18, <1>b DEF SweepActivate, Offer
  <2>5. QED BY <1>18, <1>b, <2>3, <2>4 DEF SweepActivate

<1>19. ASSUME SweepCheck PROVE Typed
  <2>1. [stage |-> "reopen"] \in ProcState
    BY DEF ProcState, Other
  <2>2. QED BY <1>19, <1>a, <1>b, <2>1, BecomeTyped, FinishTyped DEF SweepCheck

<1>20. ASSUME NEW p \in Requests, BeginRequeue(p) PROVE Typed
  <2>1. [stage |-> "requeue", fo |-> fo] \in ProcState
    BY <1>20, <1>b DEF BeginRequeue, ProcState, Answering
  <2>2. QED BY <1>20, <1>a, <1>b, <2>1, BecomeTyped DEF BeginRequeue

<1>21. ASSUME NEW p \in Processes, ManualRecheck(p) PROVE Typed
  <2>1. proc[p] \in Answering
    BY <1>21, StageTells DEF ManualRecheck, At
  <2>2. [proc[p] EXCEPT !.stage = "overwrite"] \in ProcState
    BY <2>1 DEF Answering, ProcState
  <2>3. QED BY <1>21, <1>b, <2>2, FinishTyped, GotoTyped DEF ManualRecheck

<1>22. ASSUME NEW p \in Processes, ManualWrite(p) PROVE Typed
  <2>1. proc[p].fo \in FOs
    BY <1>22, StageTells DEF ManualWrite, At
  <2>2. QED BY <1>22, <1>b, <2>1, FinishTyped DEF ManualWrite, Status

<1>23. ASSUME NEW p \in Requests, BeginReturn(p) PROVE Typed
  <2>1. [stage |-> "return"] \in ProcState
    BY DEF ProcState, Other
  <2>2. QED BY <1>23, <1>a, <1>b, <2>1, BecomeTyped DEF BeginReturn

<1>24. ASSUME NEW p \in Processes, ReturnToQueue(p) PROVE Typed
  BY <1>24, <1>b, FinishTyped DEF ReturnToQueue, Status

<1>25. ASSUME NEW p \in Requests, Schedule(p) PROVE Typed
  BY <1>25, <1>a, <1>b, StartTyped DEF Schedule, Status

<1>26. ASSUME Lifecycle PROVE Typed
  BY <1>26, <1>b DEF Lifecycle, Start, Complete, Cancel, Assign, Reassign, Transition, Status

<1>27. ASSUME ReleaseLock \/ CacheLapses PROVE Typed
  BY <1>27, <1>b DEF ReleaseLock, CacheLapses

<1>28. ASSUME NEW f \in FOs, OfferLapses(f) PROVE Typed
  BY <1>28, <1>b DEF OfferLapses, Offer

<1>29. ASSUME NEW p \in Requests, CallFails(p) PROVE Typed
  BY <1>29, <1>a, <1>b, FinishTyped DEF CallFails

<1>30. ASSUME Crash PROVE Typed
  <2>1. crashes' \in 0..MaxCrashes
    BY <1>30, <1>b, DispatchAssumption DEF Crash
  <2>2. proc' \in [Processes -> ProcState]
    BY <1>30 DEF Crash, ProcState
  <2>3. QED BY <1>30, <1>b, <2>1, <2>2 DEF Crash

<1> QED
  BY <1>1, <1>2, <1>3, <1>4, <1>5, <1>6, <1>7, <1>8, <1>9, <1>10, <1>11, <1>12, <1>13, <1>14,
     <1>15, <1>16, <1>17, <1>18, <1>19, <1>20, <1>21, <1>22, <1>23, <1>24, <1>25, <1>26, <1>27,
     <1>28, <1>29, <1>30
  DEF Next, Begin, Step, DispatchStep, AnswerStep, AdminStep, SweepStep

-----------------------------------------------------------------------------
(* The lock *)

(* A call that holds the lock does so until its release. *)
LEMMA HolderStep ==
  ASSUME DispatchTypeOK, NEW p \in Processes, Holds(p), Step(p)
  PROVE  Holds(p)' \/ ~locked'
<1>1. ASSUME DispatchCore(p) PROVE Holds(p)'
  BY <1>1 DEF DispatchCore, Become, RunOf, Holds, DispatchTypeOK
<1>2. ASSUME NEW f \in FOs, DispatchCreate(p, f) PROVE Holds(p)'
  <2>1. proc[p].stage = "create" /\ proc[p] \in Dispatching
    BY <1>2, StageTells DEF DispatchCreate, At
  <2>2. QED BY <1>2, <2>1 DEF DispatchCreate, Become, RunOf, Holds, DispatchTypeOK, Dispatching
<1>3. ASSUME DispatchMark(p) PROVE Holds(p)'
  BY <1>3 DEF DispatchMark, Become, RunOf, Holds, DispatchTypeOK
<1>4. ASSUME DispatchRelease(p) PROVE ~locked'
  BY <1>4 DEF DispatchRelease
<1>5. QED
  BY <1>1, <1>2, <1>3, <1>4
  DEF Step, DispatchStep, DispatchGate, DispatchLock, AnswerStep, AcceptLapsed, AcceptRecheck,
      AcceptCommit, DeclineReject, DeclineCount, Reopen, Requeue, AdminStep, ManualRecheck,
      ManualWrite, ReturnToQueue, SweepStep, SweepExpire, SweepActivate, SweepCheck, At, Holds

(* Who moves, and that nobody fails while it holds the lock. *)
LEMMA HoldersGoOn ==
  ASSUME DispatchTypeOK, Next, NEW p \in Processes, Holds(p), locked', ~Crash
  PROVE  Holds(p)'
<1>1. ASSUME Step(p) PROVE Holds(p)'
  BY <1>1, HolderStep
<1>2. ASSUME DispatchFail(p) PROVE Holds(p)'
  BY <1>2 DEF DispatchFail, Become, RunOf, Holds, DispatchTypeOK
<1>3. CASE proc'[p] = proc[p]
  BY <1>3 DEF Holds
<1>a. ASSUME NEW q \in Requests, Begin(q) \/ CallFails(q) PROVE q # p
  <2>1. ASSUME Begin(q) PROVE proc[q] = Idle
    BY <2>1 DEF Begin, Schedule, BeginRequeue, BeginReturn, BeginAccept, BeginDecline, BeginManual
  <2>2. ASSUME proc[q] = Idle PROVE ~Holds(q)
    BY <2>2 DEF Idle, Holds
  <2>3. ASSUME CallFails(q) PROVE ~Holds(q)
    BY <2>3 DEF CallFails
  <2>4. QED BY <1>a, <2>1, <2>2, <2>3
<1> USE DEF DispatchTypeOK, Become, Goto, Finish, StartDispatch
<1>4. ASSUME NEW q \in Processes, q # p, Step(q) \/ DispatchFail(q) PROVE proc'[p] = proc[p]
  <2>1. CASE DispatchStep(q) \/ DispatchFail(q)
    BY <1>4, <2>1 DEF DispatchStep, DispatchGate, DispatchLock, DispatchCore, DispatchCreate,
                      DispatchMark, DispatchRelease, DispatchFail
  <2>2. CASE AnswerStep(q)
    BY <1>4, <2>2 DEF AnswerStep, AcceptLapsed, AcceptRecheck, AcceptCommit, DeclineReject,
                      DeclineCount, Reopen, Requeue
  <2>3. CASE AdminStep(q)
    BY <1>4, <2>3 DEF AdminStep, ManualRecheck, ManualWrite, ReturnToQueue
  <2>4. CASE q = Sweeper /\ SweepStep
    BY <1>4, <2>4 DEF SweepStep, SweepExpire, SweepActivate, SweepCheck
  <2>5. QED BY <1>4, <2>1, <2>2, <2>3, <2>4 DEF Step
<1>5. ASSUME NEW q \in Requests, Begin(q) \/ CallFails(q) PROVE proc'[p] = proc[p]
  <2>1. q # p
    BY <1>5, <1>a
  <2>2. q \in Processes
    BY DEF Processes
  <2>3. QED
    BY <1>5, <2>1, <2>2 DEF Begin, Schedule, BeginRequeue, BeginReturn, BeginAccept,
                            BeginDecline, BeginManual, CallFails
<1>6. ASSUME BeginSweep PROVE proc'[p] = proc[p]
  BY <1>6 DEF BeginSweep, Holds, Idle
<1>7. ASSUME Lifecycle \/ ReleaseLock \/ CacheLapses \/ \E f \in FOs : OfferLapses(f)
      PROVE  proc' = proc
  BY <1>7 DEF Lifecycle, Start, Complete, Cancel, Assign, Reassign,
              Transition, ReleaseLock, CacheLapses,
              OfferLapses
<1>8. QED
  BY <1>1, <1>2, <1>3, <1>4, <1>5, <1>6, <1>7 DEF Next

(* The lock is written by a run that then holds it. *)
LEMMA LockIsTaken ==
  ASSUME DispatchTypeOK, Next, ~locked, locked'
  PROVE  \E p \in Processes : Holds(p)'
<1>1. ASSUME NEW p \in Processes, DispatchLock(p) PROVE Holds(p)'
  <2>1. proc[p] \in Dispatching
    BY <1>1, StageTells DEF DispatchLock, At
  <2>2. QED BY <1>1, <2>1 DEF DispatchLock, Goto, Holds, DispatchTypeOK, Dispatching
<1>2. ASSUME NEW p \in Processes, Step(p), ~DispatchLock(p) PROVE locked' = locked \/ ~locked'
  BY <1>2
  DEF Step, DispatchStep, DispatchGate, DispatchCore, DispatchCreate, DispatchMark,
      DispatchRelease, AnswerStep, AcceptLapsed, AcceptRecheck, AcceptCommit, DeclineReject,
      DeclineCount, Reopen, Requeue, AdminStep, ManualRecheck, ManualWrite, ReturnToQueue,
      SweepStep, SweepExpire, SweepActivate, SweepCheck
<1>3. ASSUME NEW p \in Requests, Begin(p) \/ CallFails(p) PROVE locked' = locked
  BY <1>3 DEF Begin, Schedule, BeginRequeue, BeginReturn, BeginAccept, BeginDecline,
              BeginManual, CallFails
<1>4. ASSUME NEW p \in Processes, DispatchFail(p) PROVE locked' = locked
  BY <1>4 DEF DispatchFail
<1>5. ASSUME BeginSweep \/ Lifecycle \/ CacheLapses \/ Crash \/ \E f \in FOs : OfferLapses(f)
      PROVE  locked' = locked
  BY <1>5 DEF BeginSweep, Lifecycle, Start, Complete, Cancel, Assign, Reassign,
              Transition, CacheLapses,
              Crash, OfferLapses
<1>6. ~ReleaseLock
  BY DEF ReleaseLock
<1>7. QED
  BY <1>1, <1>2, <1>3, <1>4, <1>5, <1>6 DEF Next

(* Crashes are counted and not forgotten. *)
LEMMA CrashesStay ==
  ASSUME DispatchTypeOK, Next
  PROVE  IF Crash THEN crashes' > 0 ELSE crashes' = crashes
<1>1. ASSUME Crash PROVE crashes' > 0
  BY <1>1, DispatchAssumption DEF Crash, DispatchTypeOK
<1>2. ASSUME NEW p \in Processes, Step(p) \/ DispatchFail(p) PROVE crashes' = crashes
  BY <1>2
  DEF Step, DispatchStep, DispatchGate, DispatchLock, DispatchCore, DispatchCreate, DispatchMark,
      DispatchRelease, AnswerStep, AcceptLapsed, AcceptRecheck, AcceptCommit, DeclineReject,
      DeclineCount, Reopen, Requeue, AdminStep, ManualRecheck, ManualWrite, ReturnToQueue,
      SweepStep, SweepExpire, SweepActivate, SweepCheck, DispatchFail
<1>3. ASSUME NEW p \in Requests, Begin(p) \/ CallFails(p) PROVE crashes' = crashes
  BY <1>3 DEF Begin, Schedule, BeginRequeue, BeginReturn, BeginAccept, BeginDecline,
              BeginManual, CallFails
<1>4. ASSUME \/ BeginSweep \/ Lifecycle \/ ReleaseLock \/ CacheLapses
             \/ \E f \in FOs : OfferLapses(f)
      PROVE  crashes' = crashes
  BY <1>4 DEF BeginSweep, Lifecycle, Start, Complete, Cancel, Assign, Reassign,
              Transition, ReleaseLock,
              CacheLapses, OfferLapses
<1>5. QED
  BY <1>1, <1>2, <1>3, <1>4 DEF Next

(* A lock that blocks has a run behind it. *)
LEMMA LockStep ==
  ASSUME DispatchTypeOK, LockHasHolder, Next
  PROVE  LockHasHolder'
<1> SUFFICES ASSUME locked', ~(crashes' > 0) PROVE \E p \in Processes : Holds(p)'
  BY DEF LockHasHolder
<1>1. ~Crash /\ ~(crashes > 0)
  BY CrashesStay
<1>2. CASE locked
  <2>1. PICK p \in Processes : Holds(p)
    BY <1>1, <1>2 DEF LockHasHolder
  <2>2. QED BY <1>1, <2>1, HoldersGoOn
<1>3. CASE ~locked
  BY <1>3, LockIsTaken
<1>4. QED BY <1>2, <1>3

-----------------------------------------------------------------------------
(* Who writes the booking *)

(* The sweep never comes to an admin's stage. *)
LEMMA SweepOnlyStep ==
  ASSUME DispatchTypeOK, SweepOnlySweeps, Next
  PROVE  SweepOnlySweeps'
<1> Requests \subseteq Processes /\ Sweeper \in Processes /\ Sweeper \notin Requests
  BY DispatchAssumption DEF Processes
<1> USE DEF SweepOnlySweeps
<1>1. CASE proc'[Sweeper] = proc[Sweeper]
  BY <1>1
<1> USE DEF Become, Goto, Finish, StartDispatch, RunOf, Idle, DispatchTypeOK
<1>2. ASSUME NEW p \in Processes, DispatchStep(p) \/ DispatchFail(p) PROVE SweepOnlySweeps'
  <2>1. proc[p] \in Dispatching
    BY <1>2, StageTells
    DEF DispatchStep, DispatchGate, DispatchLock, DispatchCore, DispatchCreate, DispatchMark,
        DispatchRelease, DispatchFail, At
  <2>2. CASE DispatchGate(p) \/ DispatchLock(p)
    BY <2>1, <2>2 DEF DispatchGate, DispatchLock, Dispatching
  <2>3. CASE DispatchCore(p)
    BY <2>3 DEF DispatchCore
  <2>4. ASSUME NEW f \in FOs, DispatchCreate(p, f) PROVE SweepOnlySweeps'
    <3>1. CASE proc[p].todo \ {f} = {} \/ Asked(f)
      BY <2>4, <3>1 DEF DispatchCreate
    <3>2. CASE proc[p].todo \ {f} # {} /\ ~Asked(f)
      BY <2>1, <2>4, <3>2 DEF DispatchCreate, Dispatching
    <3>3. QED BY <3>1, <3>2
  <2>5. CASE DispatchMark(p) \/ DispatchRelease(p) \/ DispatchFail(p)
    BY <2>5 DEF DispatchMark, DispatchRelease, DispatchFail
  <2>6. QED BY <1>2, <2>2, <2>3, <2>4, <2>5 DEF DispatchStep
<1>3. ASSUME NEW p \in Processes, AnswerStep(p) PROVE SweepOnlySweeps'
  <2>1. proc[p] \in Answering \cup Other
    BY <1>3, StageTells
    DEF AnswerStep, AcceptLapsed, AcceptRecheck, AcceptCommit, DeclineReject, DeclineCount,
        Reopen, Requeue, At
  <2>2. CASE AcceptLapsed(p) \/ AcceptRecheck(p) \/ AcceptCommit(p)
    BY <2>1, <2>2 DEF AcceptLapsed, AcceptRecheck, AcceptCommit, Answering, Other
  <2>3. CASE DeclineReject(p) \/ DeclineCount(p)
    BY <2>1, <2>3 DEF DeclineReject, DeclineCount, Answering, Other
  <2>4. CASE Reopen(p) \/ Requeue(p)
    BY <2>4 DEF Reopen, Requeue
  <2>5. QED BY <1>3, <2>2, <2>3, <2>4 DEF AnswerStep
<1>4. ASSUME NEW p \in Processes, AdminStep(p) PROVE SweepOnlySweeps'
  BY <1>4 DEF AdminStep, ManualRecheck, ManualWrite, ReturnToQueue, At
<1>5. ASSUME SweepStep PROVE SweepOnlySweeps'
  <2>1. proc[Sweeper] \in Sweeping
    BY <1>5, StageTells DEF SweepStep, SweepExpire, SweepActivate, SweepCheck, At
  <2>2. ASSUME NEW f \in FOs, SweepExpire(f) PROVE SweepOnlySweeps'
    BY <2>1, <2>2 DEF SweepExpire, Sweeping
  <2>3. CASE SweepActivate
    BY <2>1, <2>3 DEF SweepActivate, Sweeping
  <2>4. CASE SweepCheck
    BY <2>4 DEF SweepCheck
  <2>5. QED BY <1>5, <2>2, <2>3, <2>4 DEF SweepStep
<1>6. ASSUME NEW p \in Requests, Begin(p) \/ CallFails(p) PROVE proc'[Sweeper] = proc[Sweeper]
  BY <1>6 DEF Begin, Schedule, BeginRequeue, BeginReturn, BeginAccept, BeginDecline, BeginManual,
              CallFails
<1>7. ASSUME BeginSweep PROVE SweepOnlySweeps'
  BY <1>7 DEF BeginSweep
<1>8. ASSUME Lifecycle \/ ReleaseLock \/ CacheLapses \/ \E f \in FOs : OfferLapses(f)
      PROVE  proc' = proc
  BY <1>8 DEF Lifecycle, Start, Complete, Cancel, Assign, Reassign,
              Transition, ReleaseLock, CacheLapses,
              OfferLapses
<1>9. ASSUME Crash PROVE SweepOnlySweeps'
  BY <1>9 DEF Crash
<1>10. QED
  BY <1>1, <1>2, <1>3, <1>4, <1>5, <1>6, <1>7, <1>8, <1>9 DEF Next, Step

(* The writes of the two columns, one by one. *)
Writes ==
  \/ \E p \in Processes : DispatchMark(p) \/ AcceptCommit(p) \/ Reopen(p) \/ Requeue(p)
  \/ \E p \in Requests : ManualWrite(p) \/ ReturnToQueue(p) \/ Schedule(p)
  \/ Lifecycle

(* Every other step leaves status and FO alone. *)
LEMMA WhoWrites ==
  ASSUME SweepOnlySweeps, Next
  PROVE  Writes \/ (status' = status /\ fo' = fo)
<1>1. ASSUME NEW p \in Processes, DispatchStep(p) \/ DispatchFail(p), ~DispatchMark(p)
      PROVE  status' = status /\ fo' = fo
  BY <1>1 DEF DispatchStep, DispatchGate, DispatchLock, DispatchCore, DispatchCreate,
              DispatchRelease, DispatchFail
<1>2. ASSUME NEW p \in Processes, AnswerStep(p), ~AcceptCommit(p), ~Reopen(p), ~Requeue(p)
      PROVE  status' = status /\ fo' = fo
  BY <1>2 DEF AnswerStep, AcceptLapsed, AcceptRecheck, DeclineReject, DeclineCount
<1>3. ASSUME NEW p \in Processes, AdminStep(p)
      PROVE  \/ status' = status /\ fo' = fo
             \/ p \in Requests /\ (ManualWrite(p) \/ ReturnToQueue(p))
  <2>1. CASE p = Sweeper
    BY <1>3, <2>1 DEF AdminStep, ManualRecheck, ManualWrite, ReturnToQueue, At, SweepOnlySweeps
  <2>2. CASE p \in Requests
    BY <1>3, <2>2 DEF AdminStep, ManualRecheck
  <2>3. QED BY <2>1, <2>2 DEF Processes
<1>4. ASSUME SweepStep \/ BeginSweep PROVE status' = status /\ fo' = fo
  BY <1>4 DEF SweepStep, SweepExpire, SweepActivate, SweepCheck, BeginSweep
<1>5. ASSUME NEW p \in Requests, Begin(p) \/ CallFails(p), ~Schedule(p)
      PROVE  status' = status /\ fo' = fo
  BY <1>5 DEF Begin, BeginRequeue, BeginReturn, BeginAccept, BeginDecline, BeginManual, CallFails
<1>6. ASSUME ReleaseLock \/ CacheLapses \/ Crash \/ \E f \in FOs : OfferLapses(f)
      PROVE  status' = status /\ fo' = fo
  BY <1>6 DEF ReleaseLock, CacheLapses, Crash, OfferLapses
<1>7. QED
  BY <1>1, <1>2, <1>3, <1>4, <1>5, <1>6 DEF Next, Step, Writes

-----------------------------------------------------------------------------
(* The theorems *)

(* The invariant holds at the start and is kept. *)
THEOREM IInvHolds == Spec => []IInv
<1>1. Init => IInv
  <2> SUFFICES ASSUME Init PROVE IInv
    OBVIOUS
  <2>1. crashes \in 0..MaxCrashes
    BY DispatchAssumption DEF Init
  <2>2. proc \in [Processes -> {Idle} \cup Dispatching \cup Answering \cup Sweeping \cup Other]
    BY DEF Init
  <2>3. offer \in [FOs -> Offer]
    BY DEF Init, Offer
  <2>4. DispatchTypeOK
    BY <2>1, <2>2, <2>3 DEF Init, DispatchTypeOK, Status
  <2>5. LockHasHolder /\ SweepOnlySweeps
    BY DEF Init, LockHasHolder, SweepOnlySweeps, Idle, Processes
  <2>6. QED BY <2>4, <2>5 DEF IInv
<1>2. IInv /\ [Next]_vars => IInv'
  <2> SUFFICES ASSUME IInv, [Next]_vars PROVE IInv'
    OBVIOUS
  <2>1. CASE Next
    BY <2>1, TypeStep, LockStep, SweepOnlyStep DEF IInv
  <2>2. CASE UNCHANGED vars
    BY <2>2 DEF vars, IInv, DispatchTypeOK, LockHasHolder, Holds, SweepOnlySweeps
  <2>3. QED BY <2>1, <2>2
<1>3. QED BY <1>1, <1>2, PTL DEF Spec

(* Every variable keeps its type. *)
THEOREM DispatchTypesHold == Spec => []DispatchTypeOK
<1>1. IInv => DispatchTypeOK BY DEF IInv
<1>2. QED BY <1>1, IInvHolds, PTL

(* A run that fails, or loses the race for a row, leaves no lock behind.     *)
THEOREM LocksHaveHolders == Spec => []LockHasHolder
<1>1. IInv => LockHasHolder BY DEF IInv
<1>2. QED BY <1>1, IInvHolds, PTL

(* Only an admin's assignment gives a booking that has an FO to another one. *)
THEOREM BookingsAreNotStolen == Spec => NeverStolen
<1>1. ASSUME IInv, [Next]_vars, fo # NoFo, fo' \notin {NoFo, fo}
      PROVE  \/ \E p \in Requests : ManualWrite(p)
             \/ \E f \in FOs : Reassign(f)
  <2>1. Writes
    BY <1>1, WhoWrites DEF IInv, vars
  <2>2. QED
    BY <1>1, <2>1
    DEF Writes, DispatchMark, AcceptCommit, Reopen, Requeue, ReturnToQueue, Schedule, Lifecycle,
        Start, Complete, Cancel, Assign, Reassign, Transition
<1>2. IInv /\ [Next]_vars
        => [fo # NoFo /\ fo' \notin {NoFo, fo}
              => \/ \E p \in Requests : ManualWrite(p)
                 \/ \E f \in FOs : Reassign(f)]_vars
  BY <1>1
<1>3. QED BY <1>2, IInvHolds, PTL DEF Spec, NeverStolen

(* Only the two admin updates by id take a started job from its FO.          *)
THEOREM StartedJobsAreKept == Spec => StartedJobKept
<1>1. ASSUME IInv, [Next]_vars, fo' # fo, status \in {"in_progress", "completed"}
      PROVE  \E p \in Requests : ManualWrite(p) \/ ReturnToQueue(p)
  <2>1. Writes
    BY <1>1, WhoWrites DEF IInv, vars
  <2>2. QED
    BY <1>1, <2>1
    DEF Writes, DispatchMark, AcceptCommit, Reopen, Requeue, Schedule, Lifecycle, Start, Complete,
        Cancel, Assign, Reassign, Transition
<1>2. IInv /\ [Next]_vars
        => [fo' # fo /\ status \in {"in_progress", "completed"}
              => \E p \in Requests : ManualWrite(p) \/ ReturnToQueue(p)]_vars
  BY <1>1
<1>3. QED BY <1>2, IInvHolds, PTL DEF Spec, StartedJobKept

(* Only three writes put a booking back into dispatch that has left it.      *)
THEOREM LateWritesDoMiss == Spec => LateWritesMiss
<1>1. ASSUME IInv, [Next]_vars, status \in {"assigned", "in_progress", "completed", "canceled"},
             status' \in {"pending_dispatch", "offered"}
      PROVE  \/ status = "assigned" /\ fo' = NoFo
             \/ \E p \in Processes : DispatchMark(p) \/ ReturnToQueue(p)
  <2>1. Writes
    BY <1>1, WhoWrites DEF IInv, vars
  <2>2. QED
    BY <1>1, <2>1
    DEF Writes, AcceptCommit, Reopen, Requeue, ManualWrite, Schedule, Lifecycle, Start, Complete,
        Cancel, Assign, Reassign, Transition, Processes
<1>2. IInv /\ [Next]_vars
        => [/\ status \in {"assigned", "in_progress", "completed", "canceled"}
            /\ status' \in {"pending_dispatch", "offered"}
            => \/ status = "assigned" /\ fo' = NoFo
               \/ \E p \in Processes : DispatchMark(p) \/ ReturnToQueue(p)]_vars
  BY <1>1
<1>3. QED BY <1>2, IInvHolds, PTL DEF Spec, LateWritesMiss

-----------------------------------------------------------------------------
(* A booking that nobody dispatches *)

(* The booking is pending dispatch, no offer is open or over, and nothing    *)
(* under way is a dispatch, an answer or a sweep.                            *)
Stranded ==
  /\ status = "pending_dispatch"
  /\ \A f \in FOs : ~Open(f) /\ ~Over(f)
  /\ \A p \in Processes : proc[p].stage \in {"idle", "manual", "overwrite", "return"}

(* Somebody assigns or cancels it, or an FO declines an offer that it has    *)
(* not yet been made.                                                        *)
SomebodyActs ==
  \/ \E p \in Requests : ManualWrite(p) \/ \E f \in FOs : BeginDecline(p, f)
  \/ \E f \in FOs : Assign(f)
  \/ Cancel

(* A step of a call of an admin, or one that begins it, keeps the places of  *)
(* the calls.                                                                *)
LEMMA KeepsStranded ==
  ASSUME DispatchTypeOK, Stranded, NEW p \in Processes, status' = status, offer' = offer,
         \A q \in Processes \ {p} : proc'[q] = proc[q],
         proc'[p].stage \in {"idle", "manual", "overwrite", "return"}
  PROVE  Stranded'
  BY DEF Stranded, Open, Over, Standing

(* Nothing else ends that: no sweep, no cache entry that lapses, no lock     *)
(* that is released and no admin who returns the booking to the queue.       *)
StrandedStays == [][Stranded => Stranded' \/ SomebodyActs]_vars

(* The counterexample of BookingsAreRedispatched ends in such a state; for   *)
(* any FOs, rounds and calls there is no way out of it but a person's.       *)
THEOREM StrandedBookingsStay == Spec => StrandedStays
<1>1. ASSUME IInv, [Next]_vars, Stranded, ~SomebodyActs PROVE Stranded'
  <2>1. DispatchTypeOK
    BY <1>1 DEF IInv
  <2>2. proc \in [Processes -> ProcState]
    BY <2>1 DEF DispatchTypeOK, ProcState
  <2>3. \A p \in Processes : proc[p].stage \in {"idle", "manual", "overwrite", "return"}
    BY <1>1 DEF Stranded
  <2> DEFINE Quiet(p) == /\ status' = status /\ offer' = offer
                         /\ \A q \in Processes \ {p} : proc'[q] = proc[q]
                         /\ proc'[p].stage \in {"idle", "manual", "overwrite", "return"}
  <2>4. ASSUME NEW p \in Requests, Begin(p) \/ CallFails(p) PROVE Quiet(p)
    <3> p \in Processes
      BY DEF Processes
    <3>1. CASE Schedule(p) \/ BeginRequeue(p)
      BY <1>1, <3>1 DEF Stranded, Schedule, BeginRequeue
    <3>2. CASE BeginReturn(p)
      BY <2>2, <3>2 DEF BeginReturn, Become
    <3>3. ASSUME NEW f \in FOs, BeginAccept(p, f) \/ BeginDecline(p, f) PROVE FALSE
      BY <1>1, <3>3 DEF Stranded, BeginAccept, SomebodyActs
    <3>4. ASSUME NEW f \in FOs, BeginManual(p, f) PROVE Quiet(p)
      BY <2>2, <3>4 DEF BeginManual, Become
    <3>5. CASE CallFails(p)
      BY <2>2, <3>5 DEF CallFails, Finish, Become, Idle
    <3>6. QED BY <2>4, <3>1, <3>2, <3>3, <3>4, <3>5 DEF Begin
  <2>5. ~BeginSweep
    BY <1>1 DEF BeginSweep, Stranded
  <2>6. ASSUME NEW p \in Processes, Step(p) \/ DispatchFail(p) PROVE Quiet(p)
    <3>1. ~DispatchStep(p) /\ ~AnswerStep(p) /\ ~DispatchFail(p)
      <4>1. ~\E f \in FOs : DispatchCreate(p, f)
        BY <2>3 DEF DispatchCreate, At
      <4>2. ~DispatchCore(p)
        <5>1. DispatchCore(p) => proc[p].stage = "core"
          BY Zenon DEF DispatchCore, At
        <5>2. QED BY <2>3, <5>1
      <4>3. ~DispatchStep(p) /\ ~DispatchFail(p)
        BY <2>3, <4>1, <4>2 DEF DispatchStep, DispatchGate, DispatchLock, DispatchMark,
             DispatchRelease, DispatchFail, At
      <4>4. ~AcceptLapsed(p) /\ ~AcceptRecheck(p) /\ ~AcceptCommit(p)
        BY <2>3 DEF AcceptLapsed, AcceptRecheck, AcceptCommit, At
      <4>5. ~DeclineReject(p) /\ ~DeclineCount(p) /\ ~Reopen(p) /\ ~Requeue(p)
        BY <2>3 DEF DeclineReject, DeclineCount, Reopen, Requeue, At
      <4>6. QED BY <4>3, <4>4, <4>5 DEF AnswerStep
    <3>2. ~(p = Sweeper /\ SweepStep)
      <4>1. ASSUME NEW f \in FOs, p = Sweeper, SweepExpire(f) PROVE FALSE
        <5>1. proc[p].stage = "expire"
          BY <4>1, Zenon DEF SweepExpire, At
        <5>2. QED BY <2>3, <5>1
      <4>2. p = Sweeper => ~SweepActivate /\ ~SweepCheck
        BY <2>3 DEF SweepActivate, SweepCheck, At
      <4>3. QED BY <4>1, <4>2 DEF SweepStep
    <3>3. CASE ManualRecheck(p)
      <4>1. proc[p] \in Answering
        BY <2>1, <3>3, StageTells DEF ManualRecheck, At
      <4>2. CASE Goto(p, "overwrite")
        BY <2>2, <3>3, <4>1, <4>2 DEF ManualRecheck, Goto, Answering
      <4>3. CASE Finish(p)
        BY <2>2, <3>3, <4>3 DEF ManualRecheck, Finish, Become, Idle
      <4>4. QED BY <3>3, <4>2, <4>3 DEF ManualRecheck
    <3>4. CASE ReturnToQueue(p)
      BY <1>1, <2>2, <3>4 DEF ReturnToQueue, Stranded, Finish, Become, Idle
    <3>5. CASE ManualWrite(p)
      <4>1. p \in Requests
        BY <1>1, <3>5 DEF IInv, SweepOnlySweeps, ManualWrite, At, Processes
      <4>2. QED BY <1>1, <3>5, <4>1 DEF SomebodyActs
    <3>6. QED BY <2>6, <3>1, <3>2, <3>3, <3>4, <3>5 DEF Step, AdminStep
  <2>7. ~Lifecycle
    BY <1>1 DEF Lifecycle, Start, Complete, Reassign, Transition, Stranded, SomebodyActs
  <2>8. ASSUME NEW f \in FOs, OfferLapses(f) PROVE FALSE
    BY <1>1, <2>8 DEF OfferLapses, Stranded
  <2>9. CASE ReleaseLock \/ CacheLapses \/ UNCHANGED vars
    BY <1>1, <2>9 DEF ReleaseLock, CacheLapses, vars, Stranded, Open, Over, Standing
  <2>10. CASE Crash
    BY <1>1, <2>10 DEF Crash, Stranded, Open, Over, Standing, Idle
  <2>11. ASSUME NEW p \in Processes, Quiet(p) PROVE Stranded'
    BY <1>1, <2>1, <2>11, KeepsStranded
  <2>12. Requests \subseteq Processes
    BY DEF Processes
  <2> HIDE DEF Quiet
  <2>13. QED
    BY <1>1, <2>4, <2>5, <2>6, <2>7, <2>8, <2>9, <2>10, <2>11, <2>12 DEF Next
<1>2. IInv /\ [Next]_vars => [Stranded => Stranded' \/ SomebodyActs]_vars
  BY <1>1
<1>3. QED BY <1>2, IInvHolds, PTL DEF Spec, StrandedStays
=============================================================================
