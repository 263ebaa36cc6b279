------------------------------ MODULE Refunds ------------------------------
(***************************************************************************)
(* Refund intents of one booking.  An admin records an intent              *)
(* (billing.refunds.controller.ts), which somebody executes later: a       *)
(* worker of the refunds queue (refunds.queue.processor.ts), a pass of the *)
(* cron (refunds.cron.service.ts) or a pass that an admin starts           *)
(* (refunds.reconcile.controller.ts).  They do the same thing, one         *)
(* statement after the other: mark the intent executing, look at the       *)
(* payment, ask Stripe for a refund with the idempotency key of the        *)
(* intent, mark it executed.  None of the writes is guarded.  A failed     *)
(* intent can be put back by an admin (refund-intent.admin.controller.ts). *)
(*                                                                         *)
(* Stripe remembers a key for a day at least, which is longer than any     *)
(* call here runs and any job is repeated; after that the same key makes   *)
(* another refund.                                                         *)
(***************************************************************************)
EXTENDS Integers, FiniteSets

CONSTANTS
  Intents,     \* refund intents, one for each idempotency key of an admin
  NoIntent,
  Workers,     \* jobs that the queue runs at the same time
  Passes,      \* passes of cron or admins that run at the same time
  Admins,      \* calls that create or retry intents at the same time
  Amounts,     \* amounts that admins may ask for with an intent; Full is the rest of the charge
  Charge,      \* what the customer has paid
  Batch,       \* intents that a pass takes
  Attempts,    \* attempts of a job
  MaxRetries,  \* bounds on the retries of an intent
  MaxFaults    \* bound on failed calls

Full == 0

ASSUME RefundsAssumption ==
  /\ IsFiniteSet(Intents) /\ NoIntent \notin Intents
  /\ Amounts \in [Intents -> SUBSET Nat]
  /\ Charge \in Nat \ {0} /\ Batch \in Nat \ {0} /\ Attempts \in Nat \ {0}
  /\ MaxRetries \in [Intents -> Nat] /\ MaxFaults \in Nat
  /\ Workers \cap Passes = {} /\ Workers \cap Admins = {} /\ Passes \cap Admins = {}

Callers == Workers \cup Passes \cup Admins

VARIABLES
  intent,      \* rows of RefundIntent
  retries,     \* how often an intent has been retried
  jobs,        \* attempts left of each job
  paid,        \* the payment intent has succeeded
  made,        \* refunds that Stripe has made for an intent
  known,       \* intents whose idempotency key Stripe remembers
  returned,    \* money that Stripe has given back
  run,         \* where each caller is between two statements
  faults,
  dropped,     \* history: intents that a caller had in hand when it failed
  overlapped,  \* history: intents that two callers had in hand at once
  lapsed       \* history: intents whose key Stripe has forgotten

vars == <<intent, retries, jobs, paid, made, known, returned, run, faults,
          dropped, overlapped, lapsed>>
stripe == <<paid, made, known, returned>>

(* The abstract life of an intent that this module implements: a refund is   *)
(* given when Stripe makes it, and done when the row says so.                *)
LifeOf(i) ==
  CASE i \in overlapped -> "contested"
    [] i \notin overlapped /\ made[i] > 0 ->
         IF intent[i].status = "executed" THEN "done" ELSE "given"
    [] OTHER ->
         IF intent[i].status \in {"none", "failed"} THEN intent[i].status ELSE "waiting"

Life == INSTANCE RefundLife WITH life <- [i \in Intents |-> LifeOf(i)], refunds <- made

-----------------------------------------------------------------------------
Statuses == {"none", "pending_execution", "executing", "executed", "failed"}

(* refund is stripeRefundId, born the rank of createdAt; 0 stands for null *)
Row == [status : Statuses, asked : Nat, refund : Nat, born : Nat]
NewRow == [status |-> "none", asked |-> Full, refund |-> 0, born |-> 0]

(* An intent has a job for the first time it is queued, and one for each retry. *)
Jobs == UNION { {i} \X (0 .. MaxRetries[i]) : i \in Intents }
NoJob == <<NoIntent, 0>>

Stages == {"idle", "mark", "look", "fail", "call", "record", "enqueue", "retry"}
Run == [stage : Stages, todo : SUBSET Intents, at : Intents \cup {NoIntent},
        job : Jobs \cup {NoJob}]
Idle == [stage |-> "idle", todo |-> {}, at |-> NoIntent, job |-> NoJob]

(* Intents that a caller has read and may yet write: an admin that is about *)
(* to queue an intent writes it no more.                                    *)
InHand(c) ==
  IF run[c].stage = "enqueue" THEN {} ELSE run[c].todo \cup ({run[c].at} \ {NoIntent})

InHands == UNION { InHand(c) : c \in Callers }

Waiting(i) == intent[i].status = "pending_execution"
Before(i, j) == intent[i].born < intent[j].born

(* Fault: the pass also takes up the executing intents that somebody has left. *)
FaultTakenStuck(S) ==
  LET Open(i) == intent[i].status \in {"pending_execution", "executing"} IN
  /\ S # {}
  /\ \A i \in S : Open(i)
  /\ \A i \in S, j \in Intents \ S : Open(j) => Before(i, j)
  /\ Cardinality(S) <= Batch
  /\ Cardinality(S) < Batch => \A i \in Intents : Open(i) => i \in S

(* findMany: status pending_execution, orderBy createdAt, take Batch *)
Taken(S) ==
  /\ S # {}
  /\ \A i \in S : Waiting(i)
  /\ \A i \in S, j \in Intents \ S : Waiting(j) => Before(i, j)
  /\ Cardinality(S) <= Batch
  /\ Cardinality(S) < Batch => \A i \in Intents : Waiting(i) => i \in S

Init ==
  /\ intent = [i \in Intents |-> NewRow]
  /\ retries = [i \in Intents |-> 0]
  /\ jobs = [k \in Jobs |-> 0]
  /\ paid = FALSE
  /\ made = [i \in Intents |-> 0]
  /\ known = {}
  /\ returned = 0
  /\ run = [c \in Callers |-> Idle]
  /\ faults = 0
  /\ dropped = {} /\ overlapped = {} /\ lapsed = {}

-----------------------------------------------------------------------------
(* Callers *)

(* A caller reads intents that it is going to write. *)
Take(c, r) ==
  /\ run[c] = Idle
  /\ run' = [run EXCEPT ![c] = r]
  /\ overlapped' = overlapped \cup ((r.todo \cup {r.at}) \cap InHands)
  /\ UNCHANGED <<dropped, lapsed, faults>>

Goto(c, s) == run' = [run EXCEPT ![c].stage = s]

(* The caller is through with its present intent, and a worker with its job. *)
Done(c) ==
  /\ run' = [run EXCEPT ![c] = IF run[c].todo = {} THEN Idle
                               ELSE [run[c] EXCEPT !.stage = "mark", !.at = NoIntent]]
  /\ jobs' = [k \in Jobs |-> IF k = run[c].job THEN 0 ELSE jobs[k]]

SetStatus(i, s) == intent' = [intent EXCEPT ![i].status = s]

Quiet == UNCHANGED <<faults, dropped, overlapped, lapsed>>

(* createRefundIntent: the row, then the job.  The same key again finds    *)
(* the row and does not queue.                                             *)
CreateRefundIntent(c, i, a) ==
  /\ run[c] = Idle
  /\ intent[i].status = "none"
  /\ intent' = [intent EXCEPT ![i] =
       [status |-> "pending_execution", asked |-> a, refund |-> 0,
        born |-> Cardinality({ j \in Intents : intent[j].status # "none" }) + 1]]
  /\ run' = [run EXCEPT ![c] = [Idle EXCEPT !.stage = "enqueue", !.at = i]]
  /\ UNCHANGED <<retries, jobs, stripe>> /\ Quiet

Enqueue(c) ==
  /\ run[c].stage = "enqueue"
  /\ LET i == run[c].at IN jobs' = [jobs EXCEPT ![<<i, retries[i]>>] = Attempts]
  /\ run' = [run EXCEPT ![c] = Idle]
  /\ UNCHANGED <<intent, retries, stripe>> /\ Quiet

(* Without Redis there is no queue. *)
NoQueue(c) ==
  /\ run[c].stage = "enqueue"
  /\ run' = [run EXCEPT ![c] = Idle]
  /\ UNCHANGED <<intent, retries, jobs, stripe>> /\ Quiet

(* Fault: an intent that is stuck can be retried, too. *)
FaultBeginRetryStuck(c, i) ==
  /\ intent[i].status \in {"failed", "executing"}
  /\ retries[i] < MaxRetries[i]
  /\ Take(c, [Idle EXCEPT !.stage = "retry", !.at = i])
  /\ UNCHANGED <<intent, retries, jobs, stripe>>

(* retry: the status is read here and written in CommitRetry. *)
BeginRetry(c, i) ==
  /\ intent[i].status = "failed"
  /\ retries[i] < MaxRetries[i]
  /\ Take(c, [Idle EXCEPT !.stage = "retry", !.at = i])
  /\ UNCHANGED <<intent, retries, jobs, stripe>>

CommitRetry(c) ==
  /\ run[c].stage = "retry"
  /\ LET i == run[c].at IN
       /\ retries[i] < MaxRetries[i]
       /\ intent' = [intent EXCEPT ![i].status = "pending_execution", ![i].refund = 0]
       /\ retries' = [retries EXCEPT ![i] = @ + 1]
  /\ Goto(c, "enqueue")
  /\ UNCHANGED <<jobs, stripe>> /\ Quiet

-----------------------------------------------------------------------------
(* Execution *)

(* executeIntentById, an attempt of a job: an executed intent is left alone. *)
BeginJob(w, k) ==
  /\ jobs[k] > 0
  /\ \A v \in Workers : run[v].job # k
  /\ IF intent[k[1]].status = "executed"
     THEN /\ run[w] = Idle
          /\ jobs' = [jobs EXCEPT ![k] = 0]
          /\ UNCHANGED run /\ Quiet
     ELSE /\ jobs' = [jobs EXCEPT ![k] = @ - 1]
          /\ Take(w, [stage |-> "mark", todo |-> {k[1]}, at |-> NoIntent, job |-> k])
  /\ UNCHANGED <<intent, retries, stripe>>

(* runOnce: a list of intents, which are not looked at again when their    *)
(* turn comes.                                                             *)
BeginPass(p, S) ==
  /\ Taken(S)
  /\ Take(p, [Idle EXCEPT !.stage = "mark", !.todo = S])
  /\ UNCHANGED <<intent, retries, jobs, stripe>>

Mark(c, i) ==
  /\ run[c].stage = "mark"
  /\ i \in run[c].todo
  /\ \A j \in run[c].todo \ {i} : Before(i, j)
  /\ SetStatus(i, "executing")
  /\ run' = [run EXCEPT ![c].stage = "look", ![c].todo = @ \ {i}, ![c].at = i]
  /\ UNCHANGED <<retries, jobs, stripe>> /\ Quiet

Look(c) ==
  /\ run[c].stage = "look"
  /\ Goto(c, IF paid THEN "call" ELSE "fail")
  /\ UNCHANGED <<intent, retries, jobs, stripe>> /\ Quiet

(* Fault: the payment is missing, and the caller returns without a word. *)
FaultFailSilent(c) ==
  /\ run[c].stage = "fail"
  /\ Done(c)
  /\ UNCHANGED <<intent, retries, stripe>> /\ Quiet

(* Fault: Stripe's status of the payment gets into the column. *)
FaultFailStripeStatus(c) ==
  /\ run[c].stage = "fail"
  /\ SetStatus(run[c].at, "requires_payment_method")
  /\ Done(c)
  /\ UNCHANGED <<retries, stripe>> /\ Quiet

Fail(c) ==
  /\ run[c].stage = "fail"
  /\ SetStatus(run[c].at, "failed")
  /\ Done(c)
  /\ UNCHANGED <<retries, stripe>> /\ Quiet

(* What Stripe gives back for an intent, if it does. *)
Refunded(i) == IF intent[i].asked = Full THEN Charge - returned ELSE intent[i].asked
Accepts(i) == Refunded(i) > 0 /\ returned + Refunded(i) <= Charge

Call(c) ==
  /\ run[c].stage = "call"
  /\ LET i == run[c].at IN
       \/ /\ i \in known
          /\ UNCHANGED stripe
       \/ /\ i \notin known /\ Accepts(i)
          /\ made' = [made EXCEPT ![i] = @ + 1]
          /\ known' = known \cup {i}
          /\ returned' = returned + Refunded(i)
          /\ UNCHANGED paid
  /\ Goto(c, "record")
  /\ UNCHANGED <<intent, retries, jobs>> /\ Quiet

Record(c) ==
  /\ run[c].stage = "record"
  /\ LET i == run[c].at IN
       intent' = [intent EXCEPT ![i].status = "executed", ![i].refund = made[i]]
  /\ Done(c)
  /\ UNCHANGED <<retries, stripe>> /\ Quiet

(* Fault: whoever catches an exception takes it that no refund was made. *)
FaultThrowsFailed(c) ==
  /\ intent' = [i \in Intents |->
       IF i = run[c].at THEN [intent[i] EXCEPT !.status = "failed"] ELSE intent[i]]
  /\ run' = [run EXCEPT ![c] = Idle]
  /\ dropped' = dropped \cup ({run[c].at} \cap InHand(c))
  /\ UNCHANGED <<retries, jobs, stripe, overlapped, lapsed>>

(* An exception ends a pass, and an attempt of a job. *)
Throws(c) ==
  /\ run' = [run EXCEPT ![c] = Idle]
  /\ dropped' = dropped \cup ({run[c].at} \cap InHand(c))
  /\ UNCHANGED <<intent, retries, jobs, stripe, overlapped, lapsed>>

(* Stripe refuses more than what is left of the charge. *)
Refused(c) ==
  /\ run[c].stage = "call"
  /\ run[c].at \notin known /\ ~Accepts(run[c].at)
  /\ Throws(c)
  /\ UNCHANGED faults

-----------------------------------------------------------------------------
(* The world *)

CustomerPays ==
  /\ ~paid /\ paid' = TRUE
  /\ UNCHANGED <<intent, retries, jobs, made, known, returned, run>> /\ Quiet

CallFails(c) ==
  /\ run[c] # Idle
  /\ faults < MaxFaults /\ faults' = faults + 1
  /\ Throws(c)

(* Nobody has an intent in hand, and none of its jobs will be repeated. *)
AtRest(i) ==
  /\ \A c \in Callers : i # run[c].at /\ i \notin run[c].todo
  /\ \A k \in Jobs : k[1] = i => jobs[k] = 0

KeyLapses(i) ==
  /\ i \in known /\ AtRest(i)
  /\ known' = known \ {i}
  /\ lapsed' = lapsed \cup {i}
  /\ UNCHANGED <<intent, retries, jobs, paid, made, returned, run, faults, dropped, overlapped>>

-----------------------------------------------------------------------------
Step(c) ==
  \/ \E i \in Intents : Mark(c, i)
  \/ Look(c) \/ Fail(c) \/ Call(c) \/ Record(c) \/ Refused(c)

Pass(p) == (\E S \in SUBSET Intents : BeginPass(p, S)) \/ Step(p)

Job(w) == (\E k \in Jobs : BeginJob(w, k)) \/ Step(w)

Admin(c) ==
  \/ \E i \in Intents : \E a \in Amounts[i] : CreateRefundIntent(c, i, a)
  \/ \E i \in Intents : BeginRetry(c, i)
  \/ CommitRetry(c) \/ Enqueue(c) \/ NoQueue(c)

World ==
  \/ CustomerPays
  \/ \E c \in Callers : CallFails(c)
  \/ \E i \in Intents : KeyLapses(i)

Next ==
  \/ \E p \in Passes : Pass(p)
  \/ \E w \in Workers : Job(w)
  \/ \E c \in Admins : Admin(c)
  \/ World

Spec == Init /\ [][Next]_vars

(* The cron starts a pass every five minutes, where it is enabled. *)
FairSpec == Spec /\ \A p \in Passes : WF_vars(Pass(p))

-----------------------------------------------------------------------------
(* Properties *)

RefundsTypeOK ==
  /\ intent \in [Intents -> Row]
  /\ retries \in [Intents -> Nat] /\ \A i \in Intents : retries[i] <= MaxRetries[i]
  /\ jobs \in [Jobs -> 0 .. Attempts]
  /\ paid \in BOOLEAN
  /\ made \in [Intents -> Nat]
  /\ known \subseteq Intents
  /\ returned \in Nat
  /\ run \in [Callers -> Run]
  /\ faults \in 0 .. MaxFaults
  /\ dropped \subseteq Intents /\ overlapped \subseteq Intents /\ lapsed \subseteq Intents

(* Stripe refunds an intent once, whoever executes it, however often, and  *)
(* wherever they fail: only when two callers had it in hand at the same    *)
(* time and its key has been forgotten since can there be a second refund. *)
RefundedOnce ==
  \A i \in Intents : made[i] > 1 => i \in overlapped /\ i \in lapsed

(* An executed intent names a refund that Stripe has made for it, and one  *)
(* that has failed has none, unless two callers had it in hand.  An admin  *)
(* who retries a failed intent relies on it.                               *)
StatusIsTrue ==
  \A i \in Intents :
    /\ intent[i].status = "executed" => intent[i].refund \in 1 .. made[i]
    /\ intent[i].status = "failed" /\ made[i] > 0 => i \in overlapped

(* An intent is left executing by nobody but a caller that has failed with *)
(* it in hand: no pass looks for executing intents, and only failed ones   *)
(* can be retried.                                                         *)
ExecutingHasARun ==
  \A i \in Intents :
    intent[i].status = "executing" => i \in InHands \/ i \in dropped

(* Workers, passes and admins implement RefundLife: wherever they fail, an *)
(* intent that one of them at a time has in hand is refunded once, only    *)
(* while it waits, and then neither refused, retried nor executed again.   *)
ImplementsLife == Life!LifeSpec

(* A pending intent is taken in the end, also when its job was never       *)
(* queued, or other intents are refused by Stripe again and again.         *)
PendingIsTaken == \A i \in Intents : Waiting(i) ~> ~Waiting(i)

=============================================================================
