--------------------------- MODULE RefundsProofs ---------------------------
(***************************************************************************)
(* Proofs about Refunds, for any intents, workers, passes and admins.      *)
(*                                                                         *)
(* The argument: two callers that have one intent in hand are noted in     *)
(* overlapped when the second one takes it.  As long as an intent is not   *)
(* there, its one caller is the only one that writes it, so that an intent *)
(* with a refund is executing or executed, and at rest by the time its key *)
(* is forgotten.  Nobody takes it up again then: passes look for pending   *)
(* intents, retries for failed ones, and no job is left.                   *)
(***************************************************************************)
EXTENDS Refunds, FiniteSetTheorems, TLAPS

Busy == {"look", "fail", "call", "record"}

(* What a caller's place says of its record. *)
Shape ==
  \A c \in Callers :
    /\ run[c].stage \in {"idle", "mark"} => run[c].at = NoIntent
    /\ run[c].stage \notin {"idle", "mark"} => run[c].at \in Intents

(* A refund takes a payment. *)
PaidFirst ==
  /\ \A i \in Intents : made[i] > 0 => paid
  /\ \A c \in Callers : run[c].stage \in {"call", "record"} => paid
  /\ \A c \in Callers : run[c].stage = "record" => made[run[c].at] > 0

(* Stripe remembers the key of a refund, or has forgotten it. *)
KeysKnown ==
  /\ \A i \in known : made[i] > 0
  /\ \A i \in Intents : made[i] > 0 => i \in known \cup lapsed

OneHand ==
  \A c, d \in Callers : c # d => InHand(c) \cap InHand(d) \subseteq overlapped

(* The one caller of an intent has marked it. *)
Marked ==
  \A c \in Callers :
    run[c].stage \in Busy /\ run[c].at \notin overlapped
      => intent[run[c].at].status = "executing"

(* An intent that has a refund and had one caller at a time. *)
Lone ==
  \A i \in Intents \ overlapped :
    made[i] > 0 =>
      /\ intent[i].status \in {"executing", "executed"}
      /\ \A c \in Callers : run[c].at = i => run[c].stage \notin {"fail", "retry"}
      /\ i \notin known => AtRest(i)

ExecutedNamesRefund ==
  \A i \in Intents : intent[i].status = "executed" => intent[i].refund \in 1 .. made[i]

(* Executing intents are at hand, not just on somebody's list. *)
ExecutingAtHand ==
  \A i \in Intents :
    intent[i].status = "executing" =>
      i \in dropped \/ \E c \in Callers : run[c].stage \in Busy /\ run[c].at = i

IInv ==
  /\ RefundsTypeOK /\ Shape /\ PaidFirst /\ KeysKnown /\ OneHand /\ Marked /\ Lone
  /\ RefundedOnce /\ ExecutedNamesRefund /\ ExecutingAtHand

-----------------------------------------------------------------------------

(* The disjuncts of Next. *)
LEMMA StepKinds ==
  ASSUME Next, RefundsTypeOK
  PROVE
    \/ \E p \in Passes, S \in SUBSET Intents : BeginPass(p, S)
    \/ \E w \in Workers, k \in Jobs : BeginJob(w, k)
    \/ \E c \in Callers, i \in Intents : Mark(c, i)
    \/ \E c \in Callers : Look(c)
    \/ \E c \in Callers : Fail(c)
    \/ \E c \in Callers : Call(c)
    \/ \E c \in Callers : Record(c)
    \/ \E c \in Callers : Refused(c)
    \/ \E c \in Admins, i \in Intents, a \in Nat : CreateRefundIntent(c, i, a)
    \/ \E c \in Admins, i \in Intents : BeginRetry(c, i)
    \/ \E c \in Admins : CommitRetry(c)
    \/ \E c \in Admins : Enqueue(c)
    \/ \E c \in Admins : NoQueue(c)
    \/ CustomerPays
    \/ \E c \in Callers : CallFails(c)
    \/ \E i \in Intents : KeyLapses(i)
<1>1. \A i \in Intents : Amounts[i] \subseteq Nat
  BY RefundsAssumption
<1> QED
  BY <1>1 DEF Next, Pass, Job, Admin, World, Step, Callers

(* Only intents are in hand. *)
LEMMA HandsTyped ==
  ASSUME RefundsTypeOK, Shape
  PROVE  /\ \A c \in Callers : InHand(c) \subseteq Intents
         /\ InHands \subseteq Intents
<1>1. ASSUME NEW c \in Callers PROVE InHand(c) \subseteq Intents
  BY <1>1 DEF RefundsTypeOK, Run, InHand
<1> QED BY <1>1 DEF InHands

(* A record of run with another place, intent or list is one. *)
LEMMA RunsTyped ==
  ASSUME RefundsTypeOK, NEW c \in Callers
  PROVE  /\ run[c] \in Run
         /\ Idle \in Run
         /\ [run[c] EXCEPT !.stage = "mark", !.at = NoIntent] \in Run
         /\ \A r \in Run : [run EXCEPT ![c] = r] \in [Callers -> Run]
BY DEF RefundsTypeOK, Run, Idle, Stages

(* Ranks of createdAt are numbers. *)
LEMMA RanksTyped ==
  Cardinality({ j \in Intents : intent[j].status # "none" }) + 1 \in Nat
<1>1. IsFiniteSet({ j \in Intents : intent[j].status # "none" })
  BY FS_Subset, RefundsAssumption
<1> QED BY <1>1, FS_CardinalityType

LEMMA BeginPassKeeps ==
  ASSUME IInv, NEW p \in Passes, NEW S \in SUBSET Intents, BeginPass(p, S)
  PROVE  IInv'
<1> USE DEF IInv, Callers, stripe, Quiet, BeginPass, Take, Idle
<1>1. RefundsTypeOK'
  <2>1. intent' \in [Intents -> Row]
    BY RefundsAssumption DEF RefundsTypeOK, Row, Run, Shape, Statuses, Stages
  <2>2. run' \in [Callers -> Run]
    BY RunsTyped, RefundsAssumption DEF RefundsTypeOK, Run, Stages, Jobs, NoJob, Idle
  <2>3. jobs' \in [Jobs -> 0 .. Attempts]
    BY RefundsAssumption DEF RefundsTypeOK, Run
  <2>4. /\ dropped' \subseteq Intents /\ overlapped' \subseteq Intents
        /\ lapsed' \subseteq Intents
    BY HandsTyped DEF RefundsTypeOK
  <2>5. /\ made' \in [Intents -> Nat] /\ known' \subseteq Intents
        /\ returned' \in Nat /\ paid' \in BOOLEAN
    BY DEF RefundsTypeOK
  <2>6. retries' \in [Intents -> Nat] /\ \A j \in Intents : retries'[j] <= MaxRetries[j]
    BY RefundsAssumption DEF RefundsTypeOK
  <2>7. faults' \in 0 .. MaxFaults
    BY RefundsAssumption DEF RefundsTypeOK
  <2> QED BY <2>1, <2>2, <2>3, <2>4, <2>5, <2>6, <2>7 DEF RefundsTypeOK
<1>2. Shape'
  BY RefundsAssumption DEF RefundsTypeOK, Run, Shape, Idle, InHands
<1>3. PaidFirst'
  BY RefundsAssumption DEF RefundsTypeOK, Run, Shape, PaidFirst, Idle, InHands
<1>4. KeysKnown'
  BY RefundsAssumption DEF RefundsTypeOK, KeysKnown, InHands
<1>5. OneHand'
  BY RefundsAssumption DEF RefundsTypeOK, Run, Shape, OneHand, InHand, Idle, InHands
<1>6. Marked'
  BY RefundsAssumption DEF RefundsTypeOK, Run, Row, Shape, OneHand, InHand, Marked,
     Busy, Idle, InHands
<1>7. Lone'
  <2>1. \A i \in S : intent[i].status = "pending_execution"
    BY DEF Taken, Waiting
  <2>2. ASSUME NEW d \in Callers PROVE run'[d].at = run[d].at
    BY <2>2 DEF RefundsTypeOK, Idle
  <2>3. ASSUME NEW d \in Callers, NEW i \in Intents, i \in run'[d].todo
        PROVE  i \in run[d].todo \/ i \in S
    BY <2>3 DEF RefundsTypeOK, Idle
  <2>4. ASSUME NEW d \in Callers, run'[d].at \in Intents
        PROVE  run'[d].stage = run[d].stage
    BY <2>4, RefundsAssumption DEF RefundsTypeOK, Idle
  <2> QED BY <2>1, <2>2, <2>3, <2>4 DEF Lone, AtRest
<1>8. RefundedOnce'
  BY RefundsAssumption DEF RefundsTypeOK, KeysKnown, Lone, AtRest, RefundedOnce, InHands
<1>9. ExecutedNamesRefund'
  BY RefundsAssumption DEF RefundsTypeOK, Row, PaidFirst, ExecutedNamesRefund, InHands
<1>10. ExecutingAtHand'
  BY RefundsAssumption DEF RefundsTypeOK, Run, Row, Shape, ExecutingAtHand, Busy,
     InHand, Idle, InHands
<1> QED BY <1>1, <1>2, <1>3, <1>4, <1>5, <1>6, <1>7, <1>8, <1>9, <1>10

LEMMA BeginJobKeeps ==
  ASSUME IInv, NEW w \in Workers, NEW k \in Jobs, BeginJob(w, k)
  PROVE  IInv'
<1> USE DEF IInv, Callers, stripe, Quiet, BeginJob, Take, Idle, Jobs
<1>1. RefundsTypeOK'
  <2>1. intent' \in [Intents -> Row]
    BY RefundsAssumption DEF RefundsTypeOK, Row, Run, Shape, Statuses, Stages
  <2>2. run' \in [Callers -> Run]
    <3>1. k[1] \in Intents
      BY DEF Jobs
    <3>2. [stage |-> "mark", todo |-> {k[1]}, at |-> NoIntent, job |-> k] \in Run
      BY <3>1 DEF Run, Stages
    <3> QED BY <3>2, RunsTyped DEF RefundsTypeOK
  <2>3. jobs' \in [Jobs -> 0 .. Attempts]
    BY RefundsAssumption DEF RefundsTypeOK, Run
  <2>4. /\ dropped' \subseteq Intents /\ overlapped' \subseteq Intents
        /\ lapsed' \subseteq Intents
    BY HandsTyped DEF RefundsTypeOK
  <2>5. /\ made' \in [Intents -> Nat] /\ known' \subseteq Intents
        /\ returned' \in Nat /\ paid' \in BOOLEAN
    BY DEF RefundsTypeOK
  <2>6. retries' \in [Intents -> Nat] /\ \A j \in Intents : retries'[j] <= MaxRetries[j]
    BY RefundsAssumption DEF RefundsTypeOK
  <2>7. faults' \in 0 .. MaxFaults
    BY RefundsAssumption DEF RefundsTypeOK
  <2> QED BY <2>1, <2>2, <2>3, <2>4, <2>5, <2>6, <2>7 DEF RefundsTypeOK
<1>2. Shape'
  BY RefundsAssumption DEF RefundsTypeOK, Run, Shape, Idle, InHands
<1>3. PaidFirst'
  BY RefundsAssumption DEF RefundsTypeOK, Run, Shape, PaidFirst, Idle, InHands
<1>4. KeysKnown'
  BY RefundsAssumption DEF RefundsTypeOK, KeysKnown, InHands
<1>5. OneHand'
  BY RefundsAssumption DEF RefundsTypeOK, Run, Shape, OneHand, InHand, Idle, InHands
<1>6. Marked'
  BY RefundsAssumption DEF RefundsTypeOK, Run, Row, Shape, OneHand, InHand, Marked,
     Busy, Idle, InHands
<1>7. Lone'
  <2>1. ASSUME NEW d \in Callers PROVE run'[d].at = run[d].at
    BY <2>1 DEF RefundsTypeOK, Idle
  <2>2. ASSUME NEW d \in Callers, NEW i \in Intents, i \in run'[d].todo
        PROVE  i \in run[d].todo \/ i = k[1]
    BY <2>2 DEF RefundsTypeOK, Idle
  <2>3. ASSUME NEW d \in Callers, run'[d].at \in Intents
        PROVE  run'[d].stage = run[d].stage
    BY <2>3, RefundsAssumption DEF RefundsTypeOK, Idle
  <2>4. ASSUME NEW i \in Intents, AtRest(i) PROVE i # k[1]
    BY <2>4 DEF AtRest
  <2>5. ASSUME NEW j \in Jobs, jobs[j] = 0 PROVE jobs'[j] = 0
    BY <2>5 DEF RefundsTypeOK
  <2>6. ASSUME NEW i \in Intents, AtRest(i) PROVE AtRest(i)'
    BY <2>1, <2>2, <2>4, <2>5, <2>6 DEF AtRest
  <2>7. overlapped \subseteq overlapped'
    OBVIOUS
  <2> QED BY <2>1, <2>3, <2>6, <2>7 DEF Lone
<1>8. RefundedOnce'
  BY RefundsAssumption DEF RefundsTypeOK, KeysKnown, Lone, AtRest, RefundedOnce, InHands
<1>9. ExecutedNamesRefund'
  BY RefundsAssumption DEF RefundsTypeOK, Row, PaidFirst, ExecutedNamesRefund, InHands
<1>10. ExecutingAtHand'
  BY RefundsAssumption DEF RefundsTypeOK, Run, Row, Shape, ExecutingAtHand, Busy,
     InHand, Idle, InHands
<1> QED BY <1>1, <1>2, <1>3, <1>4, <1>5, <1>6, <1>7, <1>8, <1>9, <1>10

LEMMA MarkKeeps ==
  ASSUME IInv, NEW c \in Callers, NEW i \in Intents, Mark(c, i)
  PROVE  IInv'
<1> USE DEF IInv, Callers, stripe, Quiet, Mark, SetStatus
<1>1. RefundsTypeOK'
  <2>1. intent' \in [Intents -> Row]
    BY RefundsAssumption DEF RefundsTypeOK, Row, Run, Shape, Statuses, Stages
  <2>2. run' \in [Callers -> Run]
    BY RefundsAssumption DEF RefundsTypeOK, Run, Stages, Jobs, NoJob, Idle
  <2>3. jobs' \in [Jobs -> 0 .. Attempts]
    BY RefundsAssumption DEF RefundsTypeOK, Run
  <2> QED BY <2>1, <2>2, <2>3, RefundsAssumption DEF RefundsTypeOK, Run, Row
<1>2. Shape'
  BY RefundsAssumption DEF RefundsTypeOK, Run, Shape, Idle
<1>3. PaidFirst'
  BY RefundsAssumption DEF RefundsTypeOK, Run, Shape, PaidFirst, Idle
<1>4. KeysKnown'
  BY RefundsAssumption DEF RefundsTypeOK, KeysKnown
<1>5. OneHand'
  BY RefundsAssumption DEF RefundsTypeOK, Run, Shape, OneHand, InHand, Idle
<1>6. Marked'
  BY RefundsAssumption DEF RefundsTypeOK, Run, Row, Shape, OneHand, InHand, Marked,
     Busy, Idle
<1>7. Lone'
  BY RefundsAssumption DEF RefundsTypeOK, Run, Row, Shape, OneHand, InHand, Marked,
     PaidFirst, Lone, AtRest, Busy, Idle
<1>8. RefundedOnce'
  BY RefundsAssumption DEF RefundsTypeOK, KeysKnown, Lone, AtRest, RefundedOnce
<1>9. ExecutedNamesRefund'
  BY RefundsAssumption DEF RefundsTypeOK, Row, PaidFirst, ExecutedNamesRefund
<1>10. ExecutingAtHand'
  BY RefundsAssumption DEF RefundsTypeOK, Run, Row, Shape, ExecutingAtHand, Busy,
     InHand, Idle
<1> QED BY <1>1, <1>2, <1>3, <1>4, <1>5, <1>6, <1>7, <1>8, <1>9, <1>10

LEMMA LookKeeps ==
  ASSUME IInv, NEW c \in Callers, Look(c)
  PROVE  IInv'
<1> USE DEF IInv, Callers, stripe, Quiet, Look, Goto
<1>1. RefundsTypeOK'
  <2>1. intent' \in [Intents -> Row]
    BY RefundsAssumption DEF RefundsTypeOK, Row, Run, Shape, Statuses, Stages
  <2>2. run' \in [Callers -> Run]
    BY RefundsAssumption DEF RefundsTypeOK, Run, Stages, Jobs, NoJob, Idle
  <2>3. jobs' \in [Jobs -> 0 .. Attempts]
    BY RefundsAssumption DEF RefundsTypeOK, Run
  <2> QED BY <2>1, <2>2, <2>3, RefundsAssumption DEF RefundsTypeOK, Run, Row
<1>2. Shape'
  BY RefundsAssumption DEF RefundsTypeOK, Run, Shape, Idle
<1>3. PaidFirst'
  BY RefundsAssumption DEF RefundsTypeOK, Run, Shape, PaidFirst, Idle
<1>4. KeysKnown'
  BY RefundsAssumption DEF RefundsTypeOK, KeysKnown
<1>5. OneHand'
  BY RefundsAssumption DEF RefundsTypeOK, Run, Shape, OneHand, InHand, Idle
<1>6. Marked'
  BY RefundsAssumption DEF RefundsTypeOK, Run, Row, Shape, OneHand, InHand, Marked,
     Busy, Idle
<1>7. Lone'
  BY RefundsAssumption DEF RefundsTypeOK, Run, Row, Shape, OneHand, InHand, Marked,
     PaidFirst, Lone, AtRest, Busy, Idle
<1>8. RefundedOnce'
  BY RefundsAssumption DEF RefundsTypeOK, KeysKnown, Lone, AtRest, RefundedOnce
<1>9. ExecutedNamesRefund'
  BY RefundsAssumption DEF RefundsTypeOK, Row, PaidFirst, ExecutedNamesRefund
<1>10. ExecutingAtHand'
  BY RefundsAssumption DEF RefundsTypeOK, Run, Row, Shape, ExecutingAtHand, Busy,
     InHand, Idle
<1> QED BY <1>1, <1>2, <1>3, <1>4, <1>5, <1>6, <1>7, <1>8, <1>9, <1>10

LEMMA FailKeeps ==
  ASSUME IInv, NEW c \in Callers, Fail(c)
  PROVE  IInv'
<1> USE DEF IInv, Callers, stripe, Quiet, Fail, SetStatus, Done
<1>1. RefundsTypeOK'
  <2>1. intent' \in [Intents -> Row]
    BY RefundsAssumption DEF RefundsTypeOK, Row, Run, Shape, Statuses, Stages
  <2>2. run' \in [Callers -> Run]
    BY RunsTyped DEF RefundsTypeOK
  <2>3. jobs' \in [Jobs -> 0 .. Attempts]
    BY RefundsAssumption DEF RefundsTypeOK, Run
  <2>4. /\ dropped' \subseteq Intents /\ overlapped' \subseteq Intents
        /\ lapsed' \subseteq Intents
    BY HandsTyped DEF RefundsTypeOK
  <2>5. /\ made' \in [Intents -> Nat] /\ known' \subseteq Intents
        /\ returned' \in Nat /\ paid' \in BOOLEAN
    BY DEF RefundsTypeOK
  <2>6. retries' \in [Intents -> Nat] /\ \A j \in Intents : retries'[j] <= MaxRetries[j]
    BY RefundsAssumption DEF RefundsTypeOK
  <2>7. faults' \in 0 .. MaxFaults
    BY RefundsAssumption DEF RefundsTypeOK
  <2> QED BY <2>1, <2>2, <2>3, <2>4, <2>5, <2>6, <2>7 DEF RefundsTypeOK
<1>2. Shape'
  BY RefundsAssumption DEF RefundsTypeOK, Run, Shape, Idle
<1>3. PaidFirst'
  BY RefundsAssumption DEF RefundsTypeOK, Run, Shape, PaidFirst, Idle
<1>4. KeysKnown'
  BY RefundsAssumption DEF RefundsTypeOK, KeysKnown
<1>5. OneHand'
  BY RefundsAssumption DEF RefundsTypeOK, Run, Shape, OneHand, InHand, Idle
<1>6. Marked'
  BY RefundsAssumption DEF RefundsTypeOK, Run, Row, Shape, OneHand, InHand, Marked,
     Busy, Idle
<1>7. Lone'
  BY RefundsAssumption DEF RefundsTypeOK, Run, Row, Shape, OneHand, InHand, Marked,
     PaidFirst, Lone, AtRest, Busy, Idle
<1>8. RefundedOnce'
  BY RefundsAssumption DEF RefundsTypeOK, KeysKnown, Lone, AtRest, RefundedOnce
<1>9. ExecutedNamesRefund'
  BY RefundsAssumption DEF RefundsTypeOK, Row, PaidFirst, ExecutedNamesRefund
<1>10. ExecutingAtHand'
  BY RefundsAssumption DEF RefundsTypeOK, Run, Row, Shape, ExecutingAtHand, Busy,
     InHand, Idle
<1> QED BY <1>1, <1>2, <1>3, <1>4, <1>5, <1>6, <1>7, <1>8, <1>9, <1>10

(* After the call Stripe has a refund for the intent, and remembers its key. *)
LEMMA CallMakes ==
  ASSUME IInv, NEW c \in Callers, Call(c)
  PROVE  /\ made'[run[c].at] > 0
         /\ \A i \in Intents : made[i] > 0 => made'[i] > 0
         /\ KeysKnown'
<1> USE DEF IInv, stripe, Quiet, Call
<1>1. run[c].at \in Intents
  BY DEF Shape
<1>2. CASE run[c].at \in known /\ UNCHANGED stripe
  BY <1>1, <1>2 DEF KeysKnown, RefundsTypeOK
<1>3. CASE /\ made' = [made EXCEPT ![run[c].at] = @ + 1]
           /\ known' = known \cup {run[c].at}
  <2>1. made[run[c].at] \in Nat /\ made'[run[c].at] = made[run[c].at] + 1
    BY <1>1, <1>3 DEF RefundsTypeOK
  <2>2. \A i \in Intents : i # run[c].at => made'[i] = made[i]
    BY <1>3 DEF RefundsTypeOK
  <2>3. known \subseteq Intents /\ lapsed' = lapsed
    BY DEF RefundsTypeOK
  <2> QED BY <1>1, <1>3, <2>1, <2>2, <2>3 DEF KeysKnown
<1> QED BY <1>2, <1>3

LEMMA CallKeeps ==
  ASSUME IInv, NEW c \in Callers, Call(c)
  PROVE  IInv'
<1> USE DEF IInv, Callers, stripe, Quiet, Call, Goto
<1>1. RefundsTypeOK'
  <2>1. intent' \in [Intents -> Row]
    BY RefundsAssumption DEF RefundsTypeOK, Row, Run, Shape, Statuses, Stages
  <2>2. run' \in [Callers -> Run]
    BY RefundsAssumption DEF RefundsTypeOK, Run, Stages, Jobs, NoJob, Idle
  <2>3. jobs' \in [Jobs -> 0 .. Attempts]
    BY RefundsAssumption DEF RefundsTypeOK, Run
  <2>4. /\ dropped' \subseteq Intents /\ overlapped' \subseteq Intents
        /\ lapsed' \subseteq Intents
    BY HandsTyped DEF RefundsTypeOK
  <2>5. /\ made' \in [Intents -> Nat] /\ known' \subseteq Intents
        /\ returned' \in Nat /\ paid' \in BOOLEAN
    <3>1. run[c].at \in Intents
      BY DEF Shape
    <3>2. ASSUME run[c].at \notin known, Accepts(run[c].at)
          PROVE  Refunded(run[c].at) \in Nat
      BY <3>1, <3>2, RefundsAssumption DEF RefundsTypeOK, Row, Accepts, Refunded
    <3> QED BY <3>1, <3>2 DEF RefundsTypeOK
  <2>6. retries' \in [Intents -> Nat] /\ \A j \in Intents : retries'[j] <= MaxRetries[j]
    BY RefundsAssumption DEF RefundsTypeOK
  <2>7. faults' \in 0 .. MaxFaults
    BY RefundsAssumption DEF RefundsTypeOK
  <2> QED BY <2>1, <2>2, <2>3, <2>4, <2>5, <2>6, <2>7 DEF RefundsTypeOK
<1>2. Shape'
  BY RefundsAssumption DEF RefundsTypeOK, Run, Shape, Idle
<1>3. PaidFirst'
  <2>1. run[c].at \in Intents /\ paid
    BY DEF Shape, PaidFirst
  <2>2. made'[run[c].at] > 0 /\ \A i \in Intents : made[i] > 0 => made'[i] > 0
    BY CallMakes
  <2>4. \A d \in Callers : run'[d].at = run[d].at
     /\ (d # c => run'[d].stage = run[d].stage)
    BY DEF RefundsTypeOK, Run
  <2>5. \A d \in Callers : run'[d].stage = "record" => made'[run'[d].at] > 0
    BY <2>2, <2>4 DEF PaidFirst, Shape
  <2>6. paid'
    BY <2>1
  <2> QED BY <2>5, <2>6 DEF PaidFirst
<1>4. KeysKnown'
  BY CallMakes
<1>5. OneHand'
  BY RefundsAssumption DEF RefundsTypeOK, Run, Shape, OneHand, InHand, Idle
<1>6. Marked'
  BY RefundsAssumption DEF RefundsTypeOK, Run, Row, Shape, OneHand, InHand, Marked,
     Busy, Idle
<1>7. Lone'
  BY RefundsAssumption DEF RefundsTypeOK, Run, Row, Shape, OneHand, InHand, Marked,
     PaidFirst, Lone, AtRest, Busy, Idle
<1>8. RefundedOnce'
  BY RefundsAssumption DEF RefundsTypeOK, KeysKnown, Lone, AtRest, RefundedOnce
<1>9. ExecutedNamesRefund'
  BY RefundsAssumption DEF RefundsTypeOK, Row, PaidFirst, ExecutedNamesRefund
<1>10. ExecutingAtHand'
  BY RefundsAssumption DEF RefundsTypeOK, Run, Row, Shape, ExecutingAtHand, Busy,
     InHand, Idle
<1> QED BY <1>1, <1>2, <1>3, <1>4, <1>5, <1>6, <1>7, <1>8, <1>9, <1>10

LEMMA RecordKeeps ==
  ASSUME IInv, NEW c \in Callers, Record(c)
  PROVE  IInv'
<1> USE DEF IInv, Callers, stripe, Quiet, Record, Done
<1>1. RefundsTypeOK'
  <2>1. intent' \in [Intents -> Row]
    <3> DEFINE i == run[c].at
    <3>1. i \in Intents /\ made[i] \in Nat /\ intent[i] \in Row
      BY DEF RefundsTypeOK, Shape
    <3>2. [intent[i] EXCEPT !.status = "executed", !.refund = made[i]] \in Row
      BY <3>1 DEF Row, Statuses
    <3>3. intent' = [intent EXCEPT ![i] = [intent[i] EXCEPT !.status = "executed",
       !.refund = made[i]]]
      BY <3>1 DEF RefundsTypeOK
    <3> QED BY <3>1, <3>2, <3>3 DEF RefundsTypeOK
  <2>2. run' \in [Callers -> Run]
    BY RunsTyped DEF RefundsTypeOK
  <2>3. jobs' \in [Jobs -> 0 .. Attempts]
    BY RefundsAssumption DEF RefundsTypeOK, Run
  <2>4. /\ dropped' \subseteq Intents /\ overlapped' \subseteq Intents
        /\ lapsed' \subseteq Intents
    BY HandsTyped DEF RefundsTypeOK
  <2>5. /\ made' \in [Intents -> Nat] /\ known' \subseteq Intents
        /\ returned' \in Nat /\ paid' \in BOOLEAN
    BY DEF RefundsTypeOK
  <2>6. retries' \in [Intents -> Nat] /\ \A j \in Intents : retries'[j] <= MaxRetries[j]
    BY RefundsAssumption DEF RefundsTypeOK
  <2>7. faults' \in 0 .. MaxFaults
    BY RefundsAssumption DEF RefundsTypeOK
  <2> QED BY <2>1, <2>2, <2>3, <2>4, <2>5, <2>6, <2>7 DEF RefundsTypeOK
<1>2. Shape'
  BY RefundsAssumption DEF RefundsTypeOK, Run, Shape, Idle
<1>3. PaidFirst'
  BY RefundsAssumption DEF RefundsTypeOK, Run, Shape, PaidFirst, Idle
<1>4. KeysKnown'
  BY RefundsAssumption DEF RefundsTypeOK, KeysKnown
<1>5. OneHand'
  BY RefundsAssumption DEF RefundsTypeOK, Run, Shape, OneHand, InHand, Idle
<1>6. Marked'
  BY RefundsAssumption DEF RefundsTypeOK, Run, Row, Shape, OneHand, InHand, Marked,
     Busy, Idle
<1>7. Lone'
  BY RefundsAssumption DEF RefundsTypeOK, Run, Row, Shape, OneHand, InHand, Marked,
     PaidFirst, Lone, AtRest, Busy, Idle
<1>8. RefundedOnce'
  BY RefundsAssumption DEF RefundsTypeOK, KeysKnown, Lone, AtRest, RefundedOnce
<1>9. ExecutedNamesRefund'
  BY RefundsAssumption DEF RefundsTypeOK, Row, PaidFirst, ExecutedNamesRefund
<1>10. ExecutingAtHand'
  BY RefundsAssumption DEF RefundsTypeOK, Run, Row, Shape, ExecutingAtHand, Busy,
     InHand, Idle
<1> QED BY <1>1, <1>2, <1>3, <1>4, <1>5, <1>6, <1>7, <1>8, <1>9, <1>10

LEMMA RefusedKeeps ==
  ASSUME IInv, NEW c \in Callers, Refused(c)
  PROVE  IInv'
<1> USE DEF IInv, Callers, stripe, Quiet, Refused, Throws
<1>1. RefundsTypeOK'
  <2>1. intent' \in [Intents -> Row]
    BY RefundsAssumption DEF RefundsTypeOK, Row, Run, Shape, Statuses, Stages
  <2>2. run' \in [Callers -> Run]
    BY RunsTyped, RefundsAssumption DEF RefundsTypeOK, Run, Stages, Jobs, NoJob, Idle
  <2>3. jobs' \in [Jobs -> 0 .. Attempts]
    BY RefundsAssumption DEF RefundsTypeOK, Run
  <2>4. /\ dropped' \subseteq Intents /\ overlapped' \subseteq Intents
        /\ lapsed' \subseteq Intents
    BY HandsTyped DEF RefundsTypeOK
  <2>5. /\ made' \in [Intents -> Nat] /\ known' \subseteq Intents
        /\ returned' \in Nat /\ paid' \in BOOLEAN
    BY DEF RefundsTypeOK
  <2>6. retries' \in [Intents -> Nat] /\ \A j \in Intents : retries'[j] <= MaxRetries[j]
    BY RefundsAssumption DEF RefundsTypeOK
  <2>7. faults' \in 0 .. MaxFaults
    BY RefundsAssumption DEF RefundsTypeOK
  <2> QED BY <2>1, <2>2, <2>3, <2>4, <2>5, <2>6, <2>7 DEF RefundsTypeOK
<1>2. Shape'
  BY RefundsAssumption DEF RefundsTypeOK, Run, Shape, Idle
<1>3. PaidFirst'
  BY RefundsAssumption DEF RefundsTypeOK, Run, Shape, PaidFirst, Idle
<1>4. KeysKnown'
  BY RefundsAssumption DEF RefundsTypeOK, KeysKnown
<1>5. OneHand'
  BY RefundsAssumption DEF RefundsTypeOK, Run, Shape, OneHand, InHand, Idle
<1>6. Marked'
  BY RefundsAssumption DEF RefundsTypeOK, Run, Row, Shape, OneHand, InHand, Marked,
     Busy, Idle
<1>7. Lone'
  BY RefundsAssumption DEF RefundsTypeOK, Run, Row, Shape, OneHand, InHand, Marked,
     PaidFirst, Lone, AtRest, Busy, Idle
<1>8. RefundedOnce'
  BY RefundsAssumption DEF RefundsTypeOK, KeysKnown, Lone, AtRest, RefundedOnce
<1>9. ExecutedNamesRefund'
  BY RefundsAssumption DEF RefundsTypeOK, Row, PaidFirst, ExecutedNamesRefund
<1>10. ExecutingAtHand'
  BY RefundsAssumption DEF RefundsTypeOK, Run, Row, Shape, ExecutingAtHand, Busy,
     InHand, Idle
<1> QED BY <1>1, <1>2, <1>3, <1>4, <1>5, <1>6, <1>7, <1>8, <1>9, <1>10

LEMMA CreateRefundIntentKeeps ==
  ASSUME IInv, NEW c \in Admins, NEW i \in Intents, NEW a \in Nat,
     CreateRefundIntent(c, i, a)
  PROVE  IInv'
<1> USE DEF IInv, Callers, stripe, Quiet, CreateRefundIntent, Idle
<1>1. RefundsTypeOK'
  <2>1. intent' \in [Intents -> Row]
    BY RanksTyped DEF RefundsTypeOK, Row, Statuses
  <2>2. run' \in [Callers -> Run]
    BY RefundsAssumption DEF RefundsTypeOK, Run, Stages, Jobs, NoJob, Idle
  <2>3. jobs' \in [Jobs -> 0 .. Attempts]
    BY RefundsAssumption DEF RefundsTypeOK, Run
  <2>4. /\ dropped' \subseteq Intents /\ overlapped' \subseteq Intents
        /\ lapsed' \subseteq Intents
    BY HandsTyped DEF RefundsTypeOK
  <2>5. /\ made' \in [Intents -> Nat] /\ known' \subseteq Intents
        /\ returned' \in Nat /\ paid' \in BOOLEAN
    BY DEF RefundsTypeOK
  <2>6. retries' \in [Intents -> Nat] /\ \A j \in Intents : retries'[j] <= MaxRetries[j]
    BY RefundsAssumption DEF RefundsTypeOK
  <2>7. faults' \in 0 .. MaxFaults
    BY RefundsAssumption DEF RefundsTypeOK
  <2> QED BY <2>1, <2>2, <2>3, <2>4, <2>5, <2>6, <2>7 DEF RefundsTypeOK
<1>2. Shape'
  BY RefundsAssumption DEF RefundsTypeOK, Run, Shape, Idle
<1>3. PaidFirst'
  BY RefundsAssumption DEF RefundsTypeOK, Run, Shape, PaidFirst, Idle
<1>4. KeysKnown'
  BY RefundsAssumption DEF RefundsTypeOK, KeysKnown
<1>5. OneHand'
  BY RefundsAssumption DEF RefundsTypeOK, Run, Shape, OneHand, InHand, Idle
<1>6. Marked'
  BY RefundsAssumption DEF RefundsTypeOK, Run, Row, Shape, OneHand, InHand, Marked,
     Busy, Idle
<1>7. Lone'
  BY RefundsAssumption DEF RefundsTypeOK, Run, Row, Shape, OneHand, InHand, Marked,
     PaidFirst, Lone, AtRest, Busy, Idle
<1>8. RefundedOnce'
  BY RefundsAssumption DEF RefundsTypeOK, KeysKnown, Lone, AtRest, RefundedOnce
<1>9. ExecutedNamesRefund'
  BY RefundsAssumption DEF RefundsTypeOK, Row, PaidFirst, ExecutedNamesRefund
<1>10. ExecutingAtHand'
  BY RefundsAssumption DEF RefundsTypeOK, Run, Row, Shape, ExecutingAtHand, Busy,
     InHand, Idle
<1> QED BY <1>1, <1>2, <1>3, <1>4, <1>5, <1>6, <1>7, <1>8, <1>9, <1>10

LEMMA BeginRetryKeeps ==
  ASSUME IInv, NEW c \in Admins, NEW i \in Intents, BeginRetry(c, i)
  PROVE  IInv'
<1> USE DEF IInv, Callers, stripe, Quiet, BeginRetry, Take, Idle
<1>1. RefundsTypeOK'
  <2>1. intent' \in [Intents -> Row]
    BY RefundsAssumption DEF RefundsTypeOK, Row, Run, Shape, Statuses, Stages
  <2>2. run' \in [Callers -> Run]
    BY RefundsAssumption DEF RefundsTypeOK, Run, Stages, Jobs, NoJob, Idle
  <2>3. jobs' \in [Jobs -> 0 .. Attempts]
    BY RefundsAssumption DEF RefundsTypeOK, Run
  <2> QED BY <2>1, <2>2, <2>3, RefundsAssumption DEF RefundsTypeOK, Run, Row
<1>2. Shape'
  BY RefundsAssumption DEF RefundsTypeOK, Run, Shape, Idle, InHands
<1>3. PaidFirst'
  BY RefundsAssumption DEF RefundsTypeOK, Run, Shape, PaidFirst, Idle, InHands
<1>4. KeysKnown'
  BY RefundsAssumption DEF RefundsTypeOK, KeysKnown, InHands
<1>5. OneHand'
  BY RefundsAssumption DEF RefundsTypeOK, Run, Shape, OneHand, InHand, Idle, InHands
<1>6. Marked'
  BY RefundsAssumption DEF RefundsTypeOK, Run, Row, Shape, OneHand, InHand, Marked,
     Busy, Idle, InHands
<1>7. Lone'
  BY RefundsAssumption DEF RefundsTypeOK, Run, Row, Shape, OneHand, InHand, Marked,
     PaidFirst, Lone, AtRest, Busy, Idle, InHands
<1>8. RefundedOnce'
  BY RefundsAssumption DEF RefundsTypeOK, KeysKnown, Lone, AtRest, RefundedOnce, InHands
<1>9. ExecutedNamesRefund'
  BY RefundsAssumption DEF RefundsTypeOK, Row, PaidFirst, ExecutedNamesRefund, InHands
<1>10. ExecutingAtHand'
  BY RefundsAssumption DEF RefundsTypeOK, Run, Row, Shape, ExecutingAtHand, Busy,
     InHand, Idle, InHands
<1> QED BY <1>1, <1>2, <1>3, <1>4, <1>5, <1>6, <1>7, <1>8, <1>9, <1>10

LEMMA CommitRetryKeeps ==
  ASSUME IInv, NEW c \in Admins, CommitRetry(c)
  PROVE  IInv'
<1> USE DEF IInv, Callers, stripe, Quiet, CommitRetry, Goto
<1>1. RefundsTypeOK'
  <2>1. intent' \in [Intents -> Row]
    <3> DEFINE i == run[c].at
    <3>1. i \in Intents /\ intent[i] \in Row
      BY DEF RefundsTypeOK, Shape
    <3>2. [intent[i] EXCEPT !.status = "pending_execution", !.refund = 0] \in Row
      BY <3>1 DEF Row, Statuses
    <3>3. intent' = [intent EXCEPT ![i] =
                       [intent[i] EXCEPT !.status = "pending_execution", !.refund = 0]]
      BY <3>1 DEF RefundsTypeOK
    <3> QED BY <3>1, <3>2, <3>3 DEF RefundsTypeOK
  <2>2. run' \in [Callers -> Run]
    BY RefundsAssumption DEF RefundsTypeOK, Run, Stages, Jobs, NoJob, Idle
  <2>3. jobs' \in [Jobs -> 0 .. Attempts]
    BY RefundsAssumption DEF RefundsTypeOK, Run
  <2>4. /\ dropped' \subseteq Intents /\ overlapped' \subseteq Intents
        /\ lapsed' \subseteq Intents
    BY HandsTyped DEF RefundsTypeOK
  <2>5. /\ made' \in [Intents -> Nat] /\ known' \subseteq Intents
        /\ returned' \in Nat /\ paid' \in BOOLEAN
    BY DEF RefundsTypeOK
  <2>6. retries' \in [Intents -> Nat] /\ \A j \in Intents : retries'[j] <= MaxRetries[j]
    <3>1. run[c].at \in Intents /\ MaxRetries[run[c].at] \in Nat
      BY RefundsAssumption DEF Shape
    <3> QED BY <3>1 DEF RefundsTypeOK
  <2>7. faults' \in 0 .. MaxFaults
    BY RefundsAssumption DEF RefundsTypeOK
  <2> QED BY <2>1, <2>2, <2>3, <2>4, <2>5, <2>6, <2>7 DEF RefundsTypeOK
<1>2. Shape'
  BY RefundsAssumption DEF RefundsTypeOK, Run, Shape, Idle
<1>3. PaidFirst'
  BY RefundsAssumption DEF RefundsTypeOK, Run, Shape, PaidFirst, Idle
<1>4. KeysKnown'
  BY RefundsAssumption DEF RefundsTypeOK, KeysKnown
<1>5. OneHand'
  BY RefundsAssumption DEF RefundsTypeOK, Run, Shape, OneHand, InHand, Idle
<1>6. Marked'
  BY RefundsAssumption DEF RefundsTypeOK, Run, Row, Shape, OneHand, InHand, Marked,
     Busy, Idle
<1>7. Lone'
  BY RefundsAssumption DEF RefundsTypeOK, Run, Row, Shape, OneHand, InHand, Marked,
     PaidFirst, Lone, AtRest, Busy, Idle
<1>8. RefundedOnce'
  BY RefundsAssumption DEF RefundsTypeOK, KeysKnown, Lone, AtRest, RefundedOnce
<1>9. ExecutedNamesRefund'
  BY RefundsAssumption DEF RefundsTypeOK, Row, PaidFirst, ExecutedNamesRefund
<1>10. ExecutingAtHand'
  BY RefundsAssumption DEF RefundsTypeOK, Run, Row, Shape, ExecutingAtHand, Busy,
     InHand, Idle
<1> QED BY <1>1, <1>2, <1>3, <1>4, <1>5, <1>6, <1>7, <1>8, <1>9, <1>10

LEMMA EnqueueKeeps ==
  ASSUME IInv, NEW c \in Admins, Enqueue(c)
  PROVE  IInv'
<1> USE DEF IInv, Callers, stripe, Quiet, Enqueue, Idle, Jobs
<1>1. RefundsTypeOK'
  <2>1. intent' \in [Intents -> Row]
    BY RefundsAssumption DEF RefundsTypeOK, Row, Run, Shape, Statuses, Stages
  <2>2. run' \in [Callers -> Run]
    BY RefundsAssumption DEF RefundsTypeOK, Run, Stages, Jobs, NoJob, Idle
  <2>3. jobs' \in [Jobs -> 0 .. Attempts]
    <3>1. run[c].at \in Intents
      BY DEF Shape
    <3>2. jobs' = [jobs EXCEPT ![<<run[c].at, retries[run[c].at]>>] = Attempts]
      OBVIOUS
    <3> QED BY <3>1, <3>2, RefundsAssumption DEF RefundsTypeOK
  <2>4. /\ dropped' \subseteq Intents /\ overlapped' \subseteq Intents
        /\ lapsed' \subseteq Intents
    BY HandsTyped DEF RefundsTypeOK
  <2>5. /\ made' \in [Intents -> Nat] /\ known' \subseteq Intents
        /\ returned' \in Nat /\ paid' \in BOOLEAN
    BY DEF RefundsTypeOK
  <2>6. retries' \in [Intents -> Nat] /\ \A j \in Intents : retries'[j] <= MaxRetries[j]
    BY RefundsAssumption DEF RefundsTypeOK
  <2>7. faults' \in 0 .. MaxFaults
    BY RefundsAssumption DEF RefundsTypeOK
  <2> QED BY <2>1, <2>2, <2>3, <2>4, <2>5, <2>6, <2>7 DEF RefundsTypeOK
<1>2. Shape'
  BY RefundsAssumption DEF RefundsTypeOK, Run, Shape, Idle
<1>3. PaidFirst'
  BY RefundsAssumption DEF RefundsTypeOK, Run, Shape, PaidFirst, Idle
<1>4. KeysKnown'
  BY RefundsAssumption DEF RefundsTypeOK, KeysKnown
<1>5. OneHand'
  BY RefundsAssumption DEF RefundsTypeOK, Run, Shape, OneHand, InHand, Idle
<1>6. Marked'
  BY RefundsAssumption DEF RefundsTypeOK, Run, Row, Shape, OneHand, InHand, Marked,
     Busy, Idle
<1>7. Lone'
  BY RefundsAssumption DEF RefundsTypeOK, Run, Row, Shape, OneHand, InHand, Marked,
     PaidFirst, Lone, AtRest, Busy, Idle
<1>8. RefundedOnce'
  BY RefundsAssumption DEF RefundsTypeOK, KeysKnown, Lone, AtRest, RefundedOnce
<1>9. ExecutedNamesRefund'
  BY RefundsAssumption DEF RefundsTypeOK, Row, PaidFirst, ExecutedNamesRefund
<1>10. ExecutingAtHand'
  BY RefundsAssumption DEF RefundsTypeOK, Run, Row, Shape, ExecutingAtHand, Busy,
     InHand, Idle
<1> QED BY <1>1, <1>2, <1>3, <1>4, <1>5, <1>6, <1>7, <1>8, <1>9, <1>10

LEMMA NoQueueKeeps ==
  ASSUME IInv, NEW c \in Admins, NoQueue(c)
  PROVE  IInv'
<1> USE DEF IInv, Callers, stripe, Quiet, NoQueue, Idle
<1>1. RefundsTypeOK'
  <2>1. intent' \in [Intents -> Row]
    BY RefundsAssumption DEF RefundsTypeOK, Row, Run, Shape, Statuses, Stages
  <2>2. run' \in [Callers -> Run]
    BY RefundsAssumption DEF RefundsTypeOK, Run, Stages, Jobs, NoJob, Idle
  <2>3. jobs' \in [Jobs -> 0 .. Attempts]
    BY RefundsAssumption DEF RefundsTypeOK, Run
  <2> QED BY <2>1, <2>2, <2>3, RefundsAssumption DEF RefundsTypeOK, Run, Row
<1>2. Shape'
  BY RefundsAssumption DEF RefundsTypeOK, Run, Shape, Idle
<1>3. PaidFirst'
  BY RefundsAssumption DEF RefundsTypeOK, Run, Shape, PaidFirst, Idle
<1>4. KeysKnown'
  BY RefundsAssumption DEF RefundsTypeOK, KeysKnown
<1>5. OneHand'
  BY RefundsAssumption DEF RefundsTypeOK, Run, Shape, OneHand, InHand, Idle
<1>6. Marked'
  BY RefundsAssumption DEF RefundsTypeOK, Run, Row, Shape, OneHand, InHand, Marked,
     Busy, Idle
<1>7. Lone'
  BY RefundsAssumption DEF RefundsTypeOK, Run, Row, Shape, OneHand, InHand, Marked,
     PaidFirst, Lone, AtRest, Busy, Idle
<1>8. RefundedOnce'
  BY RefundsAssumption DEF RefundsTypeOK, KeysKnown, Lone, AtRest, RefundedOnce
<1>9. ExecutedNamesRefund'
  BY RefundsAssumption DEF RefundsTypeOK, Row, PaidFirst, ExecutedNamesRefund
<1>10. ExecutingAtHand'
  BY RefundsAssumption DEF RefundsTypeOK, Run, Row, Shape, ExecutingAtHand, Busy,
     InHand, Idle
<1> QED BY <1>1, <1>2, <1>3, <1>4, <1>5, <1>6, <1>7, <1>8, <1>9, <1>10

LEMMA CustomerPaysKeeps ==
  ASSUME IInv, CustomerPays
  PROVE  IInv'
<1> USE DEF IInv, Callers, stripe, Quiet, CustomerPays
<1>1. RefundsTypeOK'
  <2>1. intent' \in [Intents -> Row]
    BY RefundsAssumption DEF RefundsTypeOK, Row, Run, Shape, Statuses, Stages
  <2>2. run' \in [Callers -> Run]
    BY RefundsAssumption DEF RefundsTypeOK, Run, Stages, Jobs, NoJob, Idle
  <2>3. jobs' \in [Jobs -> 0 .. Attempts]
    BY RefundsAssumption DEF RefundsTypeOK, Run
  <2> QED BY <2>1, <2>2, <2>3, RefundsAssumption DEF RefundsTypeOK, Run, Row
<1>2. Shape'
  BY RefundsAssumption DEF RefundsTypeOK, Run, Shape, Idle
<1>3. PaidFirst'
  BY RefundsAssumption DEF RefundsTypeOK, Run, Shape, PaidFirst, Idle
<1>4. KeysKnown'
  BY RefundsAssumption DEF RefundsTypeOK, KeysKnown
<1>5. OneHand'
  BY RefundsAssumption DEF RefundsTypeOK, Run, Shape, OneHand, InHand, Idle
<1>6. Marked'
  BY RefundsAssumption DEF RefundsTypeOK, Run, Row, Shape, OneHand, InHand, Marked,
     Busy, Idle
<1>7. Lone'
  BY RefundsAssumption DEF RefundsTypeOK, Run, Row, Shape, OneHand, InHand, Marked,
     PaidFirst, Lone, AtRest, Busy, Idle
<1>8. RefundedOnce'
  BY RefundsAssumption DEF RefundsTypeOK, KeysKnown, Lone, AtRest, RefundedOnce
<1>9. ExecutedNamesRefund'
  BY RefundsAssumption DEF RefundsTypeOK, Row, PaidFirst, ExecutedNamesRefund
<1>10. ExecutingAtHand'
  BY RefundsAssumption DEF RefundsTypeOK, Run, Row, Shape, ExecutingAtHand, Busy,
     InHand, Idle
<1> QED BY <1>1, <1>2, <1>3, <1>4, <1>5, <1>6, <1>7, <1>8, <1>9, <1>10

LEMMA CallFailsKeeps ==
  ASSUME IInv, NEW c \in Callers, CallFails(c)
  PROVE  IInv'
<1> USE DEF IInv, Callers, stripe, Quiet, CallFails, Throws
<1>1. RefundsTypeOK'
  <2>1. intent' \in [Intents -> Row]
    BY RefundsAssumption DEF RefundsTypeOK, Row, Run, Shape, Statuses, Stages
  <2>2. run' \in [Callers -> Run]
    BY RunsTyped, RefundsAssumption DEF RefundsTypeOK, Run, Stages, Jobs, NoJob, Idle
  <2>3. jobs' \in [Jobs -> 0 .. Attempts]
    BY RefundsAssumption DEF RefundsTypeOK, Run
  <2>4. /\ dropped' \subseteq Intents /\ overlapped' \subseteq Intents
        /\ lapsed' \subseteq Intents
    BY HandsTyped DEF RefundsTypeOK
  <2>5. /\ made' \in [Intents -> Nat] /\ known' \subseteq Intents
        /\ returned' \in Nat /\ paid' \in BOOLEAN
    BY DEF RefundsTypeOK
  <2>6. retries' \in [Intents -> Nat] /\ \A j \in Intents : retries'[j] <= MaxRetries[j]
    BY RefundsAssumption DEF RefundsTypeOK
  <2>7. faults' \in 0 .. MaxFaults
    BY RefundsAssumption DEF RefundsTypeOK
  <2> QED BY <2>1, <2>2, <2>3, <2>4, <2>5, <2>6, <2>7 DEF RefundsTypeOK
<1>2. Shape'
  BY RefundsAssumption DEF RefundsTypeOK, Run, Shape, Idle
<1>3. PaidFirst'
  BY RefundsAssumption DEF RefundsTypeOK, Run, Shape, PaidFirst, Idle
<1>4. KeysKnown'
  BY RefundsAssumption DEF RefundsTypeOK, KeysKnown
<1>5. OneHand'
  BY RefundsAssumption DEF RefundsTypeOK, Run, Shape, OneHand, InHand, Idle
<1>6. Marked'
  BY RefundsAssumption DEF RefundsTypeOK, Run, Row, Shape, OneHand, InHand, Marked,
     Busy, Idle
<1>7. Lone'
  BY RefundsAssumption DEF RefundsTypeOK, Run, Row, Shape, OneHand, InHand, Marked,
     PaidFirst, Lone, AtRest, Busy, Idle
<1>8. RefundedOnce'
  BY RefundsAssumption DEF RefundsTypeOK, KeysKnown, Lone, AtRest, RefundedOnce
<1>9. ExecutedNamesRefund'
  BY RefundsAssumption DEF RefundsTypeOK, Row, PaidFirst, ExecutedNamesRefund
<1>10. ExecutingAtHand'
  BY RefundsAssumption DEF RefundsTypeOK, Run, Row, Shape, ExecutingAtHand, Busy,
     InHand, Idle
<1> QED BY <1>1, <1>2, <1>3, <1>4, <1>5, <1>6, <1>7, <1>8, <1>9, <1>10

LEMMA KeyLapsesKeeps ==
  ASSUME IInv, NEW i \in Intents, KeyLapses(i)
  PROVE  IInv'
<1> USE DEF IInv, Callers, stripe, Quiet, KeyLapses
<1>1. RefundsTypeOK'
  <2>1. intent' \in [Intents -> Row]
    BY RefundsAssumption DEF RefundsTypeOK, Row, Run, Shape, Statuses, Stages
  <2>2. run' \in [Callers -> Run]
    BY RefundsAssumption DEF RefundsTypeOK, Run, Stages, Jobs, NoJob, Idle
  <2>3. jobs' \in [Jobs -> 0 .. Attempts]
    BY RefundsAssumption DEF RefundsTypeOK, Run
  <2> QED BY <2>1, <2>2, <2>3, RefundsAssumption DEF RefundsTypeOK, Run, Row
<1>2. Shape'
  BY RefundsAssumption DEF RefundsTypeOK, Run, Shape, Idle
<1>3. PaidFirst'
  BY RefundsAssumption DEF RefundsTypeOK, Run, Shape, PaidFirst, Idle
<1>4. KeysKnown'
  BY RefundsAssumption DEF RefundsTypeOK, KeysKnown
<1>5. OneHand'
  BY RefundsAssumption DEF RefundsTypeOK, Run, Shape, OneHand, InHand, Idle
<1>6. Marked'
  BY RefundsAssumption DEF RefundsTypeOK, Run, Row, Shape, OneHand, InHand, Marked,
     Busy, Idle
<1>7. Lone'
  BY RefundsAssumption DEF RefundsTypeOK, Run, Row, Shape, OneHand, InHand, Marked,
     PaidFirst, Lone, AtRest, Busy, Idle
<1>8. RefundedOnce'
  BY RefundsAssumption DEF RefundsTypeOK, KeysKnown, Lone, AtRest, RefundedOnce
<1>9. ExecutedNamesRefund'
  BY RefundsAssumption DEF RefundsTypeOK, Row, PaidFirst, ExecutedNamesRefund
<1>10. ExecutingAtHand'
  BY RefundsAssumption DEF RefundsTypeOK, Run, Row, Shape, ExecutingAtHand, Busy,
     InHand, Idle
<1> QED BY <1>1, <1>2, <1>3, <1>4, <1>5, <1>6, <1>7, <1>8, <1>9, <1>10

-----------------------------------------------------------------------------
(* Initially there are no intents, and nobody is anywhere. *)
LEMMA InitHolds ==
  ASSUME Init PROVE IInv
<1> USE RefundsAssumption DEF Init, Idle, InHand
<1>1. RefundsTypeOK
  <2>1. NewRow \in Row /\ intent \in [Intents -> Row]
    BY DEF NewRow, Row, Statuses, Full
  <2>2. run \in [Callers -> Run]
    BY DEF Run, Stages, NoJob
  <2>3. jobs \in [Jobs -> 0 .. Attempts] /\ retries \in [Intents -> Nat]
    OBVIOUS
  <2>4. made \in [Intents -> Nat] /\ returned \in Nat /\ faults \in 0 .. MaxFaults
    OBVIOUS
  <2>5. retries \in [Intents -> Nat] /\ \A i \in Intents : retries[i] <= MaxRetries[i]
    OBVIOUS
  <2> QED BY <2>1, <2>2, <2>3, <2>4, <2>5 DEF RefundsTypeOK
<1>2. Shape /\ PaidFirst /\ KeysKnown
  BY DEF Shape, PaidFirst, KeysKnown
<1>3. OneHand /\ Marked /\ Lone
  BY DEF OneHand, Marked, Lone, Busy
<1>4. RefundedOnce /\ ExecutedNamesRefund /\ ExecutingAtHand
  BY DEF RefundedOnce, ExecutedNamesRefund, ExecutingAtHand, NewRow
<1> QED BY <1>1, <1>2, <1>3, <1>4 DEF IInv

(* Every step of every caller keeps the invariant. *)
LEMMA StepKeeps ==
  ASSUME IInv, [Next]_vars PROVE IInv'
<1>1. CASE Next
  <2>1. RefundsTypeOK
    BY DEF IInv
  <2> QED
    BY <1>1, <2>1, StepKinds, BeginPassKeeps, BeginJobKeeps, MarkKeeps, LookKeeps,
       FailKeeps, CallKeeps, RecordKeeps, RefusedKeeps, CreateRefundIntentKeeps,
       BeginRetryKeeps, CommitRetryKeeps, EnqueueKeeps, NoQueueKeeps,
       CustomerPaysKeeps, CallFailsKeeps, KeyLapsesKeeps
<1>2. CASE UNCHANGED vars
  BY <1>2 DEF vars, IInv, RefundsTypeOK, Shape, PaidFirst, KeysKnown, OneHand,
     InHand, Marked,
     Lone, AtRest, RefundedOnce, ExecutedNamesRefund, ExecutingAtHand
<1> QED BY <1>1, <1>2

(* The inductive invariant of the refunds of a booking, for any intents,   *)
(* workers, passes and admins.                                             *)
THEOREM RefundsInvariant == Spec => []IInv
<1>1. Init => IInv
  BY InitHolds
<1>2. IInv /\ [Next]_vars => IInv'
  BY StepKeeps
<1> QED BY <1>1, <1>2, PTL DEF Spec

(* Intents, jobs, Stripe's side and the places of all callers keep their   *)
(* types.                                                                  *)
THEOREM RefundsTypeCorrect == Spec => []RefundsTypeOK
<1>1. IInv => RefundsTypeOK
  BY DEF IInv
<1> QED BY <1>1, RefundsInvariant, PTL

(* However many workers and passes execute an intent, and wherever they    *)
(* fail, Stripe refunds it once: a second refund takes two callers that    *)
(* had it in hand at once, and a key that is forgotten.                    *)
THEOREM IntentsRefundedOnce == Spec => []RefundedOnce
<1>1. IInv => RefundedOnce
  BY DEF IInv
<1> QED BY <1>1, RefundsInvariant, PTL

(* Executed intents name a refund that was made, and failed ones have none *)
(* unless two callers met.                                                 *)
THEOREM StatusesAreTrue == Spec => []StatusIsTrue
<1>1. IInv => StatusIsTrue
  BY DEF IInv, ExecutedNamesRefund, Lone, StatusIsTrue
<1> QED BY <1>1, RefundsInvariant, PTL

(* Only a caller that fails leaves an intent executing. *)
THEOREM ExecutingIntentsHaveARun == Spec => []ExecutingHasARun
<1>1. IInv => ExecutingHasARun
  <2> SUFFICES ASSUME IInv, NEW i \in Intents, intent[i].status = "executing",
     i \notin dropped
               PROVE  i \in InHands
    BY DEF ExecutingHasARun
  <2>1. PICK c \in Callers : run[c].stage \in Busy /\ run[c].at = i
    BY DEF IInv, ExecutingAtHand
  <2>2. i \in InHand(c)
    BY <2>1, RefundsAssumption DEF InHand, Busy
  <2> QED BY <2>2 DEF InHands
<1> QED BY <1>1, RefundsInvariant, PTL

-----------------------------------------------------------------------------
(* Implementing RefundLife *)

(* Nobody has an executed intent in hand, and nobody an intent twice. *)
HandsOff ==
  /\ \A c \in Callers : run[c].at \notin run[c].todo
  /\ \A i \in Intents \ overlapped :
       intent[i].status = "executed" => \A c \in Callers : i \notin InHand(c)

(* A caller that is through with an intent has the rest of its list in hand. *)
LEMMA DoneHands ==
  ASSUME RefundsTypeOK, HandsOff, NEW c \in Callers, run[c].stage # "enqueue", Done(c)
  PROVE  /\ InHand(c)' \subseteq InHand(c) \ {run[c].at}
         /\ run'[c].at \notin run'[c].todo
         /\ \A d \in Callers \ {c} : run'[d] = run[d]
<1>1. run[c] \in Run /\ run \in [Callers -> Run]
  BY DEF RefundsTypeOK
<1>2. \A d \in Callers \ {c} : run'[d] = run[d]
  BY <1>1 DEF Done
<1>3. CASE run[c].todo = {}
  <2>1. run'[c] = Idle
    BY <1>1, <1>3 DEF Done
  <2> QED BY <1>2, <2>1 DEF InHand, Idle
<1>4. CASE run[c].todo # {}
  <2>1. /\ run'[c].stage = "mark" /\ run'[c].at = NoIntent
        /\ run'[c].todo = run[c].todo
    BY <1>1, <1>4 DEF Done, Run
  <2>2. NoIntent \notin run[c].todo
    BY <1>1, RefundsAssumption DEF Run
  <2> QED BY <1>2, <2>1, <2>2 DEF InHand, HandsOff
<1> QED BY <1>3, <1>4

(* Executed intents are not taken in hand, and whoever executes an intent   *)
(* has been the only one, or two have met.                                  *)
LEMMA HandsOffStep ==
  ASSUME IInv, HandsOff, [Next]_vars
  PROVE  HandsOff'
<1> USE RefundsAssumption DEF IInv
<1>a. /\ run \in [Callers -> Run] /\ intent \in [Intents -> Row]
      /\ \A c \in Callers : run[c] \in Run
  BY DEF RefundsTypeOK
<1>b. \A c \in Callers : NoIntent \notin run[c].todo
  BY <1>a DEF Run
<1>1. ASSUME UNCHANGED intent, overlapped \subseteq overlapped',
             NEW c \in Callers, \A d \in Callers \ {c} : run'[d] = run[d],
             InHand(c)' \subseteq InHand(c), run'[c].at \notin run'[c].todo
      PROVE  HandsOff'
  BY <1>1 DEF HandsOff, InHand
<1>2. ASSUME NEW c \in Callers, NEW r \in Run, Take(c, r), UNCHANGED intent,
             r.stage # "enqueue", r.at \notin r.todo,
             \A i \in r.todo \cup ({r.at} \ {NoIntent}) : intent[i].status # "executed"
      PROVE  HandsOff'
  <2>1. run'[c] = r /\ \A d \in Callers \ {c} : run'[d] = run[d]
    BY <1>a, <1>2 DEF Take
  <2>2. InHand(c)' = r.todo \cup ({r.at} \ {NoIntent})
    BY <1>2, <2>1 DEF InHand
  <2>3. overlapped \subseteq overlapped'
    BY <1>2 DEF Take
  <2> QED BY <1>2, <2>1, <2>2, <2>3 DEF HandsOff, InHand
<1>3. ASSUME NEW p \in Passes, NEW S \in SUBSET Intents, BeginPass(p, S) PROVE HandsOff'
  <2> DEFINE r == [Idle EXCEPT !.stage = "mark", !.todo = S]
  <2>1. /\ r \in Run /\ r.stage = "mark" /\ r.at = NoIntent /\ r.todo = S
    BY DEF Idle, Run, Stages
  <2>2. p \in Callers /\ UNCHANGED intent
        /\ \A i \in S : intent[i].status = "pending_execution"
    BY <1>3 DEF BeginPass, Taken, Waiting, Callers
  <2>3. Take(p, r)
    BY <1>3 DEF BeginPass
  <2> HIDE DEF r
  <2> QED BY <1>2, <2>1, <2>2, <2>3
<1>4. ASSUME NEW w \in Workers, NEW k \in Jobs, BeginJob(w, k) PROVE HandsOff'
  <2>0. k[1] \in Intents /\ w \in Callers /\ UNCHANGED intent
    BY <1>4 DEF BeginJob, Callers, Jobs
  <2>1. CASE intent[k[1]].status = "executed"
    BY <1>4, <2>1, <2>0 DEF BeginJob, HandsOff, InHand, Quiet
  <2>2. CASE intent[k[1]].status # "executed"
    <3> DEFINE r == [stage |-> "mark", todo |-> {k[1]}, at |-> NoIntent, job |-> k]
    <3>1. /\ r \in Run /\ r.stage = "mark" /\ r.at = NoIntent /\ r.todo = {k[1]}
      BY <2>0 DEF Run, Stages
    <3>2. Take(w, r)
      BY <1>4, <2>2 DEF BeginJob
    <3> HIDE DEF r
    <3> QED BY <1>2, <2>0, <2>2, <3>1, <3>2
  <2> QED BY <2>1, <2>2
<1>5. ASSUME NEW c \in Callers, NEW i \in Intents, Mark(c, i) PROVE HandsOff'
  <2>1. /\ run'[c].stage = "look" /\ run'[c].todo = run[c].todo \ {i} /\ run'[c].at = i
        /\ \A d \in Callers \ {c} : run'[d] = run[d]
    BY <1>a, <1>5 DEF Mark, Run
  <2>2. /\ \A j \in Intents : intent'[j].status = "executed" => intent[j].status = "executed"
        /\ overlapped' = overlapped
    BY <1>a, <1>5 DEF Mark, SetStatus, Row, Quiet
  <2>3. \A d \in Callers : InHand(d)' \subseteq InHand(d)
    BY <1>5, <2>1 DEF Mark, InHand
  <2> QED BY <2>1, <2>2, <2>3 DEF HandsOff
<1>6. ASSUME NEW c \in Callers, Look(c) \/ Call(c) PROVE HandsOff'
  <2>1. /\ run'[c].todo = run[c].todo /\ run'[c].at = run[c].at
        /\ run[c].stage # "enqueue" /\ run'[c].stage # "enqueue"
        /\ \A d \in Callers \ {c} : run'[d] = run[d]
    BY <1>a, <1>6 DEF Look, Call, Goto, Run
  <2>2. UNCHANGED <<intent, overlapped>>
    BY <1>6 DEF Look, Call, Quiet
  <2>3. InHand(c)' = InHand(c) /\ run'[c].at \notin run'[c].todo
    BY <2>1 DEF InHand, HandsOff
  <2> QED BY <1>1, <2>1, <2>2, <2>3
<1>7. ASSUME NEW c \in Callers, Fail(c) PROVE HandsOff'
  <2>1. \A j \in Intents : intent'[j].status = "executed" => intent[j].status = "executed"
    BY <1>a, <1>7 DEF Fail, SetStatus, Row
  <2>2. overlapped' = overlapped /\ run[c].stage # "enqueue" /\ Done(c)
    BY <1>7 DEF Fail, Quiet
  <2> QED BY <2>1, <2>2, DoneHands DEF HandsOff, InHand
<1>8. ASSUME NEW c \in Callers, Record(c) PROVE HandsOff'
  <2>1. /\ overlapped' = overlapped /\ run[c].stage # "enqueue" /\ Done(c)
        /\ run[c].at \in Intents /\ run[c].at \in InHand(c)
    BY <1>8 DEF Record, Quiet, Shape, InHand
  <2>2. \A j \in Intents \ {run[c].at} : intent'[j] = intent[j]
    BY <1>a, <1>8 DEF Record
  <2>3. \A d \in Callers \ {c} : run[c].at \in InHand(d) => run[c].at \in overlapped
    BY <2>1 DEF OneHand
  <2>4. \A d \in Callers \ {c} : run'[d] = run[d] /\ InHand(d)' = InHand(d)
    BY <2>1, DoneHands DEF InHand
  <2>5. ASSUME NEW d \in Callers, NEW i \in Intents \ overlapped,
               intent'[i].status = "executed"
        PROVE  i \notin InHand(d)'
    <3>1. CASE i = run[c].at
      BY <2>1, <2>3, <2>4, <3>1, DoneHands
    <3>2. CASE i # run[c].at
      BY <2>1, <2>2, <2>4, <2>5, <3>2, DoneHands DEF HandsOff
    <3> QED BY <3>1, <3>2
  <2>6. \A d \in Callers : run'[d].at \notin run'[d].todo
    BY <2>1, <2>4, DoneHands DEF HandsOff
  <2> QED BY <2>1, <2>5, <2>6 DEF HandsOff
<1>9. ASSUME NEW c \in Callers, Refused(c) \/ CallFails(c) \/ Enqueue(c) \/ NoQueue(c)
      PROVE  HandsOff'
  <2>1. /\ run' = [run EXCEPT ![c] = Idle] /\ UNCHANGED <<intent, overlapped>>
    BY <1>9 DEF Refused, CallFails, Enqueue, NoQueue, Throws, Quiet
  <2>2. InHand(c)' = {} /\ run'[c].at \notin run'[c].todo
    BY <1>a, <2>1 DEF InHand, Idle
  <2> QED BY <1>1, <1>a, <2>1, <2>2
<1>10. ASSUME NEW c \in Admins, NEW i \in Intents, NEW a \in Nat, CreateRefundIntent(c, i, a)
       PROVE  HandsOff'
  <2>1. /\ run'[c] = [Idle EXCEPT !.stage = "enqueue", !.at = i]
        /\ \A d \in Callers \ {c} : run'[d] = run[d]
        /\ overlapped' = overlapped
    BY <1>a, <1>10 DEF CreateRefundIntent, Quiet, Callers
  <2>2. InHand(c)' = {} /\ run'[c].at \notin run'[c].todo
    BY <2>1 DEF InHand, Idle
  <2>3. \A j \in Intents : intent'[j].status = "executed" => intent[j].status = "executed"
    BY <1>a, <1>10 DEF CreateRefundIntent
  <2> QED BY <2>1, <2>2, <2>3 DEF HandsOff, InHand
<1>11. ASSUME NEW c \in Admins, NEW i \in Intents, BeginRetry(c, i) PROVE HandsOff'
  <2> DEFINE r == [Idle EXCEPT !.stage = "retry", !.at = i]
  <2>1. /\ r \in Run /\ r.stage = "retry" /\ r.at = i /\ r.todo = {}
    BY DEF Idle, Run, Stages
  <2>2. c \in Callers /\ UNCHANGED intent /\ intent[i].status = "failed"
    BY <1>11 DEF BeginRetry, Callers
  <2>3. Take(c, r)
    BY <1>11 DEF BeginRetry
  <2> HIDE DEF r
  <2> QED BY <1>2, <2>1, <2>2, <2>3
<1>12. ASSUME NEW c \in Admins, CommitRetry(c) PROVE HandsOff'
  <2>1. /\ run'[c].stage = "enqueue" /\ run'[c].todo = run[c].todo /\ run'[c].at = run[c].at
        /\ \A d \in Callers \ {c} : run'[d] = run[d]
        /\ overlapped' = overlapped
    BY <1>a, <1>12 DEF CommitRetry, Goto, Quiet, Callers, Run
  <2>2. InHand(c)' = {}
    BY <2>1 DEF InHand
  <2>3. \A j \in Intents : intent'[j].status = "executed" => intent[j].status = "executed"
    BY <1>a, <1>12 DEF CommitRetry, Row
  <2> QED BY <2>1, <2>2, <2>3 DEF HandsOff, InHand
<1>13. ASSUME UNCHANGED <<intent, run, overlapped>> PROVE HandsOff'
  BY <1>13 DEF HandsOff, InHand
<1>14. CustomerPays \/ (\E i \in Intents : KeyLapses(i)) \/ UNCHANGED vars =>
         UNCHANGED <<intent, run, overlapped>>
  BY DEF CustomerPays, KeyLapses, Quiet, vars
<1>15. Admins \subseteq Callers
  BY DEF Callers
<1> QED
  BY <1>3, <1>4, <1>5, <1>6, <1>7, <1>8, <1>9, <1>10, <1>11, <1>12, <1>13, <1>14, <1>15,
     StepKinds

(* The lives of all intents, as the abstract specification sees them. *)
Lives == [i \in Intents |-> LifeOf(i)]

(* Who writes one row changes one life. *)
LEMMA OneLife ==
  ASSUME NEW i \in Intents, UNCHANGED overlapped,
         \A j \in Intents \ {i} : intent'[j] = intent[j] /\ made'[j] = made[j]
  PROVE  Lives' = [Lives EXCEPT ![i] = LifeOf(i)']
<1>1. \A j \in Intents \ {i} : LifeOf(j)' = LifeOf(j)
  BY DEF LifeOf
<1> QED BY <1>1 DEF Lives

(* Where a write of a row may take an intent. *)
Moves == {<<"none", "waiting">>, <<"waiting", "failed">>, <<"failed", "waiting">>,
          <<"given", "done">>}

LEMMA WriteRefines ==
  ASSUME NEW i \in Intents, UNCHANGED <<made, overlapped>>,
         \A j \in Intents \ {i} : intent'[j] = intent[j],
         <<LifeOf(i), LifeOf(i)'>> \in Moves \/ LifeOf(i)' = LifeOf(i)
  PROVE  Life!LifeNext \/ UNCHANGED <<Lives, made>>
<1>1. Lives' = [Lives EXCEPT ![i] = LifeOf(i)'] /\ Lives[i] = LifeOf(i)
  BY OneLife DEF Lives
<1>2. CASE LifeOf(i)' = LifeOf(i)
  <2>1. Lives' = Lives
    BY <1>1, <1>2 DEF Lives
  <2> QED BY <2>1
<1>3. CASE LifeOf(i) = "none" /\ LifeOf(i)' = "waiting"
  <2>1. Life!Request(i)
    BY <1>1, <1>3 DEF Life!Request, Life!Become, Lives
  <2> QED BY <2>1 DEF Life!LifeNext
<1>4. CASE LifeOf(i) = "waiting" /\ LifeOf(i)' = "failed"
  <2>1. Life!Refuse(i)
    BY <1>1, <1>4 DEF Life!Refuse, Life!Become, Lives
  <2> QED BY <2>1 DEF Life!LifeNext
<1>5. CASE LifeOf(i) = "failed" /\ LifeOf(i)' = "waiting"
  <2>1. Life!Retry(i)
    BY <1>1, <1>5 DEF Life!Retry, Life!Become, Lives
  <2> QED BY <2>1 DEF Life!LifeNext
<1>6. CASE LifeOf(i) = "given" /\ LifeOf(i)' = "done"
  <2>1. Life!Report(i)
    BY <1>1, <1>6 DEF Life!Report, Life!Become, Lives
  <2> QED BY <2>1 DEF Life!LifeNext
<1> QED BY <1>2, <1>3, <1>4, <1>5, <1>6 DEF Moves

(* A caller that reads intents contests those that another one has in hand. *)
LEMMA TakeRefines ==
  ASSUME RefundsTypeOK, NEW c \in Callers, NEW r, Take(c, r),
         r.todo \cup ({r.at} \ {NoIntent}) \subseteq Intents, UNCHANGED <<intent, made>>
  PROVE  Life!LifeNext
<1> DEFINE S == (overlapped' \ overlapped) \cap Intents
<1>1. \A i \in Intents : LifeOf(i)' = IF i \in S THEN "contested" ELSE LifeOf(i)
  <2>1. overlapped \subseteq overlapped'
    BY DEF Take
  <2> QED BY <2>1 DEF LifeOf
<1>2. Lives' = [i \in Intents |-> IF i \in S THEN "contested" ELSE Lives[i]]
  BY <1>1 DEF Lives
<1>3. PICK T \in SUBSET Intents : T = S
  OBVIOUS
<1>4. Life!Contest(T)
  BY <1>2, <1>3 DEF Life!Contest, Lives
<1> QED BY <1>4 DEF Life!LifeNext

(* A refund is made for an intent that waits, or has been contested. *)
LEMMA CallRefines ==
  ASSUME IInv, NEW c \in Callers, Call(c)
  PROVE  Life!LifeNext \/ UNCHANGED <<Lives, made>>
<1> USE DEF IInv
<1> PICK i \in Intents : i = run[c].at
  BY DEF Shape, Call
<1>1. UNCHANGED <<intent, overlapped>>
  BY DEF Call, Quiet
<1>2. CASE UNCHANGED made
  <2>1. Lives' = Lives
    BY <1>1, <1>2 DEF Lives, LifeOf
  <2> QED BY <1>2, <2>1
<1>3. CASE i \notin known /\ made' = [made EXCEPT ![i] = @ + 1]
  <2>1. /\ made[i] \in Nat /\ made'[i] = made[i] + 1 /\ made \in [Intents -> Nat]
        /\ \A j \in Intents \ {i} : made'[j] = made[j]
    BY <1>3 DEF RefundsTypeOK
  <2>2. Lives' = [Lives EXCEPT ![i] = LifeOf(i)'] /\ Lives[i] = LifeOf(i)
    BY <1>1, <2>1, OneLife DEF Lives
  <2>3. CASE i \in overlapped
    <3>1. LifeOf(i) = "contested" /\ LifeOf(i)' = "contested"
      BY <1>1, <2>3 DEF LifeOf
    <3>2. Lives' = Lives
      BY <2>2, <3>1 DEF Lives
    <3>3. Life!GiveAgain(i)
      BY <1>3, <2>2, <3>1, <3>2 DEF Life!GiveAgain, Lives
    <3> QED BY <3>3 DEF Life!LifeNext
  <2>4. CASE i \notin overlapped
    <3>1. intent[i].status = "executing"
      BY <2>4 DEF Call, Marked, Busy
    <3>2. made[i] = 0
      BY <1>3, <2>1, <2>4 DEF Lone, AtRest
    <3>3. LifeOf(i) = "waiting" /\ LifeOf(i)' = "given"
      BY <1>1, <2>1, <2>4, <3>1, <3>2 DEF LifeOf
    <3>4. made' = [made EXCEPT ![i] = 1]
      BY <1>3, <2>1, <3>2
    <3>5. Life!Give(i)
      BY <2>2, <3>2, <3>3, <3>4 DEF Life!Give, Life!Become, Lives
    <3> QED BY <3>5 DEF Life!LifeNext
  <2> QED BY <2>3, <2>4
<1> QED BY <1>2, <1>3 DEF Call, stripe

(* A caller that marks, fails or records the intent it has in hand, as its  *)
(* only caller, makes one of the moves: what has been refunded is executing *)
(* and gets executed, what has not is not executed.                         *)
LEMMA WritesRefine ==
  ASSUME IInv, HandsOff, NEW c \in Callers,
         (\E i \in Intents : Mark(c, i)) \/ Fail(c) \/ Record(c) \/ CommitRetry(c)
  PROVE  Life!LifeNext \/ UNCHANGED <<Lives, made>>
<1> USE DEF IInv
<1>a. /\ intent \in [Intents -> Row] /\ made \in [Intents -> Nat]
      /\ overlapped' = overlapped /\ made' = made
  BY DEF RefundsTypeOK, Mark, Fail, Record, CommitRetry, Quiet, stripe
<1>b. ASSUME NEW i \in Intents, i \in overlapped PROVE LifeOf(i)' = LifeOf(i)
  BY <1>a, <1>b DEF LifeOf
<1>c. ASSUME NEW i \in Intents, intent[i].status = "executed" PROVE made[i] > 0
  BY <1>a, <1>c DEF ExecutedNamesRefund
<1>1. ASSUME NEW i \in Intents, Mark(c, i)
      PROVE  Life!LifeNext \/ UNCHANGED <<Lives, made>>
  <2>1. /\ intent'[i].status = "executing"
        /\ \A j \in Intents \ {i} : intent'[j] = intent[j]
    BY <1>a, <1>1 DEF Mark, SetStatus, Row
  <2>2. i \in InHand(c)
    BY <1>1 DEF Mark, InHand
  <2>3. i \notin overlapped => intent[i].status # "executed"
    BY <2>2 DEF HandsOff
  <2>4. <<LifeOf(i), LifeOf(i)'>> \in Moves \/ LifeOf(i)' = LifeOf(i)
    BY <1>a, <1>b, <2>1, <2>3 DEF LifeOf, Moves
  <2> QED BY <1>a, <2>1, <2>4, WriteRefines
<1>2. CASE Fail(c)
  <2> PICK i \in Intents : i = run[c].at
    BY <1>2 DEF Shape, Fail
  <2>1. /\ intent'[i].status = "failed"
        /\ \A j \in Intents \ {i} : intent'[j] = intent[j]
    BY <1>a, <1>2 DEF Fail, SetStatus, Row
  <2>2. i \notin overlapped => intent[i].status = "executing" /\ ~(made[i] > 0)
    BY <1>2 DEF Fail, Marked, Busy, Lone
  <2>3. <<LifeOf(i), LifeOf(i)'>> \in Moves \/ LifeOf(i)' = LifeOf(i)
    BY <1>a, <1>b, <2>1, <2>2 DEF LifeOf, Moves
  <2> QED BY <1>a, <2>1, <2>3, WriteRefines
<1>3. CASE Record(c)
  <2> PICK i \in Intents : i = run[c].at
    BY <1>3 DEF Shape, Record
  <2>1. /\ intent'[i].status = "executed"
        /\ \A j \in Intents \ {i} : intent'[j] = intent[j]
    BY <1>a, <1>3 DEF Record, Row
  <2>2. made[i] > 0 /\ (i \notin overlapped => intent[i].status = "executing")
    BY <1>3 DEF Record, Marked, Busy, PaidFirst
  <2>3. <<LifeOf(i), LifeOf(i)'>> \in Moves \/ LifeOf(i)' = LifeOf(i)
    BY <1>a, <1>b, <2>1, <2>2 DEF LifeOf, Moves
  <2> QED BY <1>a, <2>1, <2>3, WriteRefines
<1>4. CASE CommitRetry(c)
  <2> PICK i \in Intents : i = run[c].at
    BY <1>4 DEF Shape, CommitRetry
  <2>1. /\ intent'[i].status = "pending_execution"
        /\ \A j \in Intents \ {i} : intent'[j] = intent[j]
    BY <1>a, <1>4 DEF CommitRetry, Row
  <2>2. i \notin overlapped => ~(made[i] > 0)
    BY <1>4 DEF CommitRetry, Lone
  <2>3. i \notin overlapped => intent[i].status # "executed"
    BY <1>c, <2>2
  <2>4. <<LifeOf(i), LifeOf(i)'>> \in Moves \/ LifeOf(i)' = LifeOf(i)
    BY <1>a, <1>b, <2>1, <2>2, <2>3 DEF LifeOf, Moves
  <2> QED BY <1>a, <2>1, <2>4, WriteRefines
<1> QED BY <1>1, <1>2, <1>3, <1>4

(* A new row is that of an intent that nobody has refunded. *)
LEMMA RequestRefines ==
  ASSUME IInv, NEW c \in Admins, NEW i \in Intents, NEW a \in Nat,
         CreateRefundIntent(c, i, a)
  PROVE  Life!LifeNext \/ UNCHANGED <<Lives, made>>
<1>1. /\ intent[i].status = "none" /\ intent'[i].status = "pending_execution"
      /\ UNCHANGED <<made, overlapped>>
      /\ \A j \in Intents \ {i} : intent'[j] = intent[j]
      /\ made[i] \in Nat
  BY DEF IInv, RefundsTypeOK, CreateRefundIntent, Quiet, stripe
<1>2. i \notin overlapped => ~(made[i] > 0)
  BY <1>1 DEF IInv, Lone
<1>3. <<LifeOf(i), LifeOf(i)'>> \in Moves \/ LifeOf(i)' = LifeOf(i)
  BY <1>1, <1>2 DEF LifeOf, Moves
<1> QED BY <1>1, <1>3, WriteRefines

(* Workers, passes and admins implement RefundLife, whatever they find the  *)
(* intent in and wherever they fail: with one caller at a time an intent is *)
(* refunded once, only while it waits, and never refused or retried after.  *)
THEOREM RefundsImplementLife == Spec => ImplementsLife
<1>1. Init => HandsOff /\ Life!LifeInit
  BY DEF Init, HandsOff, InHand, Idle, Life!LifeInit, LifeOf, NewRow
<1>2. IInv /\ HandsOff /\ [Next]_vars => HandsOff'
  BY HandsOffStep
<1>3. IInv /\ HandsOff /\ [Next]_vars => [Life!LifeNext]_(Life!lvars)
  <2> SUFFICES ASSUME IInv, HandsOff, [Next]_vars
               PROVE  Life!LifeNext \/ UNCHANGED <<Lives, made>>
    BY DEF Life!lvars, Lives
  <2>1. ASSUME UNCHANGED <<intent, made, overlapped>> PROVE UNCHANGED <<Lives, made>>
    BY <2>1 DEF Lives, LifeOf
  <2>2. RefundsTypeOK
    BY DEF IInv
  <2>3. ASSUME NEW p \in Passes, NEW S \in SUBSET Intents, BeginPass(p, S) PROVE Life!LifeNext
    <3> DEFINE r == [Idle EXCEPT !.stage = "mark", !.todo = S]
    <3>1. Take(p, r) /\ p \in Callers /\ UNCHANGED <<intent, made>>
      BY <2>3 DEF BeginPass, Callers, stripe
    <3>2. r.todo \cup ({r.at} \ {NoIntent}) \subseteq Intents
      BY DEF Idle
    <3> HIDE DEF r
    <3> QED BY <2>2, <3>1, <3>2, TakeRefines
  <2>4. ASSUME NEW w \in Workers, NEW k \in Jobs, BeginJob(w, k)
        PROVE  Life!LifeNext \/ UNCHANGED <<Lives, made>>
    <3> DEFINE r == [stage |-> "mark", todo |-> {k[1]}, at |-> NoIntent, job |-> k]
    <3>1. /\ Take(w, r) \/ overlapped' = overlapped
          /\ w \in Callers /\ UNCHANGED <<intent, made>>
      BY <2>4 DEF BeginJob, Callers, stripe, Quiet
    <3>2. r.todo \cup ({r.at} \ {NoIntent}) \subseteq Intents
      BY DEF Jobs
    <3> HIDE DEF r
    <3> QED BY <2>1, <2>2, <3>1, <3>2, TakeRefines
  <2>5. ASSUME NEW c \in Admins, NEW i \in Intents, BeginRetry(c, i) PROVE Life!LifeNext
    <3> DEFINE r == [Idle EXCEPT !.stage = "retry", !.at = i]
    <3>1. Take(c, r) /\ c \in Callers /\ UNCHANGED <<intent, made>>
      BY <2>5 DEF BeginRetry, Callers, stripe
    <3>2. r.todo \cup ({r.at} \ {NoIntent}) \subseteq Intents
      BY DEF Idle
    <3> HIDE DEF r
    <3> QED BY <2>2, <3>1, <3>2, TakeRefines
  <2>6. ASSUME NEW c \in Callers,
               Look(c) \/ Refused(c) \/ CallFails(c) \/ Enqueue(c) \/ NoQueue(c)
        PROVE  UNCHANGED <<intent, made, overlapped>>
    BY <2>6 DEF Look, Refused, CallFails, Enqueue, NoQueue, Throws, Quiet, stripe
  <2>7. CustomerPays \/ (\E i \in Intents : KeyLapses(i)) \/ UNCHANGED vars =>
          UNCHANGED <<intent, made, overlapped>>
    BY DEF CustomerPays, KeyLapses, Quiet, vars
  <2>8. Admins \subseteq Callers
    BY DEF Callers
  <2> QED
    BY <2>1, <2>2, <2>3, <2>4, <2>5, <2>6, <2>7, <2>8, StepKinds, CallRefines,
       WritesRefine, RequestRefines
<1> QED
  BY <1>1, <1>2, <1>3, RefundsInvariant, PTL DEF Spec, ImplementsLife, Life!LifeSpec
=============================================================================
