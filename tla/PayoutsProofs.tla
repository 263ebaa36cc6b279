--------------------------- MODULE PayoutsProofs ----------------------------
(***************************************************************************)
(* For any sets of bookings, FOs, batches, keys and concurrent calls: the  *)
(* payout path is type correct, pays a batch entirely or not at all, gives *)
(* it one executor, and an execution during which no other one commits     *)
(* pays no FO more than it has earned.                                     *)
(***************************************************************************)
EXTENDS Payouts, FiniteSetTheorems, TLAPS

Locks(c) == call[c].stage \in {"preview", "lines"}
Executes(c) == call[c].stage \in {"begin", "post"}

(* A batch is filled by the one call that created it, and is empty before. *)
LockerAlone ==
  /\ \A k \in Batches : batch[k].status = "none" => batch[k].lines = Nothing
  /\ \A c \in Calls : Locks(c) => /\ batch[call[c].batch].status # "none"
                                  /\ batch[call[c].batch].lines = Nothing
  /\ \A c, d \in Calls : Locks(c) /\ Locks(d) /\ call[c].batch = call[d].batch => c = d

(* What is paid has been claimed, and whoever executes a batch is the first *)
(* to do so, with the lines of the batch or, too early, with none.          *)
PaidWasClaimed ==
  /\ \A k \in Batches : posted[k] # Nothing => batch[k].key # NoKey
  /\ \A c \in Calls : Executes(c) => posted[call[c].batch] = Nothing
  /\ \A c \in Calls :
       At(c, "post") => call[c].lines \in {Nothing, batch[call[c].batch].lines}

(* What a lone execution has checked stays covered until it commits. *)
CheckedIsCovered ==
  \A c \in Calls :
    At(c, "post") /\ ~call[c].stale =>
      \A f \in Lines(call[c].lines) \ call[c].todo : call[c].lines[f] <= Payable(f)

IInv ==
  /\ PayoutsTypeOK
  /\ LockerAlone
  /\ ClaimIsFinal
  /\ PaidWasClaimed
  /\ AllOrNothing
  /\ CheckedIsCovered

-----------------------------------------------------------------------------
(* Type correctness *)

(* The stage of a call tells which of the two operations it is in. *)
LEMMA Stages ==
  ASSUME PayoutsTypeOK, NEW c \in Calls
  PROVE  /\ Locks(c) => call[c] \in Locking
         /\ call[c].stage \in {"gate", "begin", "post"} => call[c] \in Executing
  BY DEF PayoutsTypeOK, Idle, Locking, Executing, Locks

(* A batch without lines. *)
LEMMA NothingIsAmounts == Nothing \in Amounts /\ Lines(Nothing) = {}
  BY DEF Nothing, Amounts, Lines

(* Counts of bookings are natural numbers. *)
LEMMA CountsAreNat ==
  ASSUME NEW f \in FOs
  PROVE  Credits(f) \in Nat /\ EligibleCredits(f) \in Nat
<1>1. ASSUME NEW S, S \subseteq Bookings PROVE Cardinality(S) \in Nat
  BY <1>1, PayoutsAssumption, FS_Subset, FS_CardinalityType
<1>2. QED
  BY <1>1 DEF Credits, EligibleCredits

(* The entries of bookings touch nothing else. *)
LEMMA EarnEnters ==
  ASSUME NEW b \in Bookings, Earn(b)
  PROVE  /\ \E kind \in Entries : book' = [book EXCEPT ![b] = @ \cup {kind}]
         /\ UNCHANGED <<batch, posted, paid, call>>
  BY DEF Earn, Charge, Settle, Refund, Withdraw, Reinstate, Enter, Entries

(* Every step keeps the types of all variables. *)
LEMMA TypeStep ==
  ASSUME PayoutsTypeOK, [Next]_vars
  PROVE  PayoutsTypeOK'
<1> USE DEF PayoutsTypeOK
<1>1. ASSUME NEW b \in Bookings, Earn(b) PROVE PayoutsTypeOK'
  BY <1>1, EarnEnters
<1>2. ASSUME NEW c \in Calls, Lock(c) PROVE PayoutsTypeOK'
  <2>1. ASSUME NEW k \in Batches, LockCreate(c, k) PROVE PayoutsTypeOK'
    BY <2>1, NothingIsAmounts DEF LockCreate, Become, Locking, Batch
  <2>2. CASE LockPreview(c)
    <3>1. call[c] \in Locking
      BY <2>2, Stages DEF LockPreview, At, Locks
    <3>2. [f \in FOs |-> Preview(f)] \in Amounts
      BY CountsAreNat DEF Preview, Amounts
    <3>3. call'[c] \in Locking
      BY <2>2, <3>1, <3>2 DEF LockPreview, Locking
    <3>4. QED
      BY <2>2, <3>3 DEF LockPreview
  <2>3. CASE LockWrite(c)
    <3>1. call[c] \in Locking
      BY <2>3, Stages DEF LockWrite, At, Locks
    <3>2. batch' \in [Batches -> Batch]
      BY <2>3, <3>1 DEF LockWrite, Locking, Batch
    <3>3. QED
      BY <2>3, <3>2 DEF LockWrite, Finish, Become
  <2>4. QED
    BY <1>2, <2>1, <2>2, <2>3 DEF Lock
<1>3. ASSUME NEW c \in Calls, Execute(c) PROVE PayoutsTypeOK'
  <2>1. ASSUME NEW k \in Batches, NEW key \in Keys, BeginExecute(c, k, key)
        PROVE  PayoutsTypeOK'
    <3>1. batch[k].lines \in Amounts /\ Lines(batch[k].lines) \subseteq FOs
      BY DEF Batch, Lines
    <3>2. QED
      BY <2>1, <3>1 DEF BeginExecute, Become, Executing
  <2>2. ASSUME NEW f \in FOs, Gate(c, f) \/ PostLine(c, f) PROVE PayoutsTypeOK'
    <3>1. call[c] \in Executing
      BY <2>2, Stages DEF Gate, PostLine, At
    <3>2. call' \in [Calls -> {Idle} \cup Locking \cup Executing]
      BY <2>2, <3>1 DEF Gate, PostLine, Finish, Become, Executing
    <3>3. QED
      BY <2>2, <3>2 DEF Gate, PostLine
  <2>3. CASE Claim(c)
    <3>1. call[c] \in Executing
      BY <2>3, Stages DEF Claim, At
    <3>2. batch' \in [Batches -> Batch]
      BY <2>3, <3>1 DEF Claim, Executing, Batch
    <3>3. call' \in [Calls -> {Idle} \cup Locking \cup Executing]
      BY <2>3, <3>1 DEF Claim, Finish, Become, Executing
    <3>4. QED
      BY <2>3, <3>2, <3>3 DEF Claim
  <2>4. CASE BeginPosting(c)
    <3>1. call[c] \in Executing
      BY <2>4, Stages DEF BeginPosting, At
    <3>2. /\ batch[call[c].batch].lines \in Amounts
          /\ Lines(batch[call[c].batch].lines) \subseteq FOs
      BY <3>1 DEF Batch, Lines, Executing
    <3>3. call' \in [Calls -> {Idle} \cup Locking \cup Executing]
      BY <2>4, <3>1, <3>2 DEF BeginPosting, Executing
    <3>4. QED
      BY <2>4, <3>3 DEF BeginPosting
  <2>5. CASE CommitExecution(c)
    <3>1. call[c] \in Executing
      BY <2>5, Stages DEF CommitExecution, At
    <3>2. batch' \in [Batches -> Batch]
      BY <2>5, <3>1 DEF CommitExecution, Executing, Batch
    <3>3. posted' \in [Batches -> Amounts] /\ paid' \in Amounts
      BY <2>5, <3>1 DEF CommitExecution, Executing, Amounts
    <3>4. ASSUME NEW d \in Calls, At(d, "post")
          PROVE  [call[d] EXCEPT !.stale = TRUE] \in Executing
      BY <3>4, Stages DEF At, Executing
    <3>5. call' \in [Calls -> {Idle} \cup Locking \cup Executing]
      BY <2>5, <3>4 DEF CommitExecution
    <3>6. QED
      BY <2>5, <3>2, <3>3, <3>5 DEF CommitExecution
  <2>6. QED
    BY <1>3, <2>1, <2>2, <2>3, <2>4, <2>5 DEF Execute
<1>4. ASSUME NEW c \in Calls, CallFails(c) PROVE PayoutsTypeOK'
  BY <1>4 DEF CallFails, Finish, Become
<1>5. CASE UNCHANGED vars
  BY <1>5 DEF vars
<1>6. QED
  BY <1>1, <1>2, <1>3, <1>4, <1>5 DEF Next

(* The types hold in the beginning. *)
LEMMA TypeInit == Init => PayoutsTypeOK
  BY NothingIsAmounts DEF Init, PayoutsTypeOK, Batch

(* Batches, their lines and keys, the payout entries and the places of the  *)
(* calls keep their types.                                                  *)
THEOREM PayoutsTypeCorrect == Spec => []PayoutsTypeOK
<1>1. PayoutsTypeOK /\ [Next]_vars => PayoutsTypeOK'
  BY TypeStep
<1>2. QED
  BY TypeInit, <1>1, PTL DEF Spec

-----------------------------------------------------------------------------
(* Filling a batch *)

(* Steps of markExecuted, and failures, begin no lockBatch and leave the    *)
(* lines of all batches alone.                                              *)
LEMMA ExecuteKeepsLines ==
  ASSUME PayoutsTypeOK, NEW c \in Calls, Execute(c) \/ CallFails(c)
  PROVE  /\ \A k \in Batches : /\ batch'[k].lines = batch[k].lines
                               /\ batch'[k].status = "none" => batch[k].status = "none"
         /\ \A d \in Calls : Locks(d)' => call'[d] = call[d]
<1> USE DEF PayoutsTypeOK
<1>1. ASSUME NEW k \in Batches, NEW key \in Keys, BeginExecute(c, k, key)
      PROVE  UNCHANGED batch /\ \A d \in Calls : Locks(d)' => call'[d] = call[d]
  BY <1>1 DEF BeginExecute, Become, Locks
<1>2. ASSUME NEW f \in FOs, Gate(c, f) \/ PostLine(c, f)
      PROVE  UNCHANGED batch /\ \A d \in Calls : Locks(d)' => call'[d] = call[d]
  <2>1. call[c] \in Executing
    BY <1>2, Stages DEF Gate, PostLine, At
  <2>2. QED
    BY <1>2, <2>1 DEF Gate, PostLine, At, Finish, Become, Idle, Locks, Executing
<1>3. CASE Claim(c)
  <2>1. call[c] \in Executing
    BY <1>3, Stages DEF Claim, At
  <2>2. \A k \in Batches : /\ batch'[k].lines = batch[k].lines
                           /\ batch'[k].status = batch[k].status
    BY <1>3, <2>1 DEF Claim, Executing, Batch
  <2>3. \A d \in Calls : Locks(d)' => call'[d] = call[d]
    BY <1>3, <2>1 DEF Claim, At, Finish, Become, Idle, Locks, Executing
  <2>4. QED
    BY <2>2, <2>3
<1>4. CASE BeginPosting(c)
  <2>1. call[c] \in Executing
    BY <1>4, Stages DEF BeginPosting, At
  <2>2. QED
    BY <1>4, <2>1 DEF BeginPosting, Locks, Executing
<1>5. CASE CommitExecution(c)
  <2>1. call[c] \in Executing
    BY <1>5, Stages DEF CommitExecution, At
  <2>2. \A k \in Batches : /\ batch'[k].lines = batch[k].lines
                           /\ batch'[k].status = "none" => batch[k].status = "none"
    BY <1>5, <2>1 DEF CommitExecution, Executing, Batch
  <2>3. ASSUME NEW d \in Calls, Locks(d)' PROVE call'[d] = call[d]
    <3>1. CASE At(d, "post")
      <4>1. call[d] \in Executing
        BY <3>1, Stages DEF At
      <4>2. QED
        BY <1>5, <2>3, <3>1, <4>1 DEF CommitExecution, At, Idle, Locks, Executing
    <3>2. CASE ~At(d, "post")
      BY <1>5, <2>3, <3>2 DEF CommitExecution, Idle, Locks
    <3>3. QED
      BY <3>1, <3>2
  <2>4. QED
    BY <2>2, <2>3
<1>6. CASE CallFails(c)
  BY <1>6 DEF CallFails, Finish, Become, Idle, Locks
<1>7. QED
  BY <1>1, <1>2, <1>3, <1>4, <1>5, <1>6 DEF Execute

(* No step lets a second call fill a batch, or fills one twice. *)
LEMMA LockerStep ==
  ASSUME IInv, [Next]_vars
  PROVE  LockerAlone'
<1> USE DEF IInv, PayoutsTypeOK, LockerAlone
<1>1. ASSUME NEW b \in Bookings, Earn(b) PROVE LockerAlone'
  BY <1>1, EarnEnters DEF Locks
<1>2. ASSUME NEW c \in Calls, NEW k \in Batches, LockCreate(c, k) PROVE LockerAlone'
  <2>1. /\ batch'[k].status = "draft" /\ batch'[k].lines = batch[k].lines
        /\ \A j \in Batches \ {k} : batch'[j] = batch[j]
    BY <1>2 DEF LockCreate, Batch
  <2>2. /\ call'[c].batch = k
        /\ \A d \in Calls \ {c} : call'[d] = call[d]
    BY <1>2 DEF LockCreate, Become
  <2>3. \A d \in Calls \ {c} : Locks(d)' => Locks(d) /\ call[d].batch # k
    BY <1>2, <2>2 DEF Locks, LockCreate
  <2>4. \A d \in Calls \ {c} : Locks(d)' => call[d].batch \in Batches
    BY <2>3, Stages DEF Locking
  <2>5. \A j \in Batches : batch'[j].status = "none" => batch'[j].lines = Nothing
    BY <2>1
  <2>6. \A d \in Calls : Locks(d)' => /\ batch'[call'[d].batch].status # "none"
                                      /\ batch'[call'[d].batch].lines = Nothing
    BY <1>2, <2>1, <2>2, <2>3, <2>4 DEF LockCreate
  <2>7. QED
    BY <2>2, <2>3, <2>5, <2>6 DEF Nothing
<1>3. ASSUME NEW c \in Calls, LockPreview(c) PROVE LockerAlone'
  <2>1. call[c] \in Locking /\ Locks(c)
    BY <1>3, Stages DEF LockPreview, At, Locks
  <2>2. \A d \in Calls : /\ Locks(d)' => Locks(d)
                         /\ call'[d].batch = call[d].batch
    BY <1>3, <2>1 DEF LockPreview, Locks, Locking
  <2>3. QED
    BY <1>3, <2>2 DEF LockPreview, Nothing
<1>4. ASSUME NEW c \in Calls, LockWrite(c) PROVE LockerAlone'
  <2>1. call[c] \in Locking /\ Locks(c)
    BY <1>4, Stages DEF LockWrite, At, Locks
  <2>2. /\ batch'[call[c].batch].status # "none"
        /\ \A k \in Batches \ {call[c].batch} : batch'[k] = batch[k]
    BY <1>4, <2>1 DEF LockWrite, Locking, Batch
  <2>3. \A d \in Calls : Locks(d)' => d # c /\ Locks(d) /\ call'[d] = call[d]
    BY <1>4 DEF LockWrite, Finish, Become, Idle, Locks
  <2>4. \A d \in Calls : Locks(d)' => call[d].batch \in Batches \ {call[c].batch}
    BY <2>1, <2>3, Stages DEF Locking
  <2>5. \A k \in Batches : batch'[k].status = "none" => batch'[k].lines = Nothing
    BY <2>1, <2>2 DEF Locking
  <2>6. QED
    BY <2>2, <2>3, <2>4, <2>5 DEF Nothing
<1>5. ASSUME NEW c \in Calls, Execute(c) \/ CallFails(c) PROVE LockerAlone'
  <2>1. \A d \in Calls : Locks(d)' => Locks(d) /\ call'[d] = call[d]
    BY <1>5, ExecuteKeepsLines DEF Locks
  <2>2. \A d \in Calls : Locks(d) => call[d].batch \in Batches
    BY Stages DEF Locking
  <2>3. QED
    BY <1>5, <2>1, <2>2, ExecuteKeepsLines DEF Nothing
<1>6. CASE UNCHANGED vars
  BY <1>6 DEF vars, Locks, Nothing
<1>7. QED
  BY <1>1, <1>2, <1>3, <1>4, <1>5, <1>6 DEF Next, Lock

-----------------------------------------------------------------------------
(* Executing a batch *)

(* d is executing the same batch with the same key as before this step. *)
Stays(d) ==
  /\ Executes(d)
  /\ call'[d].batch = call[d].batch
  /\ call'[d].key = call[d].key

(* Only Claim adds an executing call or writes a key. *)
LEMMA OnlyClaimClaims ==
  ASSUME PayoutsTypeOK, [Next]_vars, ~\E c \in Calls : Claim(c)
  PROVE  /\ \A k \in Batches : batch'[k].key = batch[k].key
         /\ \A d \in Calls : Executes(d)' => Stays(d)
<1> USE DEF PayoutsTypeOK
<1>1. ASSUME NEW b \in Bookings, Earn(b)
      PROVE  UNCHANGED <<batch, call>>
  BY <1>1, EarnEnters
<1>2. ASSUME NEW c \in Calls, NEW k \in Batches, LockCreate(c, k)
      PROVE  /\ \A j \in Batches : batch'[j].key = batch[j].key
             /\ \A d \in Calls : Executes(d)' => call'[d] = call[d]
  BY <1>2 DEF LockCreate, Become, Executes, Batch
<1>3. ASSUME NEW c \in Calls, LockPreview(c) \/ LockWrite(c)
      PROVE  /\ \A j \in Batches : batch'[j].key = batch[j].key
             /\ \A d \in Calls : Executes(d)' => call'[d] = call[d]
  <2>1. call[c] \in Locking
    BY <1>3, Stages DEF LockPreview, LockWrite, At, Locks
  <2>2. \A j \in Batches : batch'[j].key = batch[j].key
    BY <1>3, <2>1 DEF LockPreview, LockWrite, Locking, Batch
  <2>3. \A d \in Calls : Executes(d)' => call'[d] = call[d]
    BY <1>3, <2>1 DEF LockPreview, LockWrite, Finish, Become, Idle, Executes, Locking
  <2>4. QED
    BY <2>2, <2>3
<1>4. ASSUME NEW c \in Calls, NEW k \in Batches, NEW key \in Keys, BeginExecute(c, k, key)
      PROVE  UNCHANGED batch /\ \A d \in Calls : Executes(d)' => call'[d] = call[d]
  BY <1>4 DEF BeginExecute, Become, Executes
<1>5. ASSUME NEW c \in Calls, NEW f \in FOs, Gate(c, f)
      PROVE  UNCHANGED batch /\ \A d \in Calls : Executes(d)' => call'[d] = call[d]
  <2>1. call[c] \in Executing
    BY <1>5, Stages DEF Gate, At
  <2>2. QED
    BY <1>5, <2>1 DEF Gate, At, Finish, Become, Idle, Executes, Executing
<1>6. ASSUME NEW c \in Calls, NEW f \in FOs, PostLine(c, f)
      PROVE  UNCHANGED batch /\ \A d \in Calls : Executes(d)' => Stays(d)
  <2>1. call[c] \in Executing
    BY <1>6, Stages DEF PostLine, At
  <2>2. QED
    BY <1>6, <2>1 DEF PostLine, At, Finish, Become, Idle, Executes, Stays, Executing
<1>7. ASSUME NEW c \in Calls, BeginPosting(c)
      PROVE  UNCHANGED batch /\ \A d \in Calls : Executes(d)' => Stays(d)
  <2>1. call[c] \in Executing
    BY <1>7, Stages DEF BeginPosting, At
  <2>2. QED
    BY <1>7, <2>1 DEF BeginPosting, At, Executes, Stays, Executing
<1>8. ASSUME NEW c \in Calls, CommitExecution(c)
      PROVE  /\ \A k \in Batches : batch'[k].key = batch[k].key
             /\ \A d \in Calls : Executes(d)' => Stays(d)
  <2>1. call[c] \in Executing
    BY <1>8, Stages DEF CommitExecution, At
  <2>2. \A k \in Batches : batch'[k].key = batch[k].key
    BY <1>8, <2>1 DEF CommitExecution, Executing, Batch
  <2>3. ASSUME NEW d \in Calls, Executes(d)' PROVE Stays(d)
    <3>1. CASE At(d, "post")
      <4>1. call[d] \in Executing
        BY <3>1, Stages DEF At
      <4>2. QED
        BY <1>8, <2>3, <3>1, <4>1 DEF CommitExecution, At, Idle, Executes, Stays, Executing
    <3>2. CASE ~At(d, "post")
      BY <1>8, <2>3, <3>2 DEF CommitExecution, Idle, Executes, Stays
    <3>3. QED
      BY <3>1, <3>2
  <2>4. QED
    BY <2>2, <2>3
<1>9. ASSUME NEW c \in Calls, CallFails(c)
      PROVE  UNCHANGED batch /\ \A d \in Calls : Executes(d)' => call'[d] = call[d]
  BY <1>9 DEF CallFails, Finish, Become, Idle, Executes
<1>10. QED
  BY <1>1, <1>2, <1>3, <1>4, <1>5, <1>6, <1>7, <1>8, <1>9
     DEF Next, Lock, Execute, vars, Executes, Stays

(* Claim, if it is granted: the key is written where there was none. *)
LEMMA ClaimGrants ==
  ASSUME PayoutsTypeOK, NEW c \in Calls, Claim(c), Executes(c)'
  PROVE  /\ call[c].batch \in Batches /\ call[c].key \in Keys
         /\ batch[call[c].batch].key = NoKey
         /\ batch'[call[c].batch].key = call[c].key
         /\ call'[c].stage = "begin" /\ call'[c].batch = call[c].batch
         /\ call'[c].key = call[c].key
         /\ \A k \in Batches \ {call[c].batch} : batch'[k].key = batch[k].key
         /\ \A k \in Batches : batch[k].key # call[c].key
<1> USE DEF PayoutsTypeOK
<1>1. call[c] \in Executing
  BY Stages DEF Claim, At
<1>2. call'[c] # Idle
  BY DEF Executes, Idle
<1>3. /\ batch[call[c].batch].key = NoKey
      /\ \A k \in Batches : batch[k].key # call[c].key
      /\ batch' = [batch EXCEPT ![call[c].batch].key = call[c].key]
      /\ call' = [call EXCEPT ![c].stage = "begin"]
  BY <1>2 DEF Claim, Finish, Become
<1>4. QED
  BY <1>1, <1>3 DEF Executing, Batch

(* The other calls do not notice a claim. *)
LEMMA ClaimLeavesOthers ==
  ASSUME PayoutsTypeOK, NEW c \in Calls, Claim(c)
  PROVE  /\ \A d \in Calls \ {c} : call'[d] = call[d]
         /\ ~Executes(c)' => UNCHANGED batch
         /\ \A k \in Batches : /\ batch'[k].lines = batch[k].lines
                               /\ batch'[k].status = batch[k].status
<1> USE DEF PayoutsTypeOK
<1>1. call[c] \in Executing
  BY Stages DEF Claim, At
<1>2. call' = [call EXCEPT ![c].stage = "begin"] => Executes(c)'
  BY <1>1 DEF Executes, Executing
<1>3. QED
  BY <1>1, <1>2 DEF Claim, Finish, Become, Executing, Batch

(* A batch that someone executes keeps that executor and its key. *)
LEMMA ClaimStep ==
  ASSUME IInv, [Next]_vars
  PROVE  ClaimIsFinal'
<1> USE DEF IInv, PayoutsTypeOK
<1>1. ClaimIsFinal <=>
        /\ \A c, d \in Calls :
             Executes(c) /\ Executes(d) /\ call[c].batch = call[d].batch => c = d
        /\ \A c \in Calls : Executes(c) => batch[call[c].batch].key = call[c].key
  BY DEF ClaimIsFinal, Executes
<1>2. ClaimIsFinal' <=>
        /\ \A c, d \in Calls :
             Executes(c)' /\ Executes(d)' /\ call'[c].batch = call'[d].batch => c = d
        /\ \A c \in Calls : Executes(c)' => batch'[call'[c].batch].key = call'[c].key
  BY DEF ClaimIsFinal, Executes
<1>3. \A d \in Calls : Executes(d) => call[d].batch \in Batches /\ call[d].key \in Keys
  BY Stages DEF Executes, Executing
<1>4. CASE ~\E c \in Calls : Claim(c)
  BY <1>1, <1>2, <1>3, <1>4, OnlyClaimClaims DEF Stays
<1>5. ASSUME NEW c \in Calls, Claim(c) PROVE ClaimIsFinal'
  <2>1. \A d \in Calls \ {c} : Executes(d)' => Executes(d) /\ call'[d] = call[d]
    BY <1>5, ClaimLeavesOthers DEF Executes
  <2>2. CASE Executes(c)'
    <3>1. \A d \in Calls \ {c} : Executes(d) => call[d].batch # call[c].batch
      BY <1>1, <1>3, <1>5, <2>2, ClaimGrants, PayoutsAssumption
    <3>2. QED
      BY <1>1, <1>2, <1>3, <1>5, <2>1, <2>2, <3>1, ClaimGrants
  <2>3. CASE ~Executes(c)'
    BY <1>1, <1>2, <1>3, <1>5, <2>1, <2>3, ClaimLeavesOthers
  <2>4. QED
    BY <2>2, <2>3
<1>6. QED
  BY <1>4, <1>5

-----------------------------------------------------------------------------
(* Paying *)

(* What is not a step of an execution's transaction posts nothing, and      *)
(* leaves the calls that are in theirs as they are (QuietSteps).            *)
Quiet(c) ==
  \/ Lock(c)
  \/ \E k \in Batches, key \in Keys : BeginExecute(c, k, key)
  \/ \E f \in FOs : Gate(c, f)
  \/ Claim(c)
  \/ CallFails(c)

(* Such a step leaves the books and the transactions alone. *)
LEMMA QuietSteps ==
  ASSUME PayoutsTypeOK, NEW c \in Calls, Quiet(c)
  PROVE  /\ UNCHANGED <<book, posted, paid>>
         /\ \A d \in Calls : At(d, "post")' => call'[d] = call[d]
<1> USE DEF PayoutsTypeOK
<1>1. ASSUME NEW k \in Batches, LockCreate(c, k)
      PROVE  \A d \in Calls : At(d, "post")' => call'[d] = call[d]
  BY <1>1 DEF LockCreate, Become, At
<1>2. ASSUME LockPreview(c) \/ LockWrite(c)
      PROVE  \A d \in Calls : At(d, "post")' => call'[d] = call[d]
  <2>1. call[c] \in Locking
    BY <1>2, Stages DEF LockPreview, LockWrite, At, Locks
  <2>2. QED
    BY <1>2, <2>1 DEF LockPreview, LockWrite, Finish, Become, Idle, At, Locking
<1>3. ASSUME NEW k \in Batches, NEW key \in Keys, BeginExecute(c, k, key)
      PROVE  \A d \in Calls : At(d, "post")' => call'[d] = call[d]
  BY <1>3 DEF BeginExecute, Become, At
<1>4. ASSUME NEW f \in FOs, Gate(c, f) \/ Claim(c)
      PROVE  \A d \in Calls : At(d, "post")' => call'[d] = call[d]
  <2>1. call[c] \in Executing
    BY <1>4, Stages DEF Gate, Claim, At
  <2>2. QED
    BY <1>4, <2>1 DEF Gate, Claim, At, Finish, Become, Idle, Executing
<1>5. ASSUME Claim(c)
      PROVE  \A d \in Calls : At(d, "post")' => call'[d] = call[d]
  <2>1. call[c] \in Executing
    BY <1>5, Stages DEF Claim, At
  <2>2. QED
    BY <1>5, <2>1 DEF Claim, At, Finish, Become, Idle, Executing
<1>6. ASSUME CallFails(c)
      PROVE  \A d \in Calls : At(d, "post")' => call'[d] = call[d]
  BY <1>6 DEF CallFails, Finish, Become, Idle, At
<1>7. \A d \in Calls : At(d, "post")' => call'[d] = call[d]
  BY <1>1, <1>2, <1>3, <1>4, <1>5, <1>6 DEF Quiet, Lock
<1>8. UNCHANGED <<book, posted, paid>>
  BY DEF Quiet, Lock, LockCreate, LockPreview, LockWrite, BeginExecute, Gate, Claim, CallFails
<1>9. QED
  BY <1>7, <1>8

(* The steps of an execution's transaction, but for its commit. *)
LEMMA PostingSteps ==
  ASSUME PayoutsTypeOK, NEW c \in Calls, BeginPosting(c) \/ \E f \in FOs : PostLine(c, f)
  PROVE  /\ UNCHANGED <<book, batch, posted, paid>>
         /\ \A d \in Calls \ {c} : call'[d] = call[d]
         /\ At(c, "post")' =>
              /\ call'[c].batch = call[c].batch /\ call[c].batch \in Batches
              /\ \/ BeginPosting(c) /\ call'[c].lines = batch[call[c].batch].lines
                                    /\ call'[c].todo = Lines(call'[c].lines)
                 \/ \E f \in FOs : /\ At(c, "post")
                                   /\ call'[c].lines = call[c].lines
                                   /\ call'[c].stale = call[c].stale
                                   /\ call'[c].todo = call[c].todo \ {f}
                                   /\ call[c].lines[f] <= Payable(f)
<1> USE DEF PayoutsTypeOK
<1>1. call[c] \in Executing
  BY Stages DEF BeginPosting, PostLine, At
<1>2. CASE BeginPosting(c)
  BY <1>1, <1>2 DEF BeginPosting, Executing
<1>3. ASSUME NEW f \in FOs, PostLine(c, f)
      PROVE  /\ UNCHANGED <<book, batch, posted, paid>>
             /\ \A d \in Calls \ {c} : call'[d] = call[d]
             /\ At(c, "post")' => /\ At(c, "post")
                                  /\ call'[c].batch = call[c].batch
                                  /\ call'[c].lines = call[c].lines
                                  /\ call'[c].stale = call[c].stale
                                  /\ call'[c].todo = call[c].todo \ {f}
                                  /\ call[c].lines[f] <= Payable(f)
  BY <1>1, <1>3 DEF PostLine, Finish, Become, Idle, At, Executing
<1>4. call[c].batch \in Batches
  BY <1>1 DEF Executing
<1>5. QED
  BY <1>2, <1>3, <1>4

(* The commit: what was in the transaction becomes visible, and the others  *)
(* that are in theirs have read too early.                                  *)
LEMMA CommitSteps ==
  ASSUME PayoutsTypeOK, NEW c \in Calls, CommitExecution(c)
  PROVE  /\ At(c, "post") /\ call[c].batch \in Batches /\ call[c].lines \in Amounts
         /\ ~At(c, "post")' /\ ~Executes(c)'
         /\ batch'[call[c].batch].status = "executed"
         /\ batch'[call[c].batch].lines = batch[call[c].batch].lines
         /\ \A k \in Batches \ {call[c].batch} : batch'[k] = batch[k]
         /\ posted' = [posted EXCEPT ![call[c].batch] = call[c].lines]
         /\ \A d \in Calls : At(d, "post")' => /\ At(d, "post") /\ call'[d].stale
                                               /\ call'[d].batch = call[d].batch
                                               /\ call'[d].lines = call[d].lines
<1> USE DEF PayoutsTypeOK
<1>1. call[c] \in Executing
  BY Stages DEF CommitExecution, At
<1>2. /\ batch'[call[c].batch].status = "executed"
      /\ batch'[call[c].batch].lines = batch[call[c].batch].lines
      /\ \A k \in Batches \ {call[c].batch} : batch'[k] = batch[k]
  BY <1>1 DEF CommitExecution, Executing, Batch
<1>3. ~At(c, "post")' /\ ~Executes(c)'
  BY DEF CommitExecution, At, Executes, Idle
<1>4. ASSUME NEW d \in Calls, At(d, "post")'
      PROVE  /\ At(d, "post") /\ call'[d].stale
             /\ call'[d].batch = call[d].batch /\ call'[d].lines = call[d].lines
  <2>1. d # c /\ At(d, "post")
    BY <1>3, <1>4 DEF CommitExecution, At
  <2>2. call[d] \in Executing
    BY <2>1, Stages DEF At
  <2>3. call'[d] = [call[d] EXCEPT !.stale = TRUE]
    BY <2>1 DEF CommitExecution
  <2>4. QED
    BY <2>1, <2>2, <2>3 DEF Executing
<1>5. QED
  BY <1>1, <1>2, <1>3, <1>4 DEF CommitExecution, Executing

(* A batch is paid under its claim, by one commit, with its lines or none. *)
LEMMA PaidStep ==
  ASSUME IInv, [Next]_vars
  PROVE  PaidWasClaimed' /\ AllOrNothing'
<1> USE DEF IInv, PayoutsTypeOK
<1> DEFINE Paid(k) ==
      posted'[k] # Nothing =>
        /\ batch'[k].key # NoKey
        /\ batch'[k].status = "executed"
        /\ posted'[k] = batch'[k].lines
      Goal ==
        /\ \A k \in Batches : Paid(k)
        /\ \A d \in Calls : Executes(d)' => posted'[call'[d].batch] = Nothing
        /\ \A d \in Calls :
             At(d, "post")' => call'[d].lines \in {Nothing, batch'[call'[d].batch].lines}
<1>1. SUFFICES Goal
  BY DEF PaidWasClaimed, AllOrNothing, Nothing
<1> USE DEF PaidWasClaimed, AllOrNothing
<1>2. \A d \in Calls : Executes(d) => call[d].batch \in Batches /\ call[d].key \in Keys
  BY Stages DEF Executes, Executing
<1>3. \A d \in Calls : At(d, "post") => Executes(d)
  BY DEF At, Executes
<1>4. (~\E c \in Calls : Claim(c)) /\ UNCHANGED posted =>
        \A d \in Calls : Executes(d)' => posted'[call'[d].batch] = Nothing
  BY OnlyClaimClaims DEF Stays
<1>5. ASSUME (\E b \in Bookings : Earn(b)) \/ UNCHANGED vars
      PROVE  Goal
  BY <1>5, EarnEnters DEF vars, Executes, At
<1>6. ASSUME NEW c \in Calls, Lock(c)
      PROVE  /\ \A k \in Batches :
                  \/ /\ batch'[k].lines = batch[k].lines
                     /\ batch'[k].status = batch[k].status
                  \/ batch[k].lines = Nothing
             /\ UNCHANGED posted
  <2>1. ASSUME NEW k \in Batches, LockCreate(c, k)
        PROVE  \A j \in Batches \ {k} : batch'[j] = batch[j]
    BY <2>1 DEF LockCreate
  <2>2. CASE LockPreview(c)
    BY <2>2 DEF LockPreview
  <2>3. CASE LockWrite(c)
    <3>1. batch[call[c].batch].lines = Nothing
      BY <2>3 DEF LockWrite, At, Locks, LockerAlone
    <3>2. \A j \in Batches \ {call[c].batch} : batch'[j] = batch[j]
      BY <2>3 DEF LockWrite
    <3>3. QED
      BY <2>3, <3>1, <3>2 DEF LockWrite
  <2>4. QED
    BY <1>6, <2>1, <2>2, <2>3 DEF Lock, LockCreate, LockerAlone
<1>7. ASSUME NEW c \in Calls, Quiet(c), ~Claim(c), ~Lock(c)
      PROVE  UNCHANGED batch
  BY <1>7 DEF Quiet, BeginExecute, Gate, CallFails
<1>8. ASSUME NEW c \in Calls, Quiet(c), ~\E d \in Calls : Claim(d)
      PROVE  Goal
  <2>1. /\ \A k \in Batches :
             \/ /\ batch'[k].lines = batch[k].lines
                /\ batch'[k].status = batch[k].status
             \/ batch[k].lines = Nothing
        /\ UNCHANGED posted
    BY <1>6, <1>7, <1>8, QuietSteps
  <2>2. \A k \in Batches : Paid(k)
    BY <1>8, <2>1, OnlyClaimClaims
  <2>3. \A d \in Calls : At(d, "post")' => At(d, "post") /\ call'[d] = call[d]
    BY <1>8, QuietSteps DEF At
  <2>4. QED
    BY <1>2, <1>3, <1>4, <1>8, <2>1, <2>2, <2>3
<1>9. ASSUME NEW c \in Calls, Claim(c) PROVE Goal
  <2>1. /\ UNCHANGED posted
        /\ \A k \in Batches : /\ batch'[k].lines = batch[k].lines
                              /\ batch'[k].status = batch[k].status
    BY <1>9, ClaimLeavesOthers DEF Claim
  <2>2. \A k \in Batches : batch[k].key # NoKey => batch'[k].key # NoKey
    BY <1>9, ClaimLeavesOthers, ClaimGrants
  <2>3. \A d \in Calls : Executes(d)' => posted'[call'[d].batch] = Nothing
    BY <1>9, <2>1, ClaimLeavesOthers, ClaimGrants DEF Executes
  <2>4. \A d \in Calls : At(d, "post")' => At(d, "post") /\ call'[d] = call[d]
    BY <1>9, QuietSteps DEF At, Quiet
  <2>5. QED
    BY <1>2, <1>3, <2>1, <2>2, <2>3, <2>4
<1>10. ASSUME NEW c \in Calls, ~\E d \in Calls : Claim(d),
              BeginPosting(c) \/ \E f \in FOs : PostLine(c, f)
       PROVE  Goal
  <2>1. \A d \in Calls : At(d, "post")' =>
          call'[d].lines \in {Nothing, batch'[call'[d].batch].lines}
    BY <1>10, PostingSteps DEF At
  <2>2. \A k \in Batches : Paid(k)
    BY <1>10, PostingSteps
  <2>3. QED
    BY <1>4, <1>10, <2>1, <2>2, PostingSteps
<1>11. ASSUME NEW c \in Calls, ~\E d \in Calls : Claim(d), CommitExecution(c)
       PROVE  Goal
  <2>1. \A k \in Batches : Paid(k)
    <3>1. batch[call[c].batch].key # NoKey
      BY <1>2, <1>3, <1>11, CommitSteps, PayoutsAssumption DEF ClaimIsFinal, At
    <3>2. batch'[call[c].batch].key # NoKey
      BY <1>11, <3>1, CommitSteps, OnlyClaimClaims
    <3>3. Paid(call[c].batch)
      BY <1>11, <3>2, CommitSteps
    <3>4. QED
      BY <1>11, <3>3, CommitSteps
  <2>2. \A d \in Calls : Executes(d)' => posted'[call'[d].batch] = Nothing
    <3>1. \A d \in Calls : Executes(d)' => /\ Executes(d)
                                           /\ call'[d].batch = call[d].batch
                                           /\ call[d].batch # call[c].batch
      BY <1>3, <1>11, CommitSteps, OnlyClaimClaims DEF Stays, ClaimIsFinal, Executes
    <3>2. QED
      BY <1>2, <1>11, <3>1, CommitSteps
  <2>3. \A d \in Calls : At(d, "post")' =>
          call'[d].lines \in {Nothing, batch'[call'[d].batch].lines}
    BY <1>2, <1>3, <1>11, CommitSteps
  <2>4. QED
    BY <2>1, <2>2, <2>3
<1>12. QED
  BY <1>1, <1>5, <1>8, <1>9, <1>10, <1>11 DEF Next, Execute, Quiet

-----------------------------------------------------------------------------
(* Covering what is paid *)

(* Credits are a natural number in the next state too. *)
LEMMA NatAfter ==
  ASSUME NEW f \in FOs
  PROVE  Credits(f)' \in Nat
<1>1. {b \in Bookings : FoOf[b] = f /\ "charge" \in book'[b]} \subseteq Bookings
  OBVIOUS
<1>2. QED
  BY <1>1, PayoutsAssumption, FS_Subset, FS_CardinalityType DEF Credits

(* Entries of bookings only add to what an FO has earned. *)
LEMMA EarningAdds ==
  ASSUME PayoutsTypeOK, NEW b \in Bookings, Earn(b), NEW f \in FOs
  PROVE  Credits(f) <= Credits(f)'
<1> DEFINE Before == {a \in Bookings : FoOf[a] = f /\ "charge" \in book[a]}
           After == {a \in Bookings : FoOf[a] = f /\ "charge" \in book'[a]}
<1>1. Before \subseteq After
  BY EarnEnters DEF PayoutsTypeOK
<1>2. IsFiniteSet(After)
  BY PayoutsAssumption, FS_Subset
<1>3. Cardinality(Before) <= Cardinality(After)
  BY <1>1, <1>2, FS_Subset
<1>4. QED
  BY <1>3 DEF Credits

(* Every line that call c has checked is covered by what its FO is owed. *)
Covers(c) ==
  \A f \in Lines(call[c].lines) \ call[c].todo : call[c].lines[f] <= Payable(f)

(* What a transaction has checked stays covered while no other one commits. *)
LEMMA CoversKept ==
  ASSUME IInv, [Next]_vars, ~\E c \in Calls : CommitExecution(c), NEW d \in Calls
  PROVE  /\ At(d, "post")' /\ (At(d, "post") => Covers(d)) => Covers(d)'
         /\ At(d, "post")' /\ At(d, "post") => call'[d].stale = call[d].stale
<1> USE DEF IInv, PayoutsTypeOK
<1> DEFINE Kept ==
      /\ At(d, "post")' /\ (At(d, "post") => Covers(d)) => Covers(d)'
      /\ At(d, "post")' /\ At(d, "post") => call'[d].stale = call[d].stale
<1>1. ASSUME UNCHANGED <<book, paid>>, call'[d] = call[d] PROVE Kept
  BY <1>1 DEF Covers, At, Payable, Credits, Lines
<1>2. ASSUME NEW b \in Bookings, Earn(b) PROVE Kept
  <2>1. call' = call /\ paid' = paid
    BY <1>2, EarnEnters
  <2>2. ASSUME At(d, "post"), Covers(d), NEW f \in Lines(call[d].lines) \ call[d].todo
        PROVE  call[d].lines[f] <= Payable(f)'
    <3>1. f \in FOs /\ call[d] \in Executing
      BY <2>2, Stages DEF At, Lines
    <3>2. Credits(f) \in Nat /\ Credits(f)' \in Nat /\ paid[f] \in Nat
      BY <3>1, NatAfter, CountsAreNat DEF Amounts
    <3>3. Credits(f) <= Credits(f)' /\ call[d].lines[f] <= Payable(f)
      BY <1>2, <2>2, <3>1, EarningAdds DEF Covers
    <3>4. call[d].lines[f] \in Nat
      BY <3>1 DEF Executing, Amounts
    <3>5. QED
      BY <2>1, <3>2, <3>3, <3>4 DEF Payable
  <2>3. QED
    BY <2>1, <2>2 DEF At, Covers, Lines
<1>3. ASSUME NEW c \in Calls, Quiet(c) PROVE Kept
  <2>1. \/ call'[d] = call[d]
        \/ ~At(d, "post")'
    BY <1>3, QuietSteps
  <2>2. QED
    BY <1>1, <1>3, <2>1, QuietSteps
<1>4. ASSUME NEW c \in Calls, BeginPosting(c) \/ \E f \in FOs : PostLine(c, f) PROVE Kept
  <2>1. CASE d # c
    BY <1>1, <1>4, <2>1, PostingSteps
  <2>2. CASE d = c
    <3>1. UNCHANGED <<book, paid>>
      BY <1>4, PostingSteps
    <3>2. \A f \in FOs : Payable(f)' = Payable(f)
      BY <3>1 DEF Payable, Credits
    <3>3. CASE BeginPosting(c) /\ call'[c].todo = Lines(call'[c].lines)
      BY <2>2, <3>3 DEF Covers, BeginPosting, At, Lines
    <3>4. ASSUME NEW g \in FOs, At(c, "post"),
                 call'[c].lines = call[c].lines,
                 call'[c].stale = call[c].stale,
                 call'[c].todo = call[c].todo \ {g},
                 call[c].lines[g] <= Payable(g)
          PROVE  Kept
      BY <2>2, <3>2, <3>4 DEF Covers, Lines
    <3>5. QED
      BY <1>4, <2>2, <3>3, <3>4, PostingSteps
  <2>3. QED
    BY <2>1, <2>2
<1>5. CASE UNCHANGED vars
  BY <1>1, <1>5 DEF vars
<1>6. QED
  BY <1>2, <1>3, <1>4, <1>5 DEF Next, Execute, Quiet

(* What a transaction has checked stays covered until another one commits. *)
LEMMA CoveredStep ==
  ASSUME IInv, [Next]_vars
  PROVE  CheckedIsCovered'
<1>1. SUFFICES ASSUME NEW d \in Calls, At(d, "post")', ~call'[d].stale
               PROVE  Covers(d)'
  BY DEF CheckedIsCovered, Covers, Lines
<1>2. ~\E c \in Calls : CommitExecution(c)
  BY <1>1, CommitSteps DEF IInv
<1>3. At(d, "post") => Covers(d)
  BY <1>1, <1>2, CoversKept DEF IInv, CheckedIsCovered, Covers
<1>4. QED
  BY <1>1, <1>2, <1>3, CoversKept

-----------------------------------------------------------------------------
(* Theorems *)

(* In the beginning there are no batches and no calls. *)
LEMMA InvariantInit == Init => IInv
<1> SUFFICES ASSUME Init PROVE IInv
  OBVIOUS
<1>1. \A c \in Calls : call[c] = Idle
  BY DEF Init
<1>2. CheckedIsCovered /\ ClaimIsFinal
  BY <1>1 DEF CheckedIsCovered, ClaimIsFinal, At, Idle
<1>3. LockerAlone
  BY <1>1 DEF Init, LockerAlone, Locks, Idle, Nothing
<1>4. PaidWasClaimed /\ AllOrNothing
  BY <1>1 DEF Init, PaidWasClaimed, AllOrNothing, Executes, At, Idle, Nothing
<1>5. QED
  BY <1>2, <1>3, <1>4, TypeInit DEF IInv

(* The inductive invariant holds in every reachable state: one call fills a  *)
(* batch and one executes it, what is paid was claimed, and what a           *)
(* transaction has checked is covered while nobody else commits.             *)
THEOREM PayoutsInvariant == Spec => []IInv
<1>1. IInv /\ [Next]_vars => IInv'
  BY TypeStep, LockerStep, ClaimStep, PaidStep, CoveredStep DEF IInv
<1>2. QED
  BY InvariantInit, <1>1, PTL DEF Spec

(* markExecuted pays all lines of a batch or none, and marks the batch it    *)
(* has paid as executed, wherever calls fail or processes die.               *)
THEOREM BatchesPaidWhole == Spec => []AllOrNothing
<1>1. IInv => AllOrNothing
  BY DEF IInv
<1>2. QED
  BY PayoutsInvariant, <1>1, PTL

(* The claim of markExecuted gives a batch one executor, whose key stays.    *)
THEOREM OneExecutor == Spec => []ClaimIsFinal
<1>1. IInv => ClaimIsFinal
  BY DEF IInv
<1>2. QED
  BY PayoutsInvariant, <1>1, PTL

(* The re-verification and postEntry's guard are enough for an execution     *)
(* during which no other one commits: it overdraws nobody.                   *)
THEOREM LoneExecutionCovered == Spec => LoneExecutionIsCovered
<1>1. ASSUME IInv, NEW c \in Calls, CommitExecution(c), ~call[c].stale,
             NEW f \in Lines(call[c].lines)
      PROVE  paid'[f] <= Credits(f)
  <2>1. f \in FOs
    BY DEF Lines
  <2>2. call[c].lines[f] <= Payable(f)
    BY <1>1, CommitSteps DEF IInv, CheckedIsCovered, CommitExecution
  <2>3. paid'[f] = paid[f] + call[c].lines[f]
    BY <1>1, <2>1 DEF CommitExecution
  <2>4. Credits(f) \in Nat /\ paid[f] \in Nat /\ call[c].lines[f] \in Nat
    BY <1>1, <2>1, CountsAreNat, CommitSteps DEF IInv, PayoutsTypeOK, Amounts
  <2>5. QED
    BY <2>2, <2>3, <2>4 DEF Payable
<1>2. IInv /\ [Next]_vars =>
        [\A c \in Calls :
           CommitExecution(c) /\ ~call[c].stale =>
             \A f \in Lines(call[c].lines) : paid'[f] <= Credits(f)]_vars
  BY <1>1
<1>3. QED
  BY PayoutsInvariant, <1>2, PTL DEF Spec, LoneExecutionIsCovered

-----------------------------------------------------------------------------
(* What an advisory lock per FO, instead of per batch, would give *)

(* No two transactions are posting lines for the same FO. *)
OneExecutionPerFo ==
  \A c, d \in Calls :
    c # d /\ At(c, "post") /\ At(d, "post") =>
      Lines(call[c].lines) \cap Lines(call[d].lines) = {}

(* Nobody is overdrawn, nor would be by any line a transaction has checked. *)
EveryoneCovered ==
  /\ NeverOverdrawn
  /\ \A c \in Calls : At(c, "post") => Covers(c)

(* A commit lowers the payable of the FOs of its own lines alone. *)
LEMMA CommitPays ==
  ASSUME IInv, NEW c \in Calls, CommitExecution(c), NEW f \in FOs
  PROVE  /\ Credits(f)' = Credits(f) /\ Credits(f) \in Nat
         /\ paid[f] \in Nat /\ call[c].lines[f] \in Nat
         /\ paid'[f] = paid[f] + call[c].lines[f]
<1>1. book' = book /\ paid'[f] = paid[f] + call[c].lines[f]
  BY DEF CommitExecution
<1>2. Credits(f)' = Credits(f)
  BY <1>1 DEF Credits
<1>3. Credits(f) \in Nat /\ paid[f] \in Nat /\ call[c].lines[f] \in Nat
  BY CountsAreNat, CommitSteps DEF IInv, PayoutsTypeOK, Amounts
<1>4. QED
  BY <1>1, <1>2, <1>3

(* With one execution per FO, no step overdraws anyone. *)
LEMMA EveryoneCoveredStep ==
  ASSUME IInv, OneExecutionPerFo, EveryoneCovered, [Next]_vars
  PROVE  EveryoneCovered'
<1> USE DEF EveryoneCovered
<1>1. CASE ~\E c \in Calls : CommitExecution(c)
  <2>1. ASSUME NEW d \in Calls, At(d, "post")' PROVE Covers(d)'
    BY <1>1, <2>1, CoversKept
  <2>2. UNCHANGED paid
    <3>1. ASSUME NEW b \in Bookings, Earn(b) PROVE UNCHANGED paid
      BY <3>1, EarnEnters
    <3>2. ASSUME NEW c \in Calls, Quiet(c) PROVE UNCHANGED paid
      BY <3>2, QuietSteps DEF IInv
    <3>3. ASSUME NEW c \in Calls, BeginPosting(c) \/ \E f \in FOs : PostLine(c, f)
          PROVE  UNCHANGED paid
      BY <3>3 DEF BeginPosting, PostLine
    <3>4. QED
      BY <1>1, <3>1, <3>2, <3>3 DEF Next, Execute, Quiet, vars
  <2>3. ASSUME NEW f \in FOs PROVE Credits(f) <= Credits(f)'
    <3>1. ASSUME NEW b \in Bookings, Earn(b) PROVE Credits(f) <= Credits(f)'
      BY <3>1, EarningAdds DEF IInv
    <3>2. ASSUME UNCHANGED book PROVE Credits(f) <= Credits(f)'
      BY <3>2, CountsAreNat DEF Credits
    <3>3. ASSUME NEW c \in Calls, Lock(c) \/ Execute(c) \/ CallFails(c) PROVE UNCHANGED book
      BY <3>3 DEF Lock, LockCreate, LockPreview, LockWrite, Execute, BeginExecute, Gate,
                  PostLine, Claim, BeginPosting, CommitExecution, CallFails
    <3>4. QED
      BY <3>1, <3>2, <3>3 DEF Next, vars
  <2>4. ASSUME NEW f \in FOs PROVE paid'[f] <= Credits(f)'
    <3>1. Credits(f) \in Nat /\ Credits(f)' \in Nat /\ paid[f] \in Nat
      BY NatAfter, CountsAreNat DEF IInv, PayoutsTypeOK, Amounts
    <3>2. paid[f] <= Credits(f)
      BY DEF NeverOverdrawn
    <3>3. QED
      BY <2>2, <2>3, <3>1, <3>2
  <2>5. QED
    BY <2>1, <2>4 DEF NeverOverdrawn
<1>2. ASSUME NEW c \in Calls, CommitExecution(c) PROVE EveryoneCovered'
  <2>1. At(c, "post") /\ Covers(c) /\ call[c].todo = {}
    BY <1>2 DEF CommitExecution
  <2>2. ASSUME NEW f \in FOs PROVE paid'[f] <= Credits(f)'
    <3>1. paid[f] <= Credits(f)
      BY DEF NeverOverdrawn
    <3>2. call[c].lines[f] > 0 => call[c].lines[f] <= Payable(f)
      BY <2>1 DEF Covers, Lines
    <3>3. QED
      BY <1>2, <3>1, <3>2, CommitPays DEF Payable
  <2>3. ASSUME NEW d \in Calls, At(d, "post")' PROVE Covers(d)'
    <3>1. /\ d # c /\ At(d, "post")
          /\ call'[d].lines = call[d].lines /\ call'[d].todo = call[d].todo
      <4>1. d # c /\ At(d, "post")
        BY <1>2, <2>3, CommitSteps DEF IInv
      <4>2. call[d] \in Executing
        BY <4>1, Stages DEF At, IInv
      <4>3. call'[d] = [call[d] EXCEPT !.stale = TRUE]
        BY <1>2, <4>1 DEF CommitExecution, IInv, PayoutsTypeOK
      <4>4. QED
        BY <4>1, <4>2, <4>3 DEF Executing
    <3>2. ASSUME NEW f \in Lines(call[d].lines) \ call[d].todo
          PROVE  call[d].lines[f] <= Payable(f)'
      <4>1. f \in FOs /\ call[d].lines[f] <= Payable(f)
        BY <3>1 DEF Covers, Lines
      <4>2. ~(call[c].lines[f] > 0)
        BY <2>1, <3>1, <3>2, <4>1 DEF OneExecutionPerFo, Lines
      <4>3. Payable(f)' = Payable(f)
        BY <1>2, <4>1, <4>2, CommitPays DEF Payable
      <4>4. QED
        BY <4>1, <4>3
    <3>3. QED
      BY <3>1, <3>2 DEF Covers, Lines
  <2>4. QED
    BY <2>2, <2>3 DEF NeverOverdrawn
<1>3. QED
  BY <1>1, <1>2

(* The comment that postEntry's guard is race-safe is true of executions    *)
(* that share no FO: as long as no two transactions post lines for the same *)
(* FO at a time, no FO is ever paid more than it has earned, whatever the   *)
(* batches, the gates read too early and the calls that fail.               *)
THEOREM SerialExecutionsCovered == Spec /\ []OneExecutionPerFo => []NeverOverdrawn
<1>1. Init => EveryoneCovered
  <2> SUFFICES ASSUME Init PROVE EveryoneCovered
    OBVIOUS
  <2>1. \A c \in Calls : ~At(c, "post")
    BY DEF Init, At, Idle
  <2>2. \A f \in FOs : paid[f] = 0 /\ Credits(f) \in Nat
    BY CountsAreNat DEF Init, Nothing
  <2>3. QED
    BY <2>1, <2>2 DEF EveryoneCovered, NeverOverdrawn
<1>2. IInv /\ OneExecutionPerFo /\ EveryoneCovered /\ [Next]_vars => EveryoneCovered'
  BY EveryoneCoveredStep
<1>3. EveryoneCovered => NeverOverdrawn
  BY DEF EveryoneCovered
<1>4. QED
  BY PayoutsInvariant, <1>1, <1>2, <1>3, PTL DEF Spec

-----------------------------------------------------------------------------
(* Implementing PayoutBook *)

(* What the batches show in the abstract book. *)
ClaimOf == [k \in Batches |-> batch[k].key]
LinesOf == [k \in Batches |-> batch[k].lines]

(* The abstract book is what this module shows of it. *)
LEMMA BookStutters ==
  ASSUME UNCHANGED <<posted, paid>>,
         \A k \in Batches : batch'[k].key = batch[k].key /\ batch'[k].lines = batch[k].lines
  PROVE  UNCHANGED <<ClaimOf, LinesOf, posted, paid>>
  BY DEF ClaimOf, LinesOf

(* lockBatch fills an empty batch that has paid nothing, or does not touch  *)
(* the book.                                                                *)
LEMMA LockRefines ==
  ASSUME IInv, NEW c \in Calls, Lock(c)
  PROVE  Book!BookNext \/ UNCHANGED <<ClaimOf, LinesOf, posted, paid>>
<1> USE DEF IInv, PayoutsTypeOK
<1>1. ASSUME NEW k \in Batches, LockCreate(c, k)
      PROVE  UNCHANGED <<ClaimOf, LinesOf, posted, paid>>
  <2>1. \A j \in Batches : batch'[j].key = batch[j].key /\ batch'[j].lines = batch[j].lines
    BY <1>1 DEF LockCreate, Batch
  <2>2. QED
    BY <1>1, <2>1, BookStutters DEF LockCreate
<1>2. CASE LockPreview(c)
  BY <1>2, BookStutters DEF LockPreview
<1>3. CASE LockWrite(c)
  <2>1. call[c] \in Locking /\ Locks(c)
    BY <1>3, Stages DEF LockWrite, At, Locks
  <2> PICK k \in Batches : k = call[c].batch
    BY <2>1 DEF Locking
  <2>2. call[c].lines \in Amounts /\ batch[k].lines = Nothing
    BY <2>1 DEF Locking, LockerAlone
  <2>3. CASE Lines(call[c].lines) = {}
    <3>1. \A j \in Batches : batch'[j].key = batch[j].key /\ batch'[j].lines = batch[j].lines
      BY <1>3, <2>2, <2>3 DEF LockWrite, Batch
    <3>2. QED
      BY <1>3, <3>1, BookStutters DEF LockWrite
  <2>4. CASE Lines(call[c].lines) # {}
    <3>1. /\ \A j \in Batches : batch'[j].key = batch[j].key
          /\ \A j \in Batches \ {k} : batch'[j].lines = batch[j].lines
          /\ batch'[k].lines = call[c].lines
      BY <1>3, <2>2, <2>4 DEF LockWrite, Batch
    <3>2. posted[k] = Nothing
      BY <2>2 DEF AllOrNothing
    <3>3. ClaimOf' = ClaimOf
      BY <3>1 DEF ClaimOf
    <3>4. /\ LinesOf' \in [Batches -> [FOs -> Nat]]
          /\ \A j \in Batches \ {k} : LinesOf'[j] = LinesOf[j]
      <4>1. \A j \in Batches : batch'[j].lines \in Amounts
        BY <2>2, <3>1 DEF Batch
      <4>2. QED
        BY <3>1, <4>1 DEF LinesOf, Amounts
    <3>5. Book!Fill(k)
      BY <1>3, <2>2, <3>2, <3>3, <3>4
         DEF Book!Fill, ClaimOf, LinesOf, Nothing, Book!Nothing, LockWrite
    <3>6. QED
      BY <3>5 DEF Book!BookNext
  <2>5. QED
    BY <2>3, <2>4
<1>4. QED
  BY <1>1, <1>2, <1>3 DEF Lock

(* A claim that is granted is a claim in the book. *)
LEMMA ClaimRefines ==
  ASSUME IInv, NEW c \in Calls, Claim(c)
  PROVE  Book!BookNext \/ UNCHANGED <<ClaimOf, LinesOf, posted, paid>>
<1> USE DEF IInv
<1>1. /\ \A j \in Batches : batch'[j].lines = batch[j].lines
      /\ UNCHANGED <<posted, paid>>
  BY ClaimLeavesOthers DEF Claim
<1>2. CASE ~Executes(c)'
  BY <1>1, <1>2, ClaimLeavesOthers, BookStutters
<1>3. CASE Executes(c)'
  <2> PICK k \in Batches, key \in Keys : k = call[c].batch /\ key = call[c].key
    BY <1>3, ClaimGrants
  <2>1. /\ batch[k].key = NoKey /\ batch'[k].key = key
        /\ \A j \in Batches : batch[j].key # key
        /\ \A j \in Batches \ {k} : batch'[j].key = batch[j].key
    BY <1>3, ClaimGrants
  <2>2. ClaimOf' = [ClaimOf EXCEPT ![k] = key] /\ LinesOf' = LinesOf
    BY <1>1, <2>1 DEF ClaimOf, LinesOf
  <2>3. Book!Claim(k, key)
    BY <1>1, <2>1, <2>2 DEF Book!Claim, ClaimOf, LinesOf
  <2>4. QED
    BY <2>3 DEF Book!BookNext
<1>4. QED
  BY <1>2, <1>3

(* A commit pays the lines of its batch, for the first time and under the   *)
(* claim; one that began before the batch was filled pays nothing.          *)
LEMMA CommitRefines ==
  ASSUME IInv, NEW c \in Calls, CommitExecution(c)
  PROVE  Book!BookNext \/ UNCHANGED <<ClaimOf, LinesOf, posted, paid>>
<1> USE DEF IInv, PayoutsTypeOK
<1> DEFINE k == call[c].batch
<1>1. /\ At(c, "post") /\ k \in Batches /\ call[c].lines \in Amounts
      /\ posted' = [posted EXCEPT ![k] = call[c].lines]
      /\ paid' = [f \in FOs |-> paid[f] + call[c].lines[f]]
  BY CommitSteps DEF CommitExecution
<1>2. Executes(c) /\ call[c] \in Executing
  BY <1>1, Stages DEF At, Executes
<1>3. /\ posted[k] = Nothing
      /\ call[c].lines \in {Nothing, batch[k].lines}
      /\ batch[k].key # NoKey
  BY <1>1, <1>2, PayoutsAssumption
     DEF PaidWasClaimed, ClaimIsFinal, Executes, Executing
<1>4. \A j \in Batches : batch'[j].key = batch[j].key /\ batch'[j].lines = batch[j].lines
  BY <1>2 DEF CommitExecution, Batch, Executing
<1>5. ClaimOf' = ClaimOf /\ LinesOf' = LinesOf
  BY <1>4 DEF ClaimOf, LinesOf
<1>6. CASE call[c].lines = Nothing
  <2>1. posted' = posted
    BY <1>1, <1>3, <1>6
  <2>2. \A f \in FOs : paid[f] \in Nat /\ call[c].lines[f] = 0
    BY <1>6 DEF Amounts, Nothing
  <2>3. paid' = paid
    BY <1>1, <2>2 DEF Amounts
  <2>4. QED
    BY <1>5, <2>1, <2>3
<1>7. CASE call[c].lines # Nothing
  <2>1. call[c].lines = LinesOf[k]
    BY <1>1, <1>3, <1>7 DEF LinesOf
  <2>2. Book!Pay(k)
    BY <1>1, <1>3, <1>5, <1>7, <2>1
       DEF Book!Pay, ClaimOf, LinesOf, Nothing, Book!Nothing
  <2>3. QED
    BY <1>1, <2>2 DEF Book!BookNext
<1>8. QED
  BY <1>6, <1>7

(* lockBatch and markExecuted implement PayoutBook: whoever calls them, and  *)
(* wherever calls fail, a batch is claimed, filled and paid once, and what   *)
(* an FO has been paid is what such payments have added up to.               *)
THEOREM PayoutsImplementBook == Spec => ImplementsBook
<1>1. Init => Book!BookInit
  BY DEF Init, Book!BookInit, Nothing, Book!Nothing
<1>2. IInv /\ [Next]_vars => [Book!BookNext]_(Book!bvars)
  <2> SUFFICES ASSUME IInv, [Next]_vars
               PROVE  Book!BookNext \/ UNCHANGED <<ClaimOf, LinesOf, posted, paid>>
    BY DEF Book!bvars, ClaimOf, LinesOf
  <2>1. ASSUME NEW b \in Bookings, Earn(b)
        PROVE  UNCHANGED <<ClaimOf, LinesOf, posted, paid>>
    BY <2>1, EarnEnters, BookStutters
  <2>2. ASSUME NEW c \in Calls, UNCHANGED <<batch, posted, paid>>
        PROVE  UNCHANGED <<ClaimOf, LinesOf, posted, paid>>
    BY <2>2, BookStutters
  <2>3. ASSUME NEW c \in Calls, Execute(c) \/ CallFails(c)
        PROVE  \/ Claim(c) \/ CommitExecution(c)
               \/ UNCHANGED <<batch, posted, paid>>
    BY <2>3 DEF Execute, BeginExecute, Gate, PostLine, BeginPosting, CallFails
  <2>4. QED
    BY <2>1, <2>2, <2>3, LockRefines, ClaimRefines, CommitRefines, BookStutters
       DEF Next, vars
<1>3. QED
  BY <1>1, <1>2, PayoutsInvariant, PTL DEF Spec, ImplementsBook, Book!BookSpec
=============================================================================
