------------------------------ MODULE Payouts -------------------------------
(***************************************************************************)
(* Paying franchise owners (payouts.service.ts) out of what the ledger     *)
(* (ledger.service.ts) says they have earned.                              *)
(*                                                                         *)
(* lockBatch creates a batch and then its lines, one per FO.  markExecuted *)
(* looks at the payable of each FO, claims the batch with the caller's     *)
(* key, and posts the lines in a transaction of its own.  Every statement  *)
(* outside that transaction commits alone; within it, READ COMMITTED shows *)
(* what others have committed, and nothing of what they have not.          *)
(*                                                                         *)
(* Each booking earns its FO one unit.  A REFUND entry carries no foId and *)
(* so never enters the payable of an FO: it only makes the booking         *)
(* ineligible for the next batch.  Disputes are booked under types of      *)
(* their own, which do not even do that.  A cutoff in the past is a        *)
(* preview that was read earlier than its lines are written.               *)
(***************************************************************************)
EXTENDS Integers, FiniteSets

CONSTANTS Bookings, FOs,
          FoOf,     \* FoOf[b]: the FO who did booking b
          Batches,  \* the idempotency keys that lockBatch is called with
          Keys,     \* the idempotency keys that markExecuted is called with
          NoKey,    \* PayoutBatch.executedIdempotencyKey = NULL
          Calls     \* concurrent calls of either

VARIABLES
  book,   \* book[b]: the kinds of journal entries of booking b
  batch,  \* batch[k]: the PayoutBatch row and its lines
  posted, \* posted[k][f]: the PAYOUT entry ledger:payout:<k>:<f>, 0 for none
  paid,   \* paid[f]: the sum of f's PAYOUT entries
  call    \* what each call is in the middle of

vars == <<book, batch, posted, paid, call>>

(* The abstract book this module implements. *)
Book == INSTANCE PayoutBook WITH
  claim <- [k \in Batches |-> batch[k].key],
  lines <- [k \in Batches |-> batch[k].lines]

ASSUME PayoutsAssumption ==
  /\ IsFiniteSet(Bookings)
  /\ FoOf \in [Bookings -> FOs]
  /\ NoKey \notin Keys

-----------------------------------------------------------------------------
(* Types *)

(* enum JournalEntryType, as far as it is about bookings.  Nothing posts    *)
(* "dispute" or "dispute won": the type DISPUTE, without and with outcome   *)
(* won.                                                                     *)
Entries == {"charge", "settlement", "refund", "withdrawal", "reversal",
            "dispute", "dispute won"}

Amounts == [FOs -> Nat]
Nothing == [f \in FOs |-> 0]

Batch == [status : {"none", "draft", "executed", "void"},
          key : Keys \cup {NoKey}, lines : Amounts]

Idle == [stage |-> "idle"]

(* lockBatch after the insert of the row, and after its preview. *)
Locking == [stage : {"preview", "lines"}, batch : Batches, lines : Amounts]

(* markExecuted at its gate, before its transaction, and in it: todo are    *)
(* the lines not yet checked or posted, stale tells that another            *)
(* transaction has committed since this one began (for a property alone).   *)
Executing == [stage : {"gate", "begin", "post"}, batch : Batches, key : Keys,
              lines : Amounts, todo : SUBSET FOs, stale : BOOLEAN]

PayoutsTypeOK ==
  /\ book \in [Bookings -> SUBSET Entries]
  /\ batch \in [Batches -> Batch]
  /\ posted \in [Batches -> Amounts]
  /\ paid \in Amounts
  /\ call \in [Calls -> {Idle} \cup Locking \cup Executing]

Init ==
  /\ book = [b \in Bookings |-> {}]
  /\ batch = [k \in Batches |-> [status |-> "none", key |-> NoKey, lines |-> Nothing]]
  /\ posted = [k \in Batches |-> Nothing]
  /\ paid = Nothing
  /\ call = [c \in Calls |-> Idle]

-----------------------------------------------------------------------------
(* Helpers *)

At(c, stage) == call[c].stage = stage
Become(c, what) == call' = [call EXCEPT ![c] = what]
Finish(c) == Become(c, Idle)

Lines(amounts) == {f \in FOs : amounts[f] > 0}

(* getEligibleBookingIds: settled, not refunded, no dispute unless won. *)
Eligible(b) ==
  /\ "settlement" \in book[b]
  /\ "refund" \notin book[b]
  /\ "dispute" \in book[b] => "dispute won" \in book[b]

Credits(f) == Cardinality({b \in Bookings : FoOf[b] = f /\ "charge" \in book[b]})

EligibleCredits(f) ==
  Cardinality({b \in Bookings : FoOf[b] = f /\ "charge" \in book[b] /\ Eligible(b)})

(* Fault: the sum of the credits alone. *)
FaultPayableGross(f) == Credits(f)

(* LIAB_FO_PAYABLE: credits less debits, of settled bookings or not. *)
Payable(f) == Credits(f) - paid[f]

(* Fault: the difference as it is. *)
FaultPreviewSigned(f) == EligibleCredits(f) - paid[f]

(* previewEligible: never below zero. *)
Preview(f) ==
  IF EligibleCredits(f) > paid[f] THEN EligibleCredits(f) - paid[f] ELSE 0

-----------------------------------------------------------------------------
(* Journal entries of bookings: billing and the Stripe webhooks *)

Enter(b, kind) ==
  /\ kind \notin book[b]
  /\ book' = [book EXCEPT ![b] = @ \cup {kind}]
  /\ UNCHANGED <<batch, posted, paid, call>>

(* A finished booking is charged before or after it is paid for; the        *)
(* webhook of the payment charges it if nothing has, and then settles it.   *)
Charge(b) == Enter(b, "charge")
Settle(b) == "charge" \in book[b] /\ Enter(b, "settlement")

(* postEntry: no refund without a charge. *)
Refund(b) == "charge" \in book[b] /\ Enter(b, "refund")

(* charge.dispute.funds_withdrawn and funds_reinstated. *)
Withdraw(b) == "settlement" \in book[b] /\ Enter(b, "withdrawal")
Reinstate(b) == "withdrawal" \in book[b] /\ Enter(b, "reversal")

-----------------------------------------------------------------------------
(* lockBatch *)

(* The row first; a key that exists answers with the row as it is. *)
LockCreate(c, k) ==
  /\ call[c] = Idle
  /\ batch[k].status = "none"
  /\ batch' = [batch EXCEPT ![k].status = "draft"]
  /\ Become(c, [stage |-> "preview", batch |-> k, lines |-> Nothing])
  /\ UNCHANGED <<book, posted, paid>>

LockPreview(c) ==
  /\ At(c, "preview")
  /\ call' = [call EXCEPT ![c].stage = "lines",
                          ![c].lines = [f \in FOs |-> Preview(f)]]
  /\ UNCHANGED <<book, batch, posted, paid>>

(* The lines in one statement or, if there are none, an unguarded "void". *)
LockWrite(c) ==
  LET q == call[c] IN
  /\ At(c, "lines")
  /\ batch' = IF Lines(q.lines) = {}
                THEN [batch EXCEPT ![q.batch].status = "void"]
                ELSE [batch EXCEPT ![q.batch].lines = q.lines]
  /\ Finish(c)
  /\ UNCHANGED <<book, posted, paid>>

-----------------------------------------------------------------------------
(* markExecuted *)

(* The key is new and the batch a draft. *)
BeginExecute(c, k, key) ==
  /\ call[c] = Idle
  /\ \A j \in Batches : batch[j].key # key
  /\ batch[k].status = "draft"
  /\ Become(c, [stage |-> "gate", batch |-> k, key |-> key, lines |-> batch[k].lines,
                todo |-> Lines(batch[k].lines), stale |-> FALSE])
  /\ UNCHANGED <<book, batch, posted, paid>>

(* The integrity gate: no FO of the lines would be overdrawn. *)
Gate(c, f) ==
  LET q == call[c] IN
  /\ At(c, "gate")
  /\ f \in q.todo
  /\ IF q.lines[f] <= Payable(f)
       THEN call' = [call EXCEPT ![c].todo = @ \ {f}]
       ELSE Finish(c)
  /\ UNCHANGED <<book, batch, posted, paid>>

(* Fault: any draft can be claimed, also one that is claimed. *)
FaultClaimAgain(c) ==
  LET q == call[c] IN
  /\ At(c, "gate")
  /\ q.todo = {}
  /\ IF batch[q.batch].status = "draft" /\ \A j \in Batches : batch[j].key # q.key
       THEN /\ batch' = [batch EXCEPT ![q.batch].key = q.key]
            /\ call' = [call EXCEPT ![c].stage = "begin"]
       ELSE /\ Finish(c)
            /\ UNCHANGED batch
  /\ UNCHANGED <<book, posted, paid>>

(* updateMany where draft and unclaimed; the key is unique over batches. *)
Claim(c) ==
  LET q == call[c]
      free == /\ batch[q.batch].status = "draft"
              /\ batch[q.batch].key = NoKey
              /\ \A j \in Batches : batch[j].key # q.key IN
  /\ At(c, "gate")
  /\ q.todo = {}
  /\ IF free
       THEN /\ batch' = [batch EXCEPT ![q.batch].key = q.key]
            /\ call' = [call EXCEPT ![c].stage = "begin"]
       ELSE /\ Finish(c)
            /\ UNCHANGED batch
  /\ UNCHANGED <<book, posted, paid>>

(* The transaction: an advisory lock on the batch, and its lines as they    *)
(* are now.                                                                 *)
BeginPosting(c) ==
  LET lines == batch[call[c].batch].lines IN
  /\ At(c, "begin")
  /\ ~\E d \in Calls : At(d, "post") /\ call[d].batch = call[c].batch
  /\ call' = [call EXCEPT ![c].stage = "post", ![c].lines = lines,
                          ![c].todo = Lines(lines)]
  /\ UNCHANGED <<book, batch, posted, paid>>

(* Fault: postEntry is not given the transaction and commits by itself. *)
FaultPostAlone(c, f) ==
  LET q == call[c] IN
  /\ At(c, "post")
  /\ f \in q.todo
  /\ IF q.lines[f] <= Payable(f) /\ posted[q.batch][f] = 0
       THEN /\ posted' = [posted EXCEPT ![q.batch][f] = q.lines[f]]
            /\ call' = [call EXCEPT ![c].todo = @ \ {f}]
       ELSE /\ Finish(c)
            /\ UNCHANGED posted
  /\ UNCHANGED <<book, batch, paid>>

(* One line: re-verified, guarded by postEntry, and inserted under a unique *)
(* key.  A refusal rolls back the lines before it, but not the claim.       *)
PostLine(c, f) ==
  LET q == call[c] IN
  /\ At(c, "post")
  /\ f \in q.todo
  /\ IF q.lines[f] <= Payable(f) /\ posted[q.batch][f] = 0
       THEN call' = [call EXCEPT ![c].todo = @ \ {f}]
       ELSE Finish(c)
  /\ UNCHANGED <<book, batch, posted, paid>>

(* The batch is marked executed and everything becomes visible. *)
CommitExecution(c) ==
  LET q == call[c] IN
  /\ At(c, "post")
  /\ q.todo = {}
  /\ batch' = [batch EXCEPT ![q.batch].status = "executed"]
  /\ posted' = [posted EXCEPT ![q.batch] = q.lines]
  /\ paid' = [f \in FOs |-> paid[f] + q.lines[f]]
  /\ call' = [d \in Calls |->
       IF d = c THEN Idle
       ELSE IF At(d, "post") THEN [call[d] EXCEPT !.stale = TRUE] ELSE call[d]]
  /\ UNCHANGED book

(* A call fails, or its process dies: what it has committed stays. *)
CallFails(c) ==
  /\ call[c] # Idle
  /\ Finish(c)
  /\ UNCHANGED <<book, batch, posted, paid>>

-----------------------------------------------------------------------------

Earn(b) == Charge(b) \/ Settle(b) \/ Refund(b) \/ Withdraw(b) \/ Reinstate(b)

Lock(c) == (\E k \in Batches : LockCreate(c, k)) \/ LockPreview(c) \/ LockWrite(c)

Execute(c) ==
  \/ \E k \in Batches, key \in Keys : BeginExecute(c, k, key)
  \/ \E f \in FOs : Gate(c, f) \/ PostLine(c, f)
  \/ Claim(c) \/ BeginPosting(c)
  \/ CommitExecution(c)

Next ==
  \/ \E b \in Bookings : Earn(b)
  \/ \E c \in Calls : Lock(c) \/ Execute(c) \/ CallFails(c)

Spec == Init /\ [][Next]_vars

-----------------------------------------------------------------------------
(* Properties *)

(* A batch pays all of its lines or none, whatever fails or dies on the way, *)
(* and one that has paid is executed: never a draft that can be executed     *)
(* again, and never voided by the lockBatch that made it.                    *)
AllOrNothing ==
  \A k \in Batches :
    /\ posted[k] \in {Nothing, batch[k].lines}
    /\ posted[k] # Nothing => batch[k].status = "executed"

(* Two callers with keys of their own cannot both execute a batch, and the   *)
(* key that executed it stays on it, so that its caller's retry finds it.    *)
ClaimIsFinal ==
  /\ \A c, d \in Calls :
       /\ call[c].stage \in {"begin", "post"}
       /\ call[d].stage \in {"begin", "post"}
       /\ call[c].batch = call[d].batch
       => c = d
  /\ \A c \in Calls :
       call[c].stage \in {"begin", "post"} => batch[call[c].batch].key = call[c].key

(* lockBatch and markExecuted implement PayoutBook: whoever calls them, with *)
(* whatever keys, and wherever calls fail, a batch is claimed once, filled   *)
(* once and paid once, with all of its lines, under the claim.               *)
ImplementsBook == Book!BookSpec

(* An execution during which no other one commits leaves no FO of its batch  *)
(* overdrawn, however many draft batches carry lines for the same earnings.  *)
LoneExecutionIsCovered ==
  [][\A c \in Calls :
       CommitExecution(c) /\ ~call[c].stale =>
         \A f \in Lines(call[c].lines) : paid'[f] <= Credits(f)]_vars

(* payouts.service.ts: "LedgerService.postEntry will still enforce at        *)
(* write-time (race-safe)"; ledger.service.ts: "a PAYOUT may not debit       *)
(* LIAB_FO_PAYABLE beyond current payable".                                  *)
NeverOverdrawn == \A f \in FOs : paid[f] <= Credits(f)
=============================================================================
