-------------------------- MODULE PaymentLifecycle --------------------------
(***************************************************************************)
(* What happens to the money of a booking whose deposit has been paid: the *)
(* remaining balance is held on the card in the last 24 hours before the   *)
(* start, captured when the job is completed; when the booking is canceled *)
(* the deposit is refunded or a fee retained.  Four services write the     *)
(* same columns of Booking, each in statements that commit one by one:     *)
(*   remaining-balance-authorization.service.ts  (cron)                    *)
(*   remaining-balance-capture.service.ts        (after a completion)      *)
(*   booking-cancellation-payment.service.ts     (after a cancelation)     *)
(*   payment-lifecycle-reconciliation.service.ts (cron)                    *)
(* and so do the Stripe webhooks of stripe-payment.service.ts and          *)
(* stripe.webhook.handler.service.ts, which come late, in any order, once  *)
(* or never.  Every write is an update by id.                              *)
(*                                                                         *)
(* Amounts are left out: one deposit, one balance, both of them positive.  *)
(***************************************************************************)
EXTENDS Naturals, FiniteSets

CONSTANTS
  Bookings,
  Crons,       \* authorization passes that run at the same time
  Apis,        \* API calls that run at the same time
  Batch,       \* rows that one reconciliation pass looks at
  Patchable,   \* bookings that somebody cancels with PATCH /bookings/:id
  MaxFaults    \* bound on failed calls

ASSUME ConstantsAssumption ==
  /\ IsFiniteSet(Bookings)
  /\ Batch \in Nat \ {0}
  /\ MaxFaults \in Nat
  /\ Patchable \subseteq Bookings
  /\ Crons \cap Apis = {}

Calls == Crons \cup Apis

VARIABLES
  row,      \* columns of Booking
  older,    \* <<a, b>>: row a was last written before row b (updatedAt)
  phase,    \* how far away the scheduled start is, if there is one
  stripe,   \* what Stripe holds for a booking
  events,   \* events that Stripe has sent and nobody has received
  call,     \* where each call is between two statements
  batch,    \* bookings the reconciliation pass has yet to look at
  pass,     \* where it is with the present one
  faults

vars == <<row, older, phase, stripe, events, call, batch, pass, faults>>

-----------------------------------------------------------------------------
(* Rows *)

Statuses == {"open", "completed", "canceled"}
Balances == {"pending", "required", "authorized", "failed", "captured", "capture_failed"}
Deposits == {"succeeded", "refunded", "fee_retained"}
Refunds  == {"not_required", "pending", "succeeded", "failed"}

Row == [status : Statuses, canceledAt : BOOLEAN, balance : Balances, intent : BOOLEAN,
        deposit : Deposits, refund : Refunds, refundId : BOOLEAN, fee : BOOLEAN]

NewRow == [status |-> "open", canceledAt |-> FALSE, balance |-> "pending", intent |-> FALSE,
           deposit |-> "succeeded", refund |-> "not_required", refundId |-> FALSE,
           fee |-> FALSE]

Phases == {"unscheduled", "over_48h", "over_24h", "last_24h", "started"}

(* Prisma sets updatedAt with every update of the row. *)
Touched(b) ==
  { p \in older : b \notin {p[1], p[2]} } \cup { <<a, b>> : a \in Bookings \ {b} }

Write(b, r) ==
  /\ row' = [row EXCEPT ![b] = r]
  /\ older' = Touched(b)

NoWrite == UNCHANGED <<row, older>>

-----------------------------------------------------------------------------
(* Stripe: the PaymentIntent that holds the balance, and the refund of the *)
(* deposit.  Both are created with one idempotency key per booking, and a  *)
(* request with a used key gets the first answer again.                    *)

Holds == {"none", "requires_capture", "requires_action", "requires_payment_method",
          "succeeded", "canceled"}
Answers == {"none", "requires_capture", "requires_action", "declined"}
StripeRefunds == {"none", "pending", "succeeded", "failed"}

Stripe == [hold : Holds, answer : Answers, refund : StripeRefunds,
           refundAnswer : StripeRefunds]

NothingAtStripe ==
  [hold |-> "none", answer |-> "none", refund |-> "none", refundAnswer |-> "none"]

EventKinds == {"deposit_succeeded", "capturable", "hold_succeeded", "hold_failed",
               "refund_pending", "refund_succeeded", "refund_failed"}
Event == [booking : Bookings, kind : EventKinds]

(* The hold of b becomes h, and Stripe sends what it sends then. *)
HoldEvents(b, h) ==
  { [booking |-> b, kind |-> k] : k \in
      IF h = "requires_capture" THEN {"capturable"}
      ELSE IF h = "succeeded" THEN {"hold_succeeded"}
      ELSE IF h = "requires_payment_method" THEN {"hold_failed"} ELSE {} }

Hold(b, h) ==
  /\ stripe' = [stripe EXCEPT ![b].hold = h]
  /\ events' = events \cup HoldEvents(b, h)

RefundEvent(b, r) ==
  [booking |-> b, kind |-> IF r = "pending" THEN "refund_pending"
                           ELSE IF r = "succeeded" THEN "refund_succeeded" ELSE "refund_failed"]

NoStripe == UNCHANGED <<stripe, events>>

-----------------------------------------------------------------------------
(* Calls *)

Idle == [at |-> "idle"]
At(at, b, seen) == [at |-> at, booking |-> b, seen |-> seen]

AuthSteps == {"auth_sync", "auth_write", "auth_create", "auth_record"}
CompleteSteps == {"complete", "capture_read", "capture_look", "capture", "capture_check",
                  "capture_mark", "capture_fail"}
CancelSteps == {"cancel", "enforce", "refund_pending", "refund_call", "refund_done",
                "refund_failed", "retain"}
Seen == Holds \cup Answers \cup StripeRefunds

CallState ==
  {Idle} \cup [at : AuthSteps \cup CompleteSteps \cup CancelSteps,
               booking : Bookings, seen : Seen]

Goto(c, at, b, seen) == call' = [call EXCEPT ![c] = At(at, b, seen)]
Return(c) == call' = [call EXCEPT ![c] = Idle]

OnlyCalls == UNCHANGED <<phase, batch, pass, faults>>

PassIdle == [at |-> "idle"]
PassSteps == {"refund_look", "refund_write", "balance_look", "balance_write"}
Snapshot == [balance : Balances, deposit : Deposits, intent : BOOLEAN]
PassState ==
  {PassIdle} \cup [at : PassSteps, booking : Bookings, read : Snapshot, seen : Seen]

Init ==
  /\ row = [b \in Bookings |-> NewRow]
  /\ older \in { o \in SUBSET (Bookings \X Bookings) :
                   /\ \A a \in Bookings : <<a, a>> \notin o
                   /\ \A a, b \in Bookings : a # b => (<<a, b>> \in o) # (<<b, a>> \in o)
                   /\ \A a, b, d \in Bookings :
                        <<a, b>> \in o /\ <<b, d>> \in o => <<a, d>> \in o }
  /\ phase = [b \in Bookings |-> "unscheduled"]
  /\ stripe = [b \in Bookings |-> NothingAtStripe]
  /\ events = { [booking |-> b, kind |-> "deposit_succeeded"] : b \in Bookings }
  /\ call = [c \in Calls |-> Idle]
  /\ batch = {}
  /\ pass = PassIdle
  /\ faults = 0

-----------------------------------------------------------------------------
(* authorizeRemainingBalanceForBooking *)

AuthorizationDue(b) ==
  /\ row[b].status = "open"
  /\ row[b].deposit = "succeeded"
  /\ row[b].balance \in {"pending", "required", "failed"}
  /\ phase[b] = "last_24h"

(* The booking is read; with an intent on record that one is looked at.      *)
BeginAuthorize(c, b) ==
  /\ call[c] = Idle
  /\ AuthorizationDue(b)
  /\ Goto(c, IF row[b].intent THEN "auth_sync" ELSE "auth_create", b, "none")
  /\ NoWrite /\ NoStripe /\ OnlyCalls

(* syncFromExistingPaymentIntent: the intent is retrieved ... *)
AuthSync(c) ==
  /\ call[c].at = "auth_sync"
  /\ LET b == call[c].booking IN Goto(c, "auth_write", b, stripe[b].hold)
  /\ NoWrite /\ NoStripe /\ OnlyCalls

(* ... and what was seen is written; an intent that is of no more use is     *)
(* forgotten, and the pass goes on to create one.                            *)
AuthWrite(c) ==
  /\ call[c].at = "auth_write"
  /\ LET b == call[c].booking
         seen == call[c].seen
     IN  \/ /\ seen = "requires_capture"
            /\ Write(b, [row[b] EXCEPT !.balance = "authorized"])
            /\ Return(c)
         \/ /\ seen = "succeeded"
            /\ Write(b, [row[b] EXCEPT !.balance = "captured"])
            /\ Return(c)
         \/ /\ seen \in {"canceled", "requires_payment_method"}
            /\ Write(b, [row[b] EXCEPT !.balance = "failed", !.intent = FALSE])
            /\ Goto(c, "auth_create", b, "none")
         \/ /\ seen = "requires_action"
            /\ NoWrite
            /\ Return(c)
  /\ NoStripe /\ OnlyCalls

(* The customer or the card that paid the deposit cannot be charged again. *)
AuthNoCard(c) ==
  /\ call[c].at = "auth_create"
  /\ LET b == call[c].booking IN Write(b, [row[b] EXCEPT !.balance = "required"])
  /\ Return(c)
  /\ NoStripe /\ OnlyCalls

(* The first create with the key confirms the payment; a later one is        *)
(* answered as the first was.  A declined card is an exception, and nothing  *)
(* is written.                                                               *)
AuthCreate(c) ==
  /\ call[c].at = "auth_create"
  /\ LET b == call[c].booking
     IN  \E a \in Answers \ {"none"} :
           /\ \/ /\ stripe[b].answer = "none"
                 /\ LET h == IF a = "declined" THEN "requires_payment_method" ELSE a
                    IN  /\ stripe' = [stripe EXCEPT ![b].hold = h, ![b].answer = a]
                        /\ events' = events \cup HoldEvents(b, h)
              \/ /\ stripe[b].answer = a
                 /\ NoStripe
           /\ IF a = "declined" THEN Return(c) ELSE Goto(c, "auth_record", b, a)
  /\ NoWrite /\ OnlyCalls

\* Mutant of Recorded: the column takes Stripe's word for the status.
FaultRecordedStripeStatus(r, answer) == [r EXCEPT !.intent = TRUE, !.balance = answer]

\* Mutant of Recorded: only an intent that holds the money is kept.
FaultRecordedHeldOnly(r, answer) ==
  IF answer = "requires_capture" THEN [r EXCEPT !.intent = TRUE, !.balance = "authorized"]
  ELSE [r EXCEPT !.balance = "failed"]

Recorded(r, answer) ==
  [r EXCEPT !.intent = TRUE,
            !.balance = IF answer = "requires_capture" THEN "authorized" ELSE "failed"]

(* The answer to the create is written by id. *)
AuthRecord(c) ==
  /\ call[c].at = "auth_record"
  /\ LET b == call[c].booking IN Write(b, Recorded(row[b], call[c].seen))
  /\ Return(c)
  /\ NoStripe /\ OnlyCalls

-----------------------------------------------------------------------------
(* transitionBooking "complete", then captureRemainingBalanceForBooking *)

BeginComplete(c, b) ==
  /\ call[c] = Idle
  /\ row[b].status = "open"
  /\ Goto(c, "complete", b, "none")
  /\ NoWrite /\ NoStripe /\ OnlyCalls

(* A transition: guarded by the status that was read.  A call that finds its *)
(* own outcome already there counts as applied and runs the effects too.     *)
Transition(c, to, next, r) ==
  LET b == call[c].booking
  IN  \/ /\ row[b].status = "open"
         /\ Write(b, r)
         /\ Goto(c, next, b, "none")
      \/ /\ row[b].status = to
         /\ NoWrite
         /\ Goto(c, next, b, "none")
      \/ /\ row[b].status \notin {"open", to}
         /\ NoWrite
         /\ Return(c)

(* The statement that completes the job; the capture is started and not *)
(* waited for.                                                          *)
Complete(c) ==
  /\ call[c].at = "complete"
  /\ Transition(c, "completed", "capture_read",
                [row[call[c].booking] EXCEPT !.status = "completed"])
  /\ NoStripe /\ OnlyCalls

(* captureRemainingBalanceForBooking reads the row: nothing to do, no intent *)
(* to capture, or an intent to look at.                                      *)
CaptureRead(c) ==
  /\ call[c].at = "capture_read"
  /\ LET b == call[c].booking
         due == row[b].status = "completed" /\ row[b].balance = "authorized"
     IN  \/ ~due /\ Return(c) /\ NoWrite
         \/ due /\ row[b].intent /\ Goto(c, "capture_look", b, "none") /\ NoWrite
         \/ /\ due /\ ~row[b].intent
            /\ Write(b, [row[b] EXCEPT !.balance = "capture_failed"])
            /\ Return(c)
  /\ NoStripe /\ OnlyCalls

\* Mutant of CaptureStep: what cannot be captured counts as captured.
FaultCaptureStepElse(h) == IF h = "requires_capture" THEN "capture" ELSE "capture_mark"

CaptureStep(h) ==
  IF h = "requires_capture" THEN "capture"
  ELSE IF h = "succeeded" THEN "capture_mark" ELSE "capture_fail"

(* The intent is retrieved, and captured if it can be. *)
CaptureLook(c) ==
  /\ call[c].at = "capture_look"
  /\ LET b == call[c].booking IN Goto(c, CaptureStep(stripe[b].hold), b, "none")
  /\ NoWrite /\ NoStripe /\ OnlyCalls

(* Stripe captures what can be captured; a second request with the key is    *)
(* answered like the first.                                                  *)
CaptureCall(c) ==
  /\ call[c].at = "capture"
  /\ LET b == call[c].booking
     IN  \/ /\ stripe[b].hold = "requires_capture"
            /\ Hold(b, "succeeded")
            /\ Goto(c, "capture_check", b, "none")
         \/ /\ stripe[b].hold = "succeeded"
            /\ NoStripe
            /\ Goto(c, "capture_check", b, "none")
         \/ /\ stripe[b].hold \notin {"requires_capture", "succeeded"}
            /\ NoStripe
            /\ Goto(c, "capture_fail", b, "none")
  /\ NoWrite /\ OnlyCalls

(* The intent is retrieved once more. *)
CaptureCheck(c) ==
  /\ call[c].at = "capture_check"
  /\ LET b == call[c].booking
     IN  IF stripe[b].hold = "succeeded" THEN Goto(c, "capture_mark", b, "none")
                                         ELSE Return(c)
  /\ NoWrite /\ NoStripe /\ OnlyCalls

CaptureMark(c) ==
  /\ call[c].at = "capture_mark"
  /\ LET b == call[c].booking IN Write(b, [row[b] EXCEPT !.balance = "captured"])
  /\ Return(c)
  /\ NoStripe /\ OnlyCalls

CaptureFail(c) ==
  /\ call[c].at = "capture_fail"
  /\ LET b == call[c].booking IN Write(b, [row[b] EXCEPT !.balance = "capture_failed"])
  /\ Return(c)
  /\ NoStripe /\ OnlyCalls

(* A completed job is opened again. *)
Reopen(b) ==
  /\ row[b].status = "completed"
  /\ Write(b, [row[b] EXCEPT !.status = "open"])
  /\ UNCHANGED call
  /\ NoStripe /\ OnlyCalls

-----------------------------------------------------------------------------
(* transitionBooking "cancel", then enforcePublicDepositOnCancellation *)

BeginCancel(c, b) ==
  /\ call[c] = Idle
  /\ row[b].status = "open"
  /\ Goto(c, "cancel", b, "none")
  /\ NoWrite /\ NoStripe /\ OnlyCalls

Cancel(c) ==
  /\ call[c].at = "cancel"
  /\ Transition(c, "canceled", "enforce",
                [row[call[c].booking] EXCEPT !.status = "canceled", !.canceledAt = TRUE])
  /\ NoStripe /\ OnlyCalls

(* PATCH /bookings/:id writes the status it is given, and nothing else. *)
PatchCanceled(b) ==
  /\ b \in Patchable
  /\ row[b].status # "canceled"
  /\ Write(b, [row[b] EXCEPT !.status = "canceled"])
  /\ UNCHANGED call
  /\ NoStripe /\ OnlyCalls

(* A paid booking gets its start when its hold is confirmed, if it has not   *)
(* been canceled before.                                                     *)
ConfirmHold(b) ==
  /\ row[b].status = "open"
  /\ phase[b] = "unscheduled"
  /\ Write(b, row[b])
  /\ \E p \in Phases \ {"unscheduled", "started"} : phase' = [phase EXCEPT ![b] = p]
  /\ UNCHANGED <<stripe, events, call, batch, pass, faults>>

\* Mutant of Unsettled: the day between the limits is on neither side.
FaultUnsettledGap(b) ==
  row[b].deposit = "succeeded" /\ row[b].refund # "succeeded" /\ ~row[b].fee
    /\ phase[b] # "over_24h"

Unsettled(b) == row[b].deposit = "succeeded" /\ row[b].refund # "succeeded" /\ ~row[b].fee

(* The policy: more than 48 hours before the start the deposit is refunded,  *)
(* later a fee is kept; what is on record already is left alone, and so is   *)
(* a booking without a start.                                                *)
Enforce(c) ==
  /\ call[c].at = "enforce"
  /\ LET b == call[c].booking
     IN  IF phase[b] # "unscheduled" /\ Unsettled(b)
         THEN Goto(c, IF phase[b] = "over_48h" THEN "refund_pending" ELSE "retain", b, "none")
         ELSE Return(c)
  /\ NoWrite /\ NoStripe /\ OnlyCalls

(* The refund is announced in the row, then asked for. *)
EnforcePending(c) ==
  /\ call[c].at = "refund_pending"
  /\ LET b == call[c].booking
     IN  /\ Write(b, [row[b] EXCEPT !.refund = "pending"])
         /\ Goto(c, "refund_call", b, "none")
  /\ NoStripe /\ OnlyCalls

EnforceCall(c) ==
  /\ call[c].at = "refund_call"
  /\ LET b == call[c].booking
     IN  \E a \in StripeRefunds \ {"none"} :
           /\ \/ /\ stripe[b].refundAnswer = "none"
                 /\ stripe' = [stripe EXCEPT ![b].refund = a, ![b].refundAnswer = a]
                 /\ events' = events \cup {RefundEvent(b, a)}
              \/ /\ stripe[b].refundAnswer = a
                 /\ NoStripe
           /\ Goto(c, "refund_done", b, a)
  /\ NoWrite /\ OnlyCalls

EnforceDone(c) ==
  /\ call[c].at = "refund_done"
  /\ LET b == call[c].booking
         a == call[c].seen
     IN  Write(b, IF a = "failed"
                  THEN [row[b] EXCEPT !.refund = "failed", !.refundId = TRUE]
                  ELSE [row[b] EXCEPT !.refund = a, !.refundId = TRUE,
                                      !.deposit = "refunded", !.fee = FALSE])
  /\ Return(c)
  /\ NoStripe /\ OnlyCalls

(* The refund request threw. *)
EnforceFailed(c) ==
  /\ call[c].at = "refund_failed"
  /\ LET b == call[c].booking IN Write(b, [row[b] EXCEPT !.refund = "failed"])
  /\ Return(c)
  /\ NoStripe /\ OnlyCalls

EnforceRetain(c) ==
  /\ call[c].at = "retain"
  /\ LET b == call[c].booking
     IN  Write(b, [row[b] EXCEPT !.fee = TRUE, !.deposit = "fee_retained",
                                 !.refund = "not_required"])
  /\ Return(c)
  /\ NoStripe /\ OnlyCalls

-----------------------------------------------------------------------------
(* Failed calls *)

Fault == faults < MaxFaults /\ faults' = faults + 1

(* A call throws, or its process stops; what it has done stays done. *)
CallFails(c) ==
  /\ call[c] # Idle
  /\ Fault
  /\ Return(c)
  /\ UNCHANGED <<row, older, phase, stripe, events, batch, pass>>

(* No answer comes from Stripe to a capture or refund, which was made or was *)
(* not; the services catch that and write a failure.                         *)
NoAnswer(c) ==
  /\ Fault
  /\ \/ /\ call[c].at = "capture"
        /\ Goto(c, "capture_fail", call[c].booking, "none")
     \/ /\ call[c].at \in {"refund_call", "refund_done"}
        /\ Goto(c, "refund_failed", call[c].booking, "none")
     \/ /\ call[c].at = "capture_check"
        /\ Goto(c, "capture_fail", call[c].booking, "none")
  /\ UNCHANGED <<row, older, phase, stripe, events, batch, pass>>

-----------------------------------------------------------------------------
(* Webhooks.  The receipt of an event is stored before it is applied and is  *)
(* unique, so an event is applied at most once.                              *)

(* persistPublicDepositWebhookSuccess starts the money of the booking anew. *)
DepositSucceeded(r) == [r EXCEPT !.deposit = "succeeded", !.balance = "pending"]

(* payment_intent.amount_capturable_updated, .succeeded and .payment_failed  *)
(* of the balance: each also puts its intent on record.                      *)
HoldCapturable(r) == [r EXCEPT !.balance = "authorized", !.intent = TRUE]
HoldSucceeded(r) == [r EXCEPT !.balance = "captured", !.intent = TRUE]
HoldFailed(r) == [r EXCEPT !.balance = "failed", !.intent = TRUE]

(* charge.refund.updated. *)
RefundUpdated(r, status) ==
  [r EXCEPT !.refund = status, !.refundId = TRUE,
            !.deposit = IF status = "succeeded" THEN "refunded" ELSE @]

Applied(r, kind) ==
  CASE kind = "deposit_succeeded" -> DepositSucceeded(r)
    [] kind = "capturable"        -> HoldCapturable(r)
    [] kind = "hold_succeeded"    -> HoldSucceeded(r)
    [] kind = "hold_failed"       -> HoldFailed(r)
    [] kind = "refund_pending"    -> RefundUpdated(r, "pending")
    [] kind = "refund_succeeded"  -> RefundUpdated(r, "succeeded")
    [] kind = "refund_failed"     -> RefundUpdated(r, "failed")

Receive(e) ==
  /\ events' = events \ {e}
  /\ Write(e.booking, Applied(row[e.booking], e.kind))
  /\ UNCHANGED <<phase, stripe, call, batch, pass, faults>>

(* The receipt is stored and applying fails, or the event is not subscribed. *)
LoseEvent(e) ==
  /\ events' = events \ {e}
  /\ UNCHANGED <<row, older, phase, stripe, call, batch, pass, faults>>

-----------------------------------------------------------------------------
(* The reconciliation cron *)

\* Mutant of Candidates: rows whose balance waits for something, and refunds.
FaultCandidatesWaiting == { b \in Bookings :
  \/ row[b].balance \in {"pending", "required", "authorized", "failed"}
  \/ row[b].refundId
  \/ row[b].refund \in {"pending", "failed"} }

(* findBookingsForLifecycleReconciliation: the rows it may have to correct, *)
(* which includes every row that ever had an intent or a refund.            *)
Candidates == { b \in Bookings :
  \/ row[b].intent
  \/ row[b].balance # "captured"
  \/ row[b].refundId
  \/ row[b].refund \in {"pending", "failed"} }

(* orderBy updatedAt asc, take Batch *)
Oldest ==
  { b \in Candidates : Cardinality({ a \in Candidates : <<a, b>> \in older }) < Batch }

(* The cron takes its rows when it has dealt with the last ones. *)
BeginPass ==
  /\ pass = PassIdle /\ batch = {}
  /\ batch' = Oldest
  /\ UNCHANGED <<row, older, phase, stripe, events, call, pass, faults>>

BalanceIsOpen(r) == r.intent /\ r.balance # "captured"

(* What is left to do for a booking once its refund has been dealt with. *)
AfterRefund(b, r) ==
  pass' = IF BalanceIsOpen(r)
          THEN [at |-> "balance_look", booking |-> b, read |-> r, seen |-> "none"]
          ELSE PassIdle

\* Mutant of RefundIsOpen: a refund that has failed is not looked at again.
FaultRefundIsOpenPending(b) == row[b].refundId /\ row[b].refund = "pending"

RefundIsOpen(b) == row[b].refundId /\ row[b].refund # "succeeded"

(* reconcileBookingPaymentLifecycle reads the row once, at the start. *)
PassRead(b) ==
  /\ pass = PassIdle /\ b \in batch
  /\ batch' = batch \ {b}
  /\ LET r == [balance |-> row[b].balance, deposit |-> row[b].deposit,
               intent |-> row[b].intent]
     IN  IF RefundIsOpen(b)
         THEN pass' = [at |-> "refund_look", booking |-> b, read |-> r, seen |-> "none"]
         ELSE AfterRefund(b, r)
  /\ UNCHANGED <<row, older, phase, stripe, events, call, faults>>

(* The refund, or the intent, is retrieved ... *)
PassLook ==
  /\ \/ /\ pass.at = "refund_look"
        /\ pass' = [pass EXCEPT !.at = "refund_write", !.seen = stripe[pass.booking].refund]
     \/ /\ pass.at = "balance_look"
        /\ pass' = [pass EXCEPT !.at = "balance_write", !.seen = stripe[pass.booking].hold]
  /\ UNCHANGED <<row, older, phase, stripe, events, call, batch, faults>>

(* ... and what was seen is written over whatever the row has become. *)
PassRefund ==
  /\ pass.at = "refund_write"
  /\ LET b == pass.booking
         keepsFee == pass.seen # "succeeded" \/ pass.read.deposit = "fee_retained"
     IN  /\ Write(b, [row[b] EXCEPT
                        !.refund = pass.seen,
                        !.deposit = IF keepsFee THEN @ ELSE "refunded"])
         /\ AfterRefund(b, pass.read)
  /\ UNCHANGED <<phase, stripe, events, call, batch, faults>>

(* The status of the row for each status of the hold that has one. *)
Telling == {"requires_capture", "succeeded", "canceled", "requires_payment_method"}
Reconciled(h) ==
  CASE h = "requires_capture"        -> "authorized"
    [] h = "succeeded"               -> "captured"
    [] h = "canceled"                -> "failed"
    [] h = "requires_payment_method" -> "required"

(* A status that the row had when it was read is not written again, unless   *)
(* a time or the reason of a failure is missing beside it.                   *)
PassBalance ==
  /\ pass.at = "balance_write"
  /\ LET b == pass.booking
     IN  \/ /\ pass.seen \in Telling
            /\ Write(b, [row[b] EXCEPT !.balance = Reconciled(pass.seen)])
         \/ /\ pass.seen \in Telling => Reconciled(pass.seen) = pass.read.balance
            /\ NoWrite
  /\ pass' = PassIdle
  /\ UNCHANGED <<phase, stripe, events, call, batch, faults>>

(* Stripe does not answer.  For the refund that is caught and the balance is *)
(* still looked at; for the balance the pass goes on with the next booking.  *)
PassFails ==
  /\ pass # PassIdle
  /\ Fault
  /\ IF pass.at \in {"refund_look", "refund_write"} THEN AfterRefund(pass.booking, pass.read)
     ELSE pass' = PassIdle
  /\ UNCHANGED <<row, older, phase, stripe, events, call, batch>>

-----------------------------------------------------------------------------
(* The world *)

OnlyStripe == UNCHANGED <<row, older, phase, call, batch, pass, faults>>

(* The customer answers the bank's question, or fails to. *)
CustomerActs(b) ==
  /\ stripe[b].hold = "requires_action"
  /\ \E h \in {"requires_capture", "requires_payment_method"} : Hold(b, h)
  /\ OnlyStripe

(* A hold that nobody captures expires, or is canceled by hand. *)
HoldExpires(b) ==
  /\ stripe[b].hold = "requires_capture"
  /\ Hold(b, "canceled")
  /\ OnlyStripe

RefundSettles(b) ==
  /\ stripe[b].refund = "pending"
  /\ \E r \in {"succeeded", "failed"} :
       /\ stripe' = [stripe EXCEPT ![b].refund = r]
       /\ events' = events \cup {RefundEvent(b, r)}
  /\ OnlyStripe

Tick(b) ==
  /\ phase[b] \notin {"unscheduled", "started"}
  /\ phase' = [phase EXCEPT ![b] = IF @ = "over_48h" THEN "over_24h"
                                   ELSE IF @ = "over_24h" THEN "last_24h" ELSE "started"]
  /\ UNCHANGED <<row, older, stripe, events, call, batch, pass, faults>>

-----------------------------------------------------------------------------
Authorize(c) == AuthSync(c) \/ AuthWrite(c) \/ AuthNoCard(c) \/ AuthCreate(c) \/ AuthRecord(c)

Capture(c) ==
  Complete(c) \/ CaptureRead(c) \/ CaptureLook(c) \/ CaptureCall(c) \/ CaptureCheck(c)
    \/ CaptureMark(c) \/ CaptureFail(c)

Cancelation(c) ==
  Cancel(c) \/ Enforce(c) \/ EnforcePending(c) \/ EnforceCall(c) \/ EnforceDone(c)
    \/ EnforceFailed(c) \/ EnforceRetain(c)

Reconcile == BeginPass \/ (\E b \in Bookings : PassRead(b)) \/ PassLook \/ PassRefund \/ PassBalance

Next ==
  \/ \E c \in Calls :
       \/ \E b \in Bookings :
            \/ c \in Crons /\ BeginAuthorize(c, b)
            \/ c \in Apis /\ (BeginComplete(c, b) \/ BeginCancel(c, b))
       \/ Authorize(c) \/ Capture(c) \/ Cancelation(c)
       \/ CallFails(c) \/ NoAnswer(c)
  \/ \E b \in Bookings :
       \/ Reopen(b) \/ PatchCanceled(b) \/ ConfirmHold(b)
       \/ CustomerActs(b) \/ HoldExpires(b) \/ RefundSettles(b) \/ Tick(b)
  \/ \E e \in events : Receive(e) \/ LoseEvent(e)
  \/ Reconcile \/ PassFails

Spec == Init /\ [][Next]_vars

(* The reconciliation cron runs every 15 minutes and time passes. *)
FairSpec ==
  /\ Spec
  /\ WF_vars(Reconcile)
  /\ \A b \in Bookings : WF_vars(Tick(b))

-----------------------------------------------------------------------------
(* Properties *)

(* Every variable has its type; in particular a status column of the row     *)
(* never takes a status of Stripe's.                                         *)
PaymentsTypeOK ==
  /\ row \in [Bookings -> Row]
  /\ older \subseteq Bookings \X Bookings
  /\ phase \in [Bookings -> Phases]
  /\ stripe \in [Bookings -> Stripe]
  /\ events \subseteq Event
  /\ call \in [Calls -> CallState]
  /\ batch \subseteq Bookings
  /\ pass \in PassState
  /\ faults \in 0..MaxFaults

(* A row says captured, or refunded, only of money that Stripe has moved,    *)
(* whatever old answers and late events are written: reconciliation never    *)
(* looks at such a row again ("no_downgrade"), so a wrong one would stay.    *)
RowsAreTrue ==
  \A b \in Bookings :
    /\ row[b].balance = "captured" => stripe[b].hold = "succeeded"
    /\ row[b].refund = "succeeded" => stripe[b].refund = "succeeded"

Settled(r) == r.fee \/ r.refund # "not_required"

(* enforcePublicDepositOnCancellation: unless a call fails, a booking that   *)
(* transitionBooking has canceled has its deposit refunded (or the attempt   *)
(* recorded) or a fee retained, or a call is about to see to it, also when   *)
(* two cancelations race and the loser enforces too.  The exception is one   *)
(* canceled before it had a start: "no_scheduled_start", and the deposit     *)
(* stays as it is.                                                           *)
CanceledIsSettled ==
  \A b \in Bookings :
    row[b].canceledAt /\ phase[b] # "unscheduled" /\ faults = 0 =>
      \/ Settled(row[b])
      \/ \E c \in Calls : call[c].at \in CancelSteps /\ call[c].booking = b

(* Money held on a card is known to the row, or a call is about to write it, *)
(* unless a call has failed: no pass forgets the intent of a live hold, and  *)
(* a hold that the customer's bank lets through late is one that is known.   *)
NoForgottenHold ==
  \A b \in Bookings :
    stripe[b].hold = "requires_capture" /\ ~row[b].intent /\ faults = 0 =>
      \E c \in Calls : call[c].at = "auth_record" /\ call[c].booking = b

Agrees(b) ==
  stripe[b].hold \in Telling => row[b].balance = Reconciled(stripe[b].hold)

(* stripe-payment.service.ts: "scheduled reconciliation still converges      *)
(* remaining-balance and deposit rows against Stripe PaymentIntents", also   *)
(* with lost and late events, stale writes and failed calls.  From some time *)
(* on a row that knows its intent agrees with Stripe for ever ...            *)
BalancesConverge ==
  \A b \in Bookings : <>[](row[b].intent => Agrees(b))

(* ... and so does a row that knows its refund, once Stripe has decided it.  *)
RefundsConverge ==
  \A b \in Bookings :
    <>[](row[b].refundId /\ stripe[b].refund \in {"succeeded", "failed"}
           => row[b].refund = stripe[b].refund)
=============================================================================
