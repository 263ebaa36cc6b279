----------------------- MODULE PaymentLifecycleProofs -----------------------
(***************************************************************************)
(* For any bookings, passes, calls and batch size: the payment services    *)
(* keep their types, what a row says of money that has moved is true,      *)
(* every cancelation is settled and no live hold is forgotten, unless a    *)
(* call fails, and money that has moved is not written over by what begins *)
(* after the row has come to say so (MovedMoneyStays).                     *)
(* Rows with nothing left to do starve the others (FinishedRowsStarve).    *)
(*                                                                         *)
(* The argument: a payment that Stripe has ended stays ended, so an answer *)
(* that says so, an event or a snapshot of a pass, stays true while it is  *)
(* on its way to the row (StripeMoves, then Knowledge).                    *)
(***************************************************************************)
EXTENDS PaymentLifecycle, FiniteSetTheorems, TLAPS

Steps == AuthSteps \cup CompleteSteps \cup CancelSteps
Busy == [at : Steps, booking : Bookings, seen : Seen]
Passing == [at : PassSteps, booking : Bookings, read : Snapshot, seen : Seen]

(* States that a PaymentIntent does not leave, answers to a refund. *)
Ended == {"canceled", "requires_payment_method", "succeeded"}
RefundAnswers == {"pending", "succeeded", "failed"}

(* The first answer under a key came with the payment, or the refund. *)
AnswersAreFirst ==
  \A b \in Bookings :
    /\ stripe[b].answer = "none" => stripe[b].hold = "none"
    /\ stripe[b].refundAnswer = "none" <=> stripe[b].refund = "none"
    /\ stripe[b].refundAnswer = "succeeded" => stripe[b].refund = "succeeded"

(* An answer about a refund that is still true. *)
RefundShows(b, r) ==
  /\ r \in RefundAnswers
  /\ stripe[b].refund # "none"
  /\ r = "succeeded" => stripe[b].refund = "succeeded"

CallKnows(q) ==
  /\ q.at = "auth_write" /\ q.seen \in Ended => stripe[q.booking].hold = q.seen
  /\ q.at = "capture_mark" => stripe[q.booking].hold = "succeeded"
  /\ q.at = "refund_done" => RefundShows(q.booking, q.seen)

EventKnows(e) ==
  /\ e.kind = "hold_succeeded" => stripe[e.booking].hold = "succeeded"
  /\ e.kind = "refund_pending" => RefundShows(e.booking, "pending")
  /\ e.kind = "refund_succeeded" => RefundShows(e.booking, "succeeded")
  /\ e.kind = "refund_failed" => RefundShows(e.booking, "failed")

PassKnows ==
  /\ pass.at = "refund_look" => stripe[pass.booking].refund # "none"
  /\ pass.at = "refund_write" => RefundShows(pass.booking, pass.seen)
  /\ pass.at = "balance_write" /\ pass.seen = "succeeded"
       => stripe[pass.booking].hold = "succeeded"

(* What a row says of money is true, and its columns fit together. *)
RowFits(b, r) ==
  /\ r.balance = "captured" => stripe[b].hold = "succeeded"
  /\ r.refund = "succeeded" => stripe[b].refund = "succeeded"
  /\ r.refundId => stripe[b].refund # "none"
  /\ r.canceledAt => r.status = "canceled"
  /\ r.deposit # "succeeded" => Settled(r)

(* The same as NoForgottenHold, for a hold that waits for the customer too. *)
HoldsKnown ==
  \A b \in Bookings :
    stripe[b].hold \in {"requires_capture", "requires_action"} /\ ~row[b].intent /\ faults = 0 =>
      \E c \in Calls : call[c].at = "auth_record" /\ call[c].booking = b

Knowledge ==
  /\ AnswersAreFirst
  /\ \A c \in Calls : CallKnows(call[c])
  /\ \A e \in events : EventKnows(e)
  /\ PassKnows
  /\ \A b \in Bookings : RowFits(b, row[b])

IInv == PaymentsTypeOK /\ Knowledge /\ CanceledIsSettled /\ HoldsKnown

-----------------------------------------------------------------------------
(* Types *)

(* A call that is somewhere has a booking, and has seen something. *)
LEMMA BusyTyped ==
  ASSUME PaymentsTypeOK, NEW c \in Calls, call[c].at # "idle"
  PROVE  /\ call[c] \in Busy
         /\ call[c].at \in Steps /\ call[c].booking \in Bookings /\ call[c].seen \in Seen
         /\ row[call[c].booking] \in Row
         /\ stripe[call[c].booking] \in Stripe
  BY DEF PaymentsTypeOK, CallState, Idle, Busy, Steps

(* So does a pass. *)
LEMMA PassTyped ==
  ASSUME PaymentsTypeOK, pass.at # "idle"
  PROVE  /\ pass \in Passing
         /\ pass.at \in PassSteps /\ pass.booking \in Bookings /\ pass.seen \in Seen
         /\ pass.read \in Snapshot
         /\ row[pass.booking] \in Row
         /\ stripe[pass.booking] \in Stripe
  BY DEF PaymentsTypeOK, PassState, PassIdle, Passing

(* A call or a pass is idle if its place is. *)
LEMMA IdleIsIdle ==
  ASSUME PaymentsTypeOK
  PROVE  /\ \A c \in Calls : call[c] # Idle => call[c].at # "idle"
         /\ pass # PassIdle => pass.at # "idle"
  BY DEF PaymentsTypeOK, CallState, Idle, PassState, PassIdle, PassSteps, AuthSteps,
         CompleteSteps, CancelSteps

(* The write of a row keeps the types of rows and of their order. *)
LEMMA WriteTyped ==
  ASSUME PaymentsTypeOK, NEW b \in Bookings, NEW r \in Row, Write(b, r)
  PROVE  row' \in [Bookings -> Row] /\ older' \subseteq Bookings \X Bookings
  BY DEF PaymentsTypeOK, Write, Touched

(* A call that moves on stays a call ... *)
LEMMA GotoTyped ==
  ASSUME PaymentsTypeOK, NEW c \in Calls, NEW at \in Steps, NEW b \in Bookings,
         NEW seen \in Seen, Goto(c, at, b, seen)
  PROVE  call' \in [Calls -> CallState]
  BY DEF PaymentsTypeOK, Goto, At, CallState, Steps

(* ... and so does one that ends. *)
LEMMA ReturnTyped ==
  ASSUME PaymentsTypeOK, NEW c \in Calls, Return(c)
  PROVE  call' \in [Calls -> CallState]
  BY DEF PaymentsTypeOK, Return, CallState

(* What Stripe does with a hold keeps the types of Stripe and events. *)
LEMMA HoldTyped ==
  ASSUME PaymentsTypeOK, NEW b \in Bookings, NEW h \in Holds
  PROVE  /\ HoldEvents(b, h) \subseteq Event
         /\ Hold(b, h) => stripe' \in [Bookings -> Stripe] /\ events' \subseteq Event
<1>1. HoldEvents(b, h) \subseteq Event
  BY DEF HoldEvents, Event, EventKinds
<1>2. QED
  BY <1>1 DEF Hold, PaymentsTypeOK, Stripe

(* An event about a refund is an event. *)
LEMMA RefundEventTyped ==
  ASSUME NEW b \in Bookings, NEW r PROVE RefundEvent(b, r) \in Event
  BY DEF RefundEvent, Event, EventKinds

(* A failure is counted. *)
LEMMA FaultTyped ==
  ASSUME PaymentsTypeOK, Fault PROVE faults' \in 0..MaxFaults /\ faults' # 0
  BY ConstantsAssumption DEF Fault, PaymentsTypeOK

(* What an event leaves of a row is a row. *)
LEMMA AppliedTyped ==
  ASSUME NEW r \in Row, NEW k \in EventKinds
  PROVE  Applied(r, k) \in Row
<1> USE DEF Row, Balances, Deposits, Refunds
<1>1. CASE k = "deposit_succeeded" BY <1>1 DEF Applied, DepositSucceeded
<1>2. CASE k = "capturable" BY <1>2 DEF Applied, HoldCapturable
<1>3. CASE k = "hold_succeeded" BY <1>3 DEF Applied, HoldSucceeded
<1>4. CASE k = "hold_failed" BY <1>4 DEF Applied, HoldFailed
<1>5. CASE k = "refund_pending" BY <1>5 DEF Applied, RefundUpdated
<1>6. CASE k = "refund_succeeded" BY <1>6 DEF Applied, RefundUpdated
<1>7. CASE k = "refund_failed" BY <1>7 DEF Applied, RefundUpdated
<1>8. QED BY <1>1, <1>2, <1>3, <1>4, <1>5, <1>6, <1>7 DEF EventKinds

(* Every step keeps the types of all variables. *)
LEMMA TypeStep ==
  ASSUME PaymentsTypeOK, Knowledge, Next
  PROVE  PaymentsTypeOK'
<1>a. Seen = Holds \cup Answers \cup StripeRefunds /\ "none" \in Seen
  BY DEF Seen, Holds

<1>1. ASSUME NEW c \in Calls, NEW b \in Bookings, BeginAuthorize(c, b) PROVE PaymentsTypeOK'
  <2>1. call' \in [Calls -> CallState]
    BY <1>1, <1>a, GotoTyped DEF BeginAuthorize, Steps, AuthSteps, CompleteSteps, CancelSteps
  <2>2. QED
    BY <1>1, <2>1 DEF BeginAuthorize, NoWrite, NoStripe, OnlyCalls, PaymentsTypeOK

<1>2. ASSUME NEW c \in Calls, NEW b \in Bookings, BeginComplete(c, b) PROVE PaymentsTypeOK'
  <2>1. call' \in [Calls -> CallState]
    BY <1>2, <1>a, GotoTyped DEF BeginComplete, Steps, AuthSteps, CompleteSteps, CancelSteps
  <2>2. QED
    BY <1>2, <2>1 DEF BeginComplete, NoWrite, NoStripe, OnlyCalls, PaymentsTypeOK

<1>3. ASSUME NEW c \in Calls, NEW b \in Bookings, BeginCancel(c, b) PROVE PaymentsTypeOK'
  <2>1. call' \in [Calls -> CallState]
    BY <1>3, <1>a, GotoTyped DEF BeginCancel, Steps, AuthSteps, CompleteSteps, CancelSteps
  <2>2. QED
    BY <1>3, <2>1 DEF BeginCancel, NoWrite, NoStripe, OnlyCalls, PaymentsTypeOK

<1>4. ASSUME NEW c \in Calls, AuthSync(c) PROVE PaymentsTypeOK'
  <2> DEFINE b == call[c].booking
  <2>1. /\ b \in Bookings /\ call[c].seen \in Seen
        /\ row[b] \in Row /\ stripe[b] \in Stripe
    BY <1>4, BusyTyped DEF AuthSync
  <2>2. call' \in [Calls -> CallState]
    BY <1>4, <1>a, <2>1, GotoTyped, ReturnTyped
    DEF AuthSync, Steps, AuthSteps, CompleteSteps, CancelSteps, Stripe
  <2>5. QED
    BY <1>4, <2>2 DEF AuthSync, OnlyCalls, NoWrite, NoStripe, PaymentsTypeOK

<1>5. ASSUME NEW c \in Calls, AuthWrite(c) PROVE PaymentsTypeOK'
  <2> DEFINE b == call[c].booking
  <2>1. /\ b \in Bookings /\ call[c].seen \in Seen
        /\ row[b] \in Row /\ stripe[b] \in Stripe
    BY <1>5, BusyTyped DEF AuthWrite
  <2>2. call' \in [Calls -> CallState]
    BY <1>5, <1>a, <2>1, GotoTyped, ReturnTyped
    DEF AuthWrite, Steps, AuthSteps, CompleteSteps, CancelSteps, Stripe
  <2>3. row' \in [Bookings -> Row] /\ older' \subseteq Bookings \X Bookings
    BY <1>5, <2>1, WriteTyped
    DEF AuthWrite, NoWrite, Row, Statuses, Balances, Deposits, Refunds, PaymentsTypeOK
  <2>5. QED
    BY <1>5, <2>2, <2>3 DEF AuthWrite, OnlyCalls, NoStripe, PaymentsTypeOK

<1>6. ASSUME NEW c \in Calls, AuthNoCard(c) PROVE PaymentsTypeOK'
  <2> DEFINE b == call[c].booking
  <2>1. /\ b \in Bookings /\ call[c].seen \in Seen
        /\ row[b] \in Row /\ stripe[b] \in Stripe
    BY <1>6, BusyTyped DEF AuthNoCard
  <2>2. call' \in [Calls -> CallState]
    BY <1>6, <1>a, <2>1, GotoTyped, ReturnTyped
    DEF AuthNoCard, Steps, AuthSteps, CompleteSteps, CancelSteps, Stripe
  <2>3. row' \in [Bookings -> Row] /\ older' \subseteq Bookings \X Bookings
    BY <1>6, <2>1, WriteTyped
    DEF AuthNoCard, NoWrite, Row, Statuses, Balances, Deposits, Refunds, PaymentsTypeOK
  <2>5. QED
    BY <1>6, <2>2, <2>3 DEF AuthNoCard, OnlyCalls, NoStripe, PaymentsTypeOK

<1>7. ASSUME NEW c \in Calls, AuthCreate(c) PROVE PaymentsTypeOK'
  <2> DEFINE b == call[c].booking
  <2>1. /\ b \in Bookings /\ call[c].seen \in Seen
        /\ row[b] \in Row /\ stripe[b] \in Stripe
    BY <1>7, BusyTyped DEF AuthCreate
  <2>2. call' \in [Calls -> CallState]
    BY <1>7, <1>a, <2>1, GotoTyped, ReturnTyped
    DEF AuthCreate, Steps, AuthSteps, CompleteSteps, CancelSteps, Stripe
  <2>4. stripe' \in [Bookings -> Stripe] /\ events' \subseteq Event
    BY <1>7, <2>1, HoldTyped, RefundEventTyped
    DEF AuthCreate, NoStripe, PaymentsTypeOK, Stripe, Holds, Answers, StripeRefunds
  <2>5. QED
    BY <1>7, <2>2, <2>4 DEF AuthCreate, OnlyCalls, NoWrite, PaymentsTypeOK

<1>8. ASSUME NEW c \in Calls, AuthRecord(c) PROVE PaymentsTypeOK'
  <2> DEFINE b == call[c].booking
  <2>1. /\ b \in Bookings /\ call[c].seen \in Seen
        /\ row[b] \in Row /\ stripe[b] \in Stripe
    BY <1>8, BusyTyped DEF AuthRecord
  <2>2. call' \in [Calls -> CallState]
    BY <1>8, <1>a, <2>1, GotoTyped, ReturnTyped
    DEF AuthRecord, Steps, AuthSteps, CompleteSteps, CancelSteps, Stripe
  <2>3. row' \in [Bookings -> Row] /\ older' \subseteq Bookings \X Bookings
    BY <1>8, <2>1, WriteTyped
    DEF AuthRecord, Recorded, NoWrite, Row, Statuses, Balances, Deposits, Refunds, PaymentsTypeOK
  <2>5. QED
    BY <1>8, <2>2, <2>3 DEF AuthRecord, OnlyCalls, NoStripe, PaymentsTypeOK

<1>9. ASSUME NEW c \in Calls, Complete(c) PROVE PaymentsTypeOK'
  <2> DEFINE b == call[c].booking
  <2>1. /\ b \in Bookings /\ call[c].seen \in Seen
        /\ row[b] \in Row /\ stripe[b] \in Stripe
    BY <1>9, BusyTyped DEF Complete
  <2>2. call' \in [Calls -> CallState]
    BY <1>9, <1>a, <2>1, GotoTyped, ReturnTyped
    DEF Complete, Transition, Steps, AuthSteps, CompleteSteps, CancelSteps, Stripe
  <2>3. row' \in [Bookings -> Row] /\ older' \subseteq Bookings \X Bookings
    BY <1>9, <2>1, WriteTyped
    DEF Complete, Transition, NoWrite, Row, Statuses, Balances, Deposits, Refunds, PaymentsTypeOK
  <2>5. QED
    BY <1>9, <2>2, <2>3 DEF Complete, OnlyCalls, NoStripe, PaymentsTypeOK

<1>10. ASSUME NEW c \in Calls, CaptureRead(c) PROVE PaymentsTypeOK'
  <2> DEFINE b == call[c].booking
  <2>1. /\ b \in Bookings /\ call[c].seen \in Seen
        /\ row[b] \in Row /\ stripe[b] \in Stripe
    BY <1>10, BusyTyped DEF CaptureRead
  <2>2. call' \in [Calls -> CallState]
    BY <1>10, <1>a, <2>1, GotoTyped, ReturnTyped
    DEF CaptureRead, Steps, AuthSteps, CompleteSteps, CancelSteps, Stripe
  <2>3. row' \in [Bookings -> Row] /\ older' \subseteq Bookings \X Bookings
    BY <1>10, <2>1, WriteTyped
    DEF CaptureRead, NoWrite, Row, Statuses, Balances, Deposits, Refunds, PaymentsTypeOK
  <2>5. QED
    BY <1>10, <2>2, <2>3 DEF CaptureRead, OnlyCalls, NoStripe, PaymentsTypeOK

<1>11. ASSUME NEW c \in Calls, CaptureLook(c) PROVE PaymentsTypeOK'
  <2> DEFINE b == call[c].booking
  <2>1. /\ b \in Bookings /\ call[c].seen \in Seen
        /\ row[b] \in Row /\ stripe[b] \in Stripe
    BY <1>11, BusyTyped DEF CaptureLook
  <2>2. call' \in [Calls -> CallState]
    BY <1>11, <1>a, <2>1, GotoTyped, ReturnTyped
    DEF CaptureLook, CaptureStep, Steps, AuthSteps, CompleteSteps, CancelSteps, Stripe
  <2>5. QED
    BY <1>11, <2>2 DEF CaptureLook, OnlyCalls, NoWrite, NoStripe, PaymentsTypeOK

<1>12. ASSUME NEW c \in Calls, CaptureCall(c) PROVE PaymentsTypeOK'
  <2> DEFINE b == call[c].booking
  <2>1. /\ b \in Bookings /\ call[c].seen \in Seen
        /\ row[b] \in Row /\ stripe[b] \in Stripe
    BY <1>12, BusyTyped DEF CaptureCall
  <2>2. call' \in [Calls -> CallState]
    BY <1>12, <1>a, <2>1, GotoTyped, ReturnTyped
    DEF CaptureCall, Steps, AuthSteps, CompleteSteps, CancelSteps, Stripe
  <2>4. stripe' \in [Bookings -> Stripe] /\ events' \subseteq Event
    BY <1>12, <2>1, HoldTyped, RefundEventTyped
    DEF CaptureCall, NoStripe, PaymentsTypeOK, Stripe, Holds, Answers, StripeRefunds
  <2>5. QED
    BY <1>12, <2>2, <2>4 DEF CaptureCall, OnlyCalls, NoWrite, PaymentsTypeOK

<1>13. ASSUME NEW c \in Calls, CaptureCheck(c) PROVE PaymentsTypeOK'
  <2> DEFINE b == call[c].booking
  <2>1. /\ b \in Bookings /\ call[c].seen \in Seen
        /\ row[b] \in Row /\ stripe[b] \in Stripe
    BY <1>13, BusyTyped DEF CaptureCheck
  <2>2. call' \in [Calls -> CallState]
    BY <1>13, <1>a, <2>1, GotoTyped, ReturnTyped
    DEF CaptureCheck, Steps, AuthSteps, CompleteSteps, CancelSteps, Stripe
  <2>5. QED
    BY <1>13, <2>2 DEF CaptureCheck, OnlyCalls, NoWrite, NoStripe, PaymentsTypeOK

<1>14. ASSUME NEW c \in Calls, CaptureMark(c) PROVE PaymentsTypeOK'
  <2> DEFINE b == call[c].booking
  <2>1. /\ b \in Bookings /\ call[c].seen \in Seen
        /\ row[b] \in Row /\ stripe[b] \in Stripe
    BY <1>14, BusyTyped DEF CaptureMark
  <2>2. call' \in [Calls -> CallState]
    BY <1>14, <1>a, <2>1, GotoTyped, ReturnTyped
    DEF CaptureMark, Steps, AuthSteps, CompleteSteps, CancelSteps, Stripe
  <2>3. row' \in [Bookings -> Row] /\ older' \subseteq Bookings \X Bookings
    BY <1>14, <2>1, WriteTyped
    DEF CaptureMark, NoWrite, Row, Statuses, Balances, Deposits, Refunds, PaymentsTypeOK
  <2>5. QED
    BY <1>14, <2>2, <2>3 DEF CaptureMark, OnlyCalls, NoStripe, PaymentsTypeOK

<1>15. ASSUME NEW c \in Calls, CaptureFail(c) PROVE PaymentsTypeOK'
  <2> DEFINE b == call[c].booking
  <2>1. /\ b \in Bookings /\ call[c].seen \in Seen
        /\ row[b] \in Row /\ stripe[b] \in Stripe
    BY <1>15, BusyTyped DEF CaptureFail
  <2>2. call' \in [Calls -> CallState]
    BY <1>15, <1>a, <2>1, GotoTyped, ReturnTyped
    DEF CaptureFail, Steps, AuthSteps, CompleteSteps, CancelSteps, Stripe
  <2>3. row' \in [Bookings -> Row] /\ older' \subseteq Bookings \X Bookings
    BY <1>15, <2>1, WriteTyped
    DEF CaptureFail, NoWrite, Row, Statuses, Balances, Deposits, Refunds, PaymentsTypeOK
  <2>5. QED
    BY <1>15, <2>2, <2>3 DEF CaptureFail, OnlyCalls, NoStripe, PaymentsTypeOK

<1>16. ASSUME NEW c \in Calls, Cancel(c) PROVE PaymentsTypeOK'
  <2> DEFINE b == call[c].booking
  <2>1. /\ b \in Bookings /\ call[c].seen \in Seen
        /\ row[b] \in Row /\ stripe[b] \in Stripe
    BY <1>16, BusyTyped DEF Cancel
  <2>2. call' \in [Calls -> CallState]
    BY <1>16, <1>a, <2>1, GotoTyped, ReturnTyped
    DEF Cancel, Transition, Steps, AuthSteps, CompleteSteps, CancelSteps, Stripe
  <2>3. row' \in [Bookings -> Row] /\ older' \subseteq Bookings \X Bookings
    BY <1>16, <2>1, WriteTyped
    DEF Cancel, Transition, NoWrite, Row, Statuses, Balances, Deposits, Refunds, PaymentsTypeOK
  <2>5. QED
    BY <1>16, <2>2, <2>3 DEF Cancel, OnlyCalls, NoStripe, PaymentsTypeOK

<1>17. ASSUME NEW c \in Calls, Enforce(c) PROVE PaymentsTypeOK'
  <2> DEFINE b == call[c].booking
  <2>1. /\ b \in Bookings /\ call[c].seen \in Seen
        /\ row[b] \in Row /\ stripe[b] \in Stripe
    BY <1>17, BusyTyped DEF Enforce
  <2>2. call' \in [Calls -> CallState]
    BY <1>17, <1>a, <2>1, GotoTyped, ReturnTyped
    DEF Enforce, Steps, AuthSteps, CompleteSteps, CancelSteps, Stripe
  <2>5. QED
    BY <1>17, <2>2 DEF Enforce, OnlyCalls, NoWrite, NoStripe, PaymentsTypeOK

<1>18. ASSUME NEW c \in Calls, EnforcePending(c) PROVE PaymentsTypeOK'
  <2> DEFINE b == call[c].booking
  <2>1. /\ b \in Bookings /\ call[c].seen \in Seen
        /\ row[b] \in Row /\ stripe[b] \in Stripe
    BY <1>18, BusyTyped DEF EnforcePending
  <2>2. call' \in [Calls -> CallState]
    BY <1>18, <1>a, <2>1, GotoTyped, ReturnTyped
    DEF EnforcePending, Steps, AuthSteps, CompleteSteps, CancelSteps, Stripe
  <2>3. row' \in [Bookings -> Row] /\ older' \subseteq Bookings \X Bookings
    BY <1>18, <2>1, WriteTyped
    DEF EnforcePending, NoWrite, Row, Statuses, Balances, Deposits, Refunds, PaymentsTypeOK
  <2>5. QED
    BY <1>18, <2>2, <2>3 DEF EnforcePending, OnlyCalls, NoStripe, PaymentsTypeOK

<1>19. ASSUME NEW c \in Calls, EnforceCall(c) PROVE PaymentsTypeOK'
  <2> DEFINE b == call[c].booking
  <2>1. /\ b \in Bookings /\ call[c].seen \in Seen
        /\ row[b] \in Row /\ stripe[b] \in Stripe
    BY <1>19, BusyTyped DEF EnforceCall
  <2>2. call' \in [Calls -> CallState]
    BY <1>19, <1>a, <2>1, GotoTyped, ReturnTyped
    DEF EnforceCall, Steps, AuthSteps, CompleteSteps, CancelSteps, Stripe
  <2>4. stripe' \in [Bookings -> Stripe] /\ events' \subseteq Event
    BY <1>19, <2>1, HoldTyped, RefundEventTyped
    DEF EnforceCall, NoStripe, PaymentsTypeOK, Stripe, Holds, Answers, StripeRefunds
  <2>5. QED
    BY <1>19, <2>2, <2>4 DEF EnforceCall, OnlyCalls, NoWrite, PaymentsTypeOK

<1>20. ASSUME NEW c \in Calls, EnforceDone(c) PROVE PaymentsTypeOK'
  <2> DEFINE b == call[c].booking
  <2>k. call[c].seen \in RefundAnswers
    BY <1>20 DEF EnforceDone, Knowledge, CallKnows, RefundShows
  <2>1. /\ b \in Bookings /\ call[c].seen \in Seen
        /\ row[b] \in Row /\ stripe[b] \in Stripe
    BY <1>20, BusyTyped DEF EnforceDone
  <2>2. call' \in [Calls -> CallState]
    BY <1>20, <1>a, <2>1, GotoTyped, ReturnTyped
    DEF EnforceDone, Steps, AuthSteps, CompleteSteps, CancelSteps, Stripe
  <2>3. row' \in [Bookings -> Row] /\ older' \subseteq Bookings \X Bookings
    BY <1>20, <2>1, <2>k, WriteTyped
    DEF EnforceDone, NoWrite, Row, Statuses, Balances, Deposits, Refunds, RefundAnswers, PaymentsTypeOK
  <2>5. QED
    BY <1>20, <2>2, <2>3 DEF EnforceDone, OnlyCalls, NoStripe, PaymentsTypeOK

<1>21. ASSUME NEW c \in Calls, EnforceFailed(c) PROVE PaymentsTypeOK'
  <2> DEFINE b == call[c].booking
  <2>1. /\ b \in Bookings /\ call[c].seen \in Seen
        /\ row[b] \in Row /\ stripe[b] \in Stripe
    BY <1>21, BusyTyped DEF EnforceFailed
  <2>2. call' \in [Calls -> CallState]
    BY <1>21, <1>a, <2>1, GotoTyped, ReturnTyped
    DEF EnforceFailed, Steps, AuthSteps, CompleteSteps, CancelSteps, Stripe
  <2>3. row' \in [Bookings -> Row] /\ older' \subseteq Bookings \X Bookings
    BY <1>21, <2>1, WriteTyped
    DEF EnforceFailed, NoWrite, Row, Statuses, Balances, Deposits, Refunds, PaymentsTypeOK
  <2>5. QED
    BY <1>21, <2>2, <2>3 DEF EnforceFailed, OnlyCalls, NoStripe, PaymentsTypeOK

<1>22. ASSUME NEW c \in Calls, EnforceRetain(c) PROVE PaymentsTypeOK'
  <2> DEFINE b == call[c].booking
  <2>1. /\ b \in Bookings /\ call[c].seen \in Seen
        /\ row[b] \in Row /\ stripe[b] \in Stripe
    BY <1>22, BusyTyped DEF EnforceRetain
  <2>2. call' \in [Calls -> CallState]
    BY <1>22, <1>a, <2>1, GotoTyped, ReturnTyped
    DEF EnforceRetain, Steps, AuthSteps, CompleteSteps, CancelSteps, Stripe
  <2>3. row' \in [Bookings -> Row] /\ older' \subseteq Bookings \X Bookings
    BY <1>22, <2>1, WriteTyped
    DEF EnforceRetain, NoWrite, Row, Statuses, Balances, Deposits, Refunds, PaymentsTypeOK
  <2>5. QED
    BY <1>22, <2>2, <2>3 DEF EnforceRetain, OnlyCalls, NoStripe, PaymentsTypeOK

<1>23. ASSUME NEW c \in Calls, CallFails(c) PROVE PaymentsTypeOK'
  <2> DEFINE b == call[c].booking
  <2>1. /\ b \in Bookings /\ call[c].seen \in Seen
        /\ row[b] \in Row /\ stripe[b] \in Stripe
    BY <1>23, BusyTyped, IdleIsIdle DEF CallFails
  <2>2. call' \in [Calls -> CallState]
    BY <1>23, <1>a, <2>1, GotoTyped, ReturnTyped
    DEF CallFails, Steps, AuthSteps, CompleteSteps, CancelSteps, Stripe
  <2>5. QED
    BY <1>23, <2>2, FaultTyped DEF CallFails, PaymentsTypeOK

<1>24. ASSUME NEW c \in Calls, NoAnswer(c) PROVE PaymentsTypeOK'
  <2> DEFINE b == call[c].booking
  <2>1. /\ b \in Bookings /\ call[c].seen \in Seen
        /\ row[b] \in Row /\ stripe[b] \in Stripe
    BY <1>24, BusyTyped DEF NoAnswer
  <2>2. call' \in [Calls -> CallState]
    BY <1>24, <1>a, <2>1, GotoTyped, ReturnTyped
    DEF NoAnswer, Steps, AuthSteps, CompleteSteps, CancelSteps, Stripe
  <2>5. QED
    BY <1>24, <2>2, FaultTyped DEF NoAnswer, PaymentsTypeOK

<1>25. ASSUME NEW b \in Bookings, Reopen(b) PROVE PaymentsTypeOK'
  <2>1. row' \in [Bookings -> Row] /\ older' \subseteq Bookings \X Bookings
    BY <1>25, WriteTyped DEF Reopen, Row, Statuses, PaymentsTypeOK
  <2>2. QED
    BY <1>25, <2>1 DEF Reopen, NoStripe, OnlyCalls, PaymentsTypeOK

<1>26. ASSUME NEW b \in Bookings, PatchCanceled(b) PROVE PaymentsTypeOK'
  <2>1. row' \in [Bookings -> Row] /\ older' \subseteq Bookings \X Bookings
    BY <1>26, WriteTyped DEF PatchCanceled, Row, Statuses, PaymentsTypeOK
  <2>2. QED
    BY <1>26, <2>1 DEF PatchCanceled, NoStripe, OnlyCalls, PaymentsTypeOK

<1>27. ASSUME NEW b \in Bookings, CustomerActs(b) PROVE PaymentsTypeOK'
  <2>1. stripe' \in [Bookings -> Stripe] /\ events' \subseteq Event
    BY <1>27, HoldTyped, RefundEventTyped
    DEF CustomerActs, PaymentsTypeOK, Stripe, Holds, StripeRefunds
  <2>2. QED
    BY <1>27, <2>1 DEF CustomerActs, OnlyStripe, PaymentsTypeOK

<1>28. ASSUME NEW b \in Bookings, HoldExpires(b) PROVE PaymentsTypeOK'
  <2>1. stripe' \in [Bookings -> Stripe] /\ events' \subseteq Event
    BY <1>28, HoldTyped, RefundEventTyped
    DEF HoldExpires, PaymentsTypeOK, Stripe, Holds, StripeRefunds
  <2>2. QED
    BY <1>28, <2>1 DEF HoldExpires, OnlyStripe, PaymentsTypeOK

<1>29. ASSUME NEW b \in Bookings, RefundSettles(b) PROVE PaymentsTypeOK'
  <2>1. stripe' \in [Bookings -> Stripe] /\ events' \subseteq Event
    BY <1>29, HoldTyped, RefundEventTyped
    DEF RefundSettles, PaymentsTypeOK, Stripe, Holds, StripeRefunds
  <2>2. QED
    BY <1>29, <2>1 DEF RefundSettles, OnlyStripe, PaymentsTypeOK

<1>30. ASSUME NEW b \in Bookings, Tick(b) PROVE PaymentsTypeOK'
  BY <1>30 DEF Tick, PaymentsTypeOK, Phases

<1>39. ASSUME NEW b \in Bookings, ConfirmHold(b) PROVE PaymentsTypeOK'
  <2>1. row' \in [Bookings -> Row] /\ older' \subseteq Bookings \X Bookings
    BY <1>39, WriteTyped DEF ConfirmHold, PaymentsTypeOK
  <2>2. QED
    BY <1>39, <2>1 DEF ConfirmHold, PaymentsTypeOK

<1>31. ASSUME NEW b \in Bookings, PassRead(b) PROVE PaymentsTypeOK'
  BY <1>31, <1>a
  DEF PassRead, AfterRefund, PassState, PassSteps, Snapshot, Row, PaymentsTypeOK

<1>32. ASSUME NEW e \in events, Receive(e) PROVE PaymentsTypeOK'
  <2>1. /\ e.booking \in Bookings /\ e.kind \in EventKinds
        /\ row[e.booking] \in Row
    BY DEF PaymentsTypeOK, Event
  <2>2. QED
    BY <1>32, <2>1, AppliedTyped, WriteTyped DEF Receive, PaymentsTypeOK

<1>33. ASSUME NEW e \in events, LoseEvent(e) PROVE PaymentsTypeOK'
  BY <1>33 DEF LoseEvent, PaymentsTypeOK

<1>34. ASSUME BeginPass PROVE PaymentsTypeOK'
  BY <1>34 DEF BeginPass, Oldest, Candidates, PaymentsTypeOK

<1>35. ASSUME PassLook PROVE PaymentsTypeOK'
  <2>1. /\ pass \in Passing /\ pass.booking \in Bookings /\ pass.seen \in Seen
        /\ pass.read \in Snapshot
        /\ row[pass.booking] \in Row /\ stripe[pass.booking] \in Stripe
    BY <1>35, PassTyped, IdleIsIdle DEF PassLook
  <2>3. pass' \in PassState
    BY <1>35, <1>a, <2>1 DEF PassLook, AfterRefund, Passing, PassState, PassSteps, Stripe
  <2>4. QED
    BY <1>35, <2>3 DEF PassLook, PaymentsTypeOK

<1>36. ASSUME PassRefund PROVE PaymentsTypeOK'
  <2>1. /\ pass \in Passing /\ pass.booking \in Bookings /\ pass.seen \in Seen
        /\ pass.read \in Snapshot
        /\ row[pass.booking] \in Row /\ stripe[pass.booking] \in Stripe
    BY <1>36, PassTyped, IdleIsIdle DEF PassRefund
  <2>k. pass.seen \in Refunds
    BY <1>36 DEF PassRefund, Knowledge, PassKnows, RefundShows, RefundAnswers, Refunds
  <2>2. row' \in [Bookings -> Row] /\ older' \subseteq Bookings \X Bookings
    BY <1>36, <2>1, <2>k, WriteTyped
    DEF PassRefund, NoWrite, PaymentsTypeOK, Row, Telling, Reconciled, Balances, Deposits
  <2>3. pass' \in PassState
    BY <1>36, <1>a, <2>1 DEF PassRefund, AfterRefund, Passing, PassState, PassSteps, Stripe
  <2>4. QED
    BY <1>36, <2>2, <2>3 DEF PassRefund, PaymentsTypeOK

<1>37. ASSUME PassBalance PROVE PaymentsTypeOK'
  <2>1. /\ pass \in Passing /\ pass.booking \in Bookings /\ pass.seen \in Seen
        /\ pass.read \in Snapshot
        /\ row[pass.booking] \in Row /\ stripe[pass.booking] \in Stripe
    BY <1>37, PassTyped, IdleIsIdle DEF PassBalance
  <2>2. row' \in [Bookings -> Row] /\ older' \subseteq Bookings \X Bookings
    BY <1>37, <2>1, WriteTyped
    DEF PassBalance, NoWrite, PaymentsTypeOK, Row, Telling, Reconciled, Balances, Deposits
  <2>3. pass' \in PassState
    BY <1>37, <1>a, <2>1 DEF PassBalance, AfterRefund, Passing, PassState, PassSteps, Stripe
  <2>4. QED
    BY <1>37, <2>2, <2>3 DEF PassBalance, PaymentsTypeOK

<1>38. ASSUME PassFails PROVE PaymentsTypeOK'
  <2>1. /\ pass \in Passing /\ pass.booking \in Bookings /\ pass.seen \in Seen
        /\ pass.read \in Snapshot
        /\ row[pass.booking] \in Row /\ stripe[pass.booking] \in Stripe
    BY <1>38, PassTyped, IdleIsIdle DEF PassFails
  <2>3. pass' \in PassState
    BY <1>38, <1>a, <2>1 DEF PassFails, AfterRefund, Passing, PassState, PassSteps, Stripe
  <2>4. QED
    BY <1>38, <2>3, FaultTyped DEF PassFails, PaymentsTypeOK

<1> QED
  BY <1>1, <1>2, <1>3, <1>4, <1>5, <1>6, <1>7, <1>8, <1>9, <1>10, <1>11, <1>12, <1>13, <1>14, <1>15, <1>16, <1>17, <1>18, <1>19, <1>20, <1>21, <1>22, <1>23, <1>24, <1>25, <1>26, <1>27, <1>28, <1>29, <1>30, <1>31, <1>32, <1>33, <1>34, <1>35, <1>36, <1>37, <1>38, <1>39
  DEF Next, Calls, Authorize, Capture, Cancelation, Reconcile

-----------------------------------------------------------------------------
(* What each kind of step can touch *)

StripeStep ==
  \/ \E c \in Calls : AuthCreate(c) \/ CaptureCall(c) \/ EnforceCall(c)
  \/ \E b \in Bookings : CustomerActs(b) \/ HoldExpires(b) \/ RefundSettles(b)

PassStep == (\E b \in Bookings : PassRead(b)) \/ PassLook \/ PassRefund \/ PassBalance \/ PassFails

CallWrites(c) ==
  \/ AuthWrite(c) \/ AuthNoCard(c) \/ AuthRecord(c)
  \/ Complete(c) \/ CaptureRead(c) \/ CaptureMark(c) \/ CaptureFail(c)
  \/ Cancel(c) \/ EnforcePending(c) \/ EnforceDone(c) \/ EnforceFailed(c) \/ EnforceRetain(c)

OtherWrites ==
  \/ \E b \in Bookings : Reopen(b) \/ PatchCanceled(b) \/ ConfirmHold(b)
  \/ \E e \in events : Receive(e)
  \/ PassRefund \/ PassBalance

CallStep(c) ==
  \/ \E b \in Bookings : BeginAuthorize(c, b) \/ BeginComplete(c, b) \/ BeginCancel(c, b)
  \/ Authorize(c) \/ Capture(c) \/ Cancelation(c) \/ CallFails(c) \/ NoAnswer(c)

(* Stripe changes in the steps that are at Stripe, and only there an event   *)
(* is sent.                                                                  *)
LEMMA StripeFrame ==
  ASSUME Next
  PROVE  StripeStep \/ (stripe' = stripe /\ events' \subseteq events)
<1>1. ASSUME NEW c \in Calls, NEW b \in Bookings,
             BeginAuthorize(c, b) \/ BeginComplete(c, b) \/ BeginCancel(c, b)
      PROVE  stripe' = stripe /\ events' \subseteq events
  BY <1>1 DEF BeginAuthorize, BeginComplete, BeginCancel, NoStripe
<1>2. ASSUME NEW c \in Calls, Authorize(c), ~AuthCreate(c)
      PROVE  stripe' = stripe /\ events' \subseteq events
  BY <1>2 DEF Authorize, AuthSync, AuthWrite, AuthNoCard, AuthRecord, NoStripe
<1>3. ASSUME NEW c \in Calls, Capture(c), ~CaptureCall(c)
      PROVE  stripe' = stripe /\ events' \subseteq events
  BY <1>3 DEF Capture, Complete, CaptureRead, CaptureLook, CaptureCheck, CaptureMark,
              CaptureFail, NoStripe
<1>4. ASSUME NEW c \in Calls, Cancelation(c), ~EnforceCall(c)
      PROVE  stripe' = stripe /\ events' \subseteq events
  BY <1>4 DEF Cancelation, Cancel, Enforce, EnforcePending, EnforceDone, EnforceFailed,
              EnforceRetain, NoStripe
<1>5. ASSUME NEW c \in Calls, CallFails(c) \/ NoAnswer(c)
      PROVE  stripe' = stripe /\ events' \subseteq events
  BY <1>5 DEF CallFails, NoAnswer
<1>6. ASSUME NEW b \in Bookings, Reopen(b) \/ PatchCanceled(b) \/ ConfirmHold(b) \/ Tick(b)
      PROVE  stripe' = stripe /\ events' \subseteq events
  BY <1>6 DEF Reopen, PatchCanceled, ConfirmHold, Tick, NoStripe
<1>7. ASSUME NEW e \in events, Receive(e) \/ LoseEvent(e)
      PROVE  stripe' = stripe /\ events' \subseteq events
  BY <1>7 DEF Receive, LoseEvent
<1>8. ASSUME Reconcile \/ PassFails
      PROVE  stripe' = stripe /\ events' \subseteq events
  BY <1>8 DEF Reconcile, PassFails, BeginPass, PassRead, PassLook, PassRefund, PassBalance
<1>9. QED
  BY <1>1, <1>2, <1>3, <1>4, <1>5, <1>6, <1>7, <1>8
  DEF Next, StripeStep, Authorize, Capture, Cancelation

(* A row changes in the writes of a call, of a webhook, of the pass, or of   *)
(* another operation.                                                        *)
LEMMA RowFrame ==
  ASSUME Next
  PROVE  (\E c \in Calls : CallWrites(c)) \/ OtherWrites \/ row' = row
<1>1. ASSUME NEW c \in Calls, NEW b \in Bookings,
             BeginAuthorize(c, b) \/ BeginComplete(c, b) \/ BeginCancel(c, b)
      PROVE  row' = row
  BY <1>1 DEF BeginAuthorize, BeginComplete, BeginCancel, NoWrite
<1>2. ASSUME NEW c \in Calls, AuthSync(c) \/ AuthCreate(c) PROVE row' = row
  BY <1>2 DEF AuthSync, AuthCreate, NoWrite
<1>3. ASSUME NEW c \in Calls, CaptureLook(c) \/ CaptureCall(c) \/ CaptureCheck(c)
      PROVE  row' = row
  BY <1>3 DEF CaptureLook, CaptureCall, CaptureCheck, NoWrite
<1>4. ASSUME NEW c \in Calls, Enforce(c) \/ EnforceCall(c) PROVE row' = row
  BY <1>4 DEF Enforce, EnforceCall, NoWrite
<1>5. ASSUME NEW c \in Calls, CallFails(c) \/ NoAnswer(c) PROVE row' = row
  BY <1>5 DEF CallFails, NoAnswer
<1>6. ASSUME NEW b \in Bookings, CustomerActs(b) \/ HoldExpires(b) \/ RefundSettles(b) \/ Tick(b)
      PROVE  row' = row
  BY <1>6 DEF CustomerActs, HoldExpires, RefundSettles, Tick, OnlyStripe
<1>7. ASSUME NEW e \in events, LoseEvent(e) PROVE row' = row
  BY <1>7 DEF LoseEvent
<1>8. ASSUME BeginPass \/ (\E b \in Bookings : PassRead(b)) \/ PassLook \/ PassFails
      PROVE  row' = row
  BY <1>8 DEF BeginPass, PassRead, PassLook, PassFails
<1>9. QED
  BY <1>1, <1>2, <1>3, <1>4, <1>5, <1>6, <1>7, <1>8
  DEF Next, Authorize, Capture, Cancelation, Reconcile, CallWrites, OtherWrites

(* The pass moves in its own steps only. *)
LEMMA PassFrame ==
  ASSUME Next
  PROVE  PassStep \/ pass' = pass
<1>1. ASSUME NEW c \in Calls, NEW b \in Bookings,
             BeginAuthorize(c, b) \/ BeginComplete(c, b) \/ BeginCancel(c, b)
      PROVE  pass' = pass
  BY <1>1 DEF BeginAuthorize, BeginComplete, BeginCancel, OnlyCalls
<1>2. ASSUME NEW c \in Calls, Authorize(c) PROVE pass' = pass
  BY <1>2 DEF Authorize, AuthSync, AuthWrite, AuthNoCard, AuthCreate, AuthRecord, OnlyCalls
<1>3. ASSUME NEW c \in Calls, Capture(c) PROVE pass' = pass
  BY <1>3 DEF Capture, Complete, CaptureRead, CaptureLook, CaptureCall, CaptureCheck,
              CaptureMark, CaptureFail, OnlyCalls
<1>4. ASSUME NEW c \in Calls, Cancelation(c) PROVE pass' = pass
  BY <1>4 DEF Cancelation, Cancel, Enforce, EnforcePending, EnforceCall, EnforceDone,
              EnforceFailed, EnforceRetain, OnlyCalls
<1>5. ASSUME NEW c \in Calls, CallFails(c) \/ NoAnswer(c) PROVE pass' = pass
  BY <1>5 DEF CallFails, NoAnswer
<1>6. ASSUME NEW b \in Bookings,
             \/ Reopen(b) \/ PatchCanceled(b) \/ ConfirmHold(b) \/ CustomerActs(b) \/ HoldExpires(b)
             \/ RefundSettles(b) \/ Tick(b)
      PROVE  pass' = pass
  BY <1>6 DEF Reopen, PatchCanceled, ConfirmHold, CustomerActs, HoldExpires, RefundSettles, Tick,
              OnlyCalls, OnlyStripe
<1>7. ASSUME NEW e \in events, Receive(e) \/ LoseEvent(e) PROVE pass' = pass
  BY <1>7 DEF Receive, LoseEvent
<1>8. ASSUME BeginPass PROVE pass' = pass
  BY <1>8 DEF BeginPass
<1>9. QED
  BY <1>1, <1>2, <1>3, <1>4, <1>5, <1>6, <1>7, <1>8 DEF Next, Reconcile, PassStep

(* A step of a call leaves the other calls where they are. *)
LEMMA CallFrame ==
  ASSUME Next, PaymentsTypeOK
  PROVE  \/ call' = call
         \/ \E c \in Calls : CallStep(c) /\ \A d \in Calls \ {c} : call'[d] = call[d]
<1>1. ASSUME NEW c \in Calls, CallStep(c)
      PROVE  \A d \in Calls \ {c} : call'[d] = call[d]
  <2>1. SUFFICES \E q : call' = [call EXCEPT ![c] = q]
    BY DEF PaymentsTypeOK
  <2>2. CASE \E b \in Bookings : BeginAuthorize(c, b) \/ BeginComplete(c, b) \/ BeginCancel(c, b)
    BY <2>2 DEF BeginAuthorize, BeginComplete, BeginCancel, Goto
  <2>3. CASE Authorize(c)
    BY <2>3 DEF Authorize, AuthSync, AuthWrite, AuthNoCard, AuthCreate, AuthRecord, Goto, Return
  <2>4. CASE Capture(c)
    BY <2>4 DEF Capture, Complete, Transition, CaptureRead, CaptureLook, CaptureCall,
                CaptureCheck, CaptureMark, CaptureFail, Goto, Return
  <2>5. CASE Cancelation(c)
    BY <2>5 DEF Cancelation, Cancel, Transition, Enforce, EnforcePending, EnforceCall,
                EnforceDone, EnforceFailed, EnforceRetain, Goto, Return
  <2>6. CASE CallFails(c) \/ NoAnswer(c)
    BY <2>6 DEF CallFails, NoAnswer, Goto, Return
  <2>7. QED
    BY <1>1, <2>2, <2>3, <2>4, <2>5, <2>6 DEF CallStep
<1>2. ASSUME NEW b \in Bookings,
             \/ Reopen(b) \/ PatchCanceled(b) \/ ConfirmHold(b) \/ CustomerActs(b) \/ HoldExpires(b)
             \/ RefundSettles(b) \/ Tick(b)
      PROVE  call' = call
  BY <1>2 DEF Reopen, PatchCanceled, ConfirmHold, CustomerActs, HoldExpires, RefundSettles, Tick,
              OnlyStripe
<1>3. ASSUME NEW e \in events, Receive(e) \/ LoseEvent(e) PROVE call' = call
  BY <1>3 DEF Receive, LoseEvent
<1>4. ASSUME Reconcile \/ PassFails PROVE call' = call
  BY <1>4 DEF Reconcile, PassFails, BeginPass, PassRead, PassLook, PassRefund, PassBalance
<1>5. QED
  BY <1>1, <1>2, <1>3, <1>4 DEF Next, CallStep

-----------------------------------------------------------------------------
(* What is known of Stripe stays true *)

(* Stripe ends a payment once, and makes a refund that succeeds once. *)
Onward ==
  \A b \in Bookings :
    /\ stripe[b].hold \in Ended => stripe'[b].hold = stripe[b].hold
    /\ stripe[b].refund # "none" => stripe'[b].refund # "none"
    /\ stripe[b].refund = "succeeded" => stripe'[b].refund = "succeeded"

(* So it does in every step. *)
LEMMA StripeMoves ==
  ASSUME PaymentsTypeOK, AnswersAreFirst, Next
  PROVE  Onward /\ AnswersAreFirst'
<1> USE DEF Onward, AnswersAreFirst, Ended
<1>1. CASE stripe' = stripe
  BY <1>1
<1>2. ASSUME NEW c \in Calls, AuthCreate(c) PROVE Onward /\ AnswersAreFirst'
  <2>1. call[c].booking \in Bookings
    BY <1>2, BusyTyped DEF AuthCreate
  <2>2. QED
    BY <1>1, <1>2, <2>1 DEF AuthCreate, NoStripe, PaymentsTypeOK, Stripe
<1>3. ASSUME NEW c \in Calls, CaptureCall(c) PROVE Onward /\ AnswersAreFirst'
  <2>1. call[c].booking \in Bookings
    BY <1>3, BusyTyped DEF CaptureCall
  <2>2. QED
    BY <1>1, <1>3, <2>1 DEF CaptureCall, Hold, NoStripe, PaymentsTypeOK, Stripe
<1>4. ASSUME NEW c \in Calls, EnforceCall(c) PROVE Onward /\ AnswersAreFirst'
  <2>1. call[c].booking \in Bookings
    BY <1>4, BusyTyped DEF EnforceCall
  <2>2. QED
    BY <1>1, <1>4, <2>1 DEF EnforceCall, NoStripe, PaymentsTypeOK, Stripe
<1>5. ASSUME NEW b \in Bookings, CustomerActs(b) PROVE Onward /\ AnswersAreFirst'
  BY <1>5 DEF CustomerActs, Hold, PaymentsTypeOK, Stripe
<1>6. ASSUME NEW b \in Bookings, HoldExpires(b) PROVE Onward /\ AnswersAreFirst'
  BY <1>6 DEF HoldExpires, Hold, PaymentsTypeOK, Stripe
<1>7. ASSUME NEW b \in Bookings, RefundSettles(b) PROVE Onward /\ AnswersAreFirst'
  BY <1>7 DEF RefundSettles, PaymentsTypeOK, Stripe
<1>8. QED
  BY <1>1, <1>2, <1>3, <1>4, <1>5, <1>6, <1>7, StripeFrame DEF StripeStep

(* What a refund has shown it has shown. *)
LEMMA ShownStays ==
  ASSUME Onward, NEW b \in Bookings, NEW r, RefundShows(b, r)
  PROVE  RefundShows(b, r)'
  BY DEF Onward, RefundShows

(* What a call says stays true until the call moves on. *)
LEMMA CallKnowsStill ==
  ASSUME Onward, NEW q \in CallState, CallKnows(q)
  PROVE  CallKnows(q)'
<1>1. CASE q = Idle
  BY <1>1 DEF CallKnows, Idle
<1>2. CASE q # Idle
  <2>1. q.booking \in Bookings
    BY <1>2 DEF CallState
  <2>2. QED
    BY <2>1, ShownStays DEF CallKnows, Onward, Ended
<1>3. QED BY <1>1, <1>2

(* So does what an event says ... *)
LEMMA EventKnowsStill ==
  ASSUME Onward, NEW e \in Event, EventKnows(e)
  PROVE  EventKnows(e)'
<1>1. e.booking \in Bookings
  BY DEF Event
<1>2. QED
  BY <1>1, ShownStays DEF EventKnows, Onward, Ended

(* ... and what a row says. *)
LEMMA RowFitsStill ==
  ASSUME Onward, NEW b \in Bookings, NEW r, RowFits(b, r)
  PROVE  RowFits(b, r)'
  BY DEF RowFits, Onward, Ended, Settled

(* A call learns of Stripe what is so when it learns it. *)
LEMMA CallsKnow ==
  ASSUME PaymentsTypeOK, PaymentsTypeOK', Knowledge, Onward, Next
  PROVE  \A c \in Calls : CallKnows(call[c])'
<1> SUFFICES ASSUME NEW c \in Calls PROVE CallKnows(call[c])'
  OBVIOUS
<1>1. CASE call'[c] = call[c]
  BY <1>1, CallKnowsStill DEF PaymentsTypeOK, Knowledge
<1>2. CASE call'[c].at \notin {"auth_write", "capture_mark", "refund_done"}
  BY <1>2 DEF CallKnows
<1>3. ASSUME CallStep(c) PROVE CallKnows(call[c])'
  <2> DEFINE b == call[c].booking
  <2>1. ASSUME AuthSync(c) PROVE CallKnows(call[c])'
    <3>1. call'[c] = At("auth_write", b, stripe[b].hold) /\ stripe' = stripe
      BY <2>1 DEF AuthSync, Goto, NoStripe, PaymentsTypeOK
    <3>2. QED BY <3>1 DEF CallKnows, At
  <2>2. ASSUME CaptureLook(c) PROVE CallKnows(call[c])'
    <3>1. call'[c] = At(CaptureStep(stripe[b].hold), b, "none") /\ stripe' = stripe
      BY <2>2 DEF CaptureLook, Goto, NoStripe, PaymentsTypeOK
    <3>2. QED BY <3>1 DEF CallKnows, At, CaptureStep
  <2>3. ASSUME CaptureCheck(c) PROVE CallKnows(call[c])'
    <3>1. /\ stripe' = stripe
          /\ \/ call'[c] = At("capture_mark", b, "none") /\ stripe[b].hold = "succeeded"
             \/ call'[c] = Idle
      BY <2>3 DEF CaptureCheck, Goto, Return, NoStripe, PaymentsTypeOK
    <3>2. QED BY <3>1 DEF CallKnows, At, Idle
  <2>4. ASSUME EnforceCall(c) PROVE CallKnows(call[c])'
    <3>1. b \in Bookings
      BY <2>4, BusyTyped DEF EnforceCall
    <3>2. PICK a \in StripeRefunds \ {"none"} :
            /\ call'[c] = At("refund_done", b, a)
            /\ \/ stripe[b].refundAnswer = "none" /\ stripe'[b].refund = a
               \/ stripe[b].refundAnswer = a /\ stripe' = stripe
      BY <2>4, <3>1 DEF EnforceCall, Goto, NoStripe, PaymentsTypeOK, Stripe
    <3>3. a \in RefundAnswers
      BY <3>2 DEF RefundAnswers, StripeRefunds
    <3>4. stripe'[b].refund # "none" /\ (a = "succeeded" => stripe'[b].refund = "succeeded")
      BY <3>1, <3>2, <3>3 DEF RefundAnswers, Knowledge, AnswersAreFirst
    <3>5. QED BY <3>2, <3>3, <3>4 DEF CallKnows, At, RefundShows
  <2>5. CASE \/ \E d \in Bookings : BeginAuthorize(c, d) \/ BeginComplete(c, d) \/ BeginCancel(c, d)
             \/ CallFails(c) \/ NoAnswer(c)
    <3>1. call'[c].at \notin {"auth_write", "capture_mark", "refund_done"}
      BY <2>5 DEF BeginAuthorize, BeginComplete, BeginCancel, CallFails, NoAnswer, Goto, Return,
                  At, Idle, PaymentsTypeOK
    <3>2. QED BY <3>1, <1>2
  <2>6. CASE AuthWrite(c) \/ AuthNoCard(c) \/ AuthCreate(c) \/ AuthRecord(c)
    <3>1. call'[c].at \notin {"auth_write", "capture_mark", "refund_done"}
      <4> USE DEF Goto, Return, At, Idle, PaymentsTypeOK
      <4>1. CASE AuthWrite(c) BY <4>1 DEF AuthWrite
      <4>2. CASE AuthCreate(c) BY <4>2 DEF AuthCreate
      <4>3. QED BY <2>6, <4>1, <4>2 DEF AuthNoCard, AuthRecord
    <3>2. QED BY <3>1, <1>2
  <2>7. CASE Complete(c) \/ CaptureRead(c) \/ CaptureCall(c) \/ CaptureMark(c) \/ CaptureFail(c)
    <3>1. call'[c].at \notin {"auth_write", "capture_mark", "refund_done"}
      BY <2>7 DEF Complete, Transition, CaptureRead, CaptureCall, CaptureMark, CaptureFail, Goto,
                  Return, At, Idle, PaymentsTypeOK
    <3>2. QED BY <3>1, <1>2
  <2>8. CASE \/ Cancel(c) \/ Enforce(c) \/ EnforcePending(c) \/ EnforceDone(c)
             \/ EnforceFailed(c) \/ EnforceRetain(c)
    <3>1. call'[c].at \notin {"auth_write", "capture_mark", "refund_done"}
      BY <2>8 DEF Cancel, Transition, Enforce, EnforcePending, EnforceDone, EnforceFailed,
                  EnforceRetain, Goto, Return, At, Idle, PaymentsTypeOK
    <3>2. QED BY <3>1, <1>2
  <2>9. QED
    BY <1>3, <2>1, <2>2, <2>3, <2>4, <2>5, <2>6, <2>7, <2>8
    DEF CallStep, Authorize, Capture, Cancelation
<1>4. QED
  BY <1>1, <1>3, CallFrame

(* Events tell what is so when they are sent. *)
LEMMA EventsKnow ==
  ASSUME PaymentsTypeOK, PaymentsTypeOK', Knowledge, Onward, Next
  PROVE  \A e \in events' : EventKnows(e)'
<1> DEFINE Told(x) == \A e \in x : EventKnows(e)'
<1>1. Told(events)
  BY EventKnowsStill DEF PaymentsTypeOK, Knowledge
<1>2. ASSUME NEW b \in Bookings, NEW h \in Holds, stripe'[b].hold = h
      PROVE  Told(HoldEvents(b, h))
  BY <1>2 DEF HoldEvents, EventKnows
<1>3. ASSUME NEW b \in Bookings, NEW r \in RefundAnswers, stripe'[b].refund = r
      PROVE  EventKnows(RefundEvent(b, r))'
  BY <1>3 DEF RefundEvent, EventKnows, RefundShows, RefundAnswers
<1>4. ASSUME NEW c \in Calls, AuthCreate(c) PROVE Told(events')
  <2>1. call[c].booking \in Bookings
    BY <1>4, BusyTyped DEF AuthCreate
  <2>2. \/ events' = events
        \/ \E h \in Holds : /\ stripe'[call[c].booking].hold = h
                            /\ events' = events \cup HoldEvents(call[c].booking, h)
    BY <1>4, <2>1 DEF AuthCreate, NoStripe, PaymentsTypeOK, Stripe, Answers, Holds
  <2>3. QED BY <1>1, <1>2, <2>1, <2>2
<1>5. ASSUME NEW c \in Calls, CaptureCall(c) PROVE Told(events')
  <2>1. call[c].booking \in Bookings
    BY <1>5, BusyTyped DEF CaptureCall
  <2>2. \/ events' = events
        \/ \E h \in Holds : /\ stripe'[call[c].booking].hold = h
                            /\ events' = events \cup HoldEvents(call[c].booking, h)
    BY <1>5, <2>1 DEF CaptureCall, Hold, NoStripe, PaymentsTypeOK, Stripe, Holds
  <2>3. QED BY <1>1, <1>2, <2>1, <2>2
<1>6. ASSUME NEW c \in Calls, EnforceCall(c) PROVE Told(events')
  <2>1. call[c].booking \in Bookings
    BY <1>6, BusyTyped DEF EnforceCall
  <2>2. \/ events' = events
        \/ \E r \in RefundAnswers : /\ stripe'[call[c].booking].refund = r
                                    /\ events' = events \cup {RefundEvent(call[c].booking, r)}
    BY <1>6, <2>1 DEF EnforceCall, NoStripe, PaymentsTypeOK, Stripe, StripeRefunds, RefundAnswers
  <2>3. QED BY <1>1, <1>3, <2>1, <2>2
<1>7. ASSUME NEW b \in Bookings, CustomerActs(b) \/ HoldExpires(b) PROVE Told(events')
  <2>1. \E h \in Holds : stripe'[b].hold = h /\ events' = events \cup HoldEvents(b, h)
    BY <1>7 DEF CustomerActs, HoldExpires, Hold, PaymentsTypeOK, Stripe, Holds
  <2>2. QED BY <1>1, <1>2, <2>1
<1>8. ASSUME NEW b \in Bookings, RefundSettles(b) PROVE Told(events')
  <2>1. \E r \in RefundAnswers : /\ stripe'[b].refund = r
                                 /\ events' = events \cup {RefundEvent(b, r)}
    BY <1>8 DEF RefundSettles, PaymentsTypeOK, Stripe, RefundAnswers
  <2>2. QED BY <1>1, <1>3, <2>1
<1>9. QED
  BY <1>1, <1>4, <1>5, <1>6, <1>7, <1>8, StripeFrame DEF StripeStep

(* So does the pass; a row that has a refund's id has a refund at Stripe. *)
LEMMA PassKnowsNext ==
  ASSUME PaymentsTypeOK, Knowledge, Onward, Next
  PROVE  PassKnows'
<1> USE DEF PassKnows
<1>1. CASE pass' = pass
  <2>1. pass.at # "idle" => pass.booking \in Bookings
    BY PassTyped
  <2>2. QED BY <1>1, <2>1, ShownStays DEF Knowledge, Onward, Ended
<1>2. ASSUME NEW b \in Bookings, PassRead(b) PROVE PassKnows'
  BY <1>2 DEF PassRead, AfterRefund, PassIdle, RefundIsOpen, Knowledge, RowFits
<1>3. ASSUME PassLook PROVE PassKnows'
  <2>1. /\ pass \in Passing /\ pass.booking \in Bookings /\ stripe[pass.booking] \in Stripe
    BY <1>3, PassTyped DEF PassLook
  <2>2. QED
    BY <1>3, <2>1 DEF PassLook, Passing, Knowledge, RefundShows, RefundAnswers, Stripe,
                      StripeRefunds
<1>4. ASSUME PassRefund \/ PassBalance \/ PassFails PROVE PassKnows'
  BY <1>4 DEF PassRefund, PassBalance, PassFails, AfterRefund, PassIdle
<1>5. QED
  BY <1>1, <1>2, <1>3, <1>4, PassFrame DEF PassStep

(* A write of what is so. *)
LEMMA WriteFits ==
  ASSUME PaymentsTypeOK, Knowledge, Onward, NEW b \in Bookings, NEW r, Write(b, r),
         RowFits(b, r)
  PROVE  \A a \in Bookings : RowFits(a, row[a])'
<1> SUFFICES ASSUME NEW a \in Bookings PROVE RowFits(a, row[a])'
  OBVIOUS
<1>1. row'[a] = IF a = b THEN r ELSE row[a]
  BY DEF Write, PaymentsTypeOK
<1>2. RowFits(a, row'[a])
  BY <1>1 DEF Knowledge
<1>3. QED
  BY <1>2, RowFitsStill

(* Every write of a row is one of what is so. *)
LEMMA RowsFitNext ==
  ASSUME PaymentsTypeOK, Knowledge, Onward, Next
  PROVE  \A a \in Bookings : RowFits(a, row[a])'
<1> DEFINE Fits == \A a \in Bookings : RowFits(a, row[a])'
<1> USE DEF RowFits, Settled, Row
<1>1. CASE row' = row
  BY <1>1, RowFitsStill DEF Knowledge
<1>2. ASSUME NEW c \in Calls, CallWrites(c) PROVE Fits
  <2> DEFINE b == call[c].booking
  <2>1. /\ b \in Bookings /\ row[b] \in Row /\ RowFits(b, row[b]) /\ CallKnows(call[c])
    BY <1>2, BusyTyped
    DEF CallWrites, AuthWrite, AuthNoCard, AuthRecord, Complete, CaptureRead, CaptureMark,
        CaptureFail, Cancel, EnforcePending, EnforceDone, EnforceFailed, EnforceRetain, Knowledge
  <2>2. CASE AuthWrite(c)
    BY <1>1, <2>1, <2>2, WriteFits DEF AuthWrite, NoWrite, CallKnows, Ended
  <2>3. CASE AuthNoCard(c)
    BY <2>1, <2>3, WriteFits DEF AuthNoCard
  <2>4. CASE AuthRecord(c)
    BY <2>1, <2>4, WriteFits DEF AuthRecord, Recorded
  <2>5. CASE Complete(c)
    BY <1>1, <2>1, <2>5, WriteFits DEF Complete, Transition, NoWrite
  <2>6. CASE CaptureRead(c)
    BY <1>1, <2>1, <2>6, WriteFits DEF CaptureRead, NoWrite
  <2>7. CASE CaptureMark(c)
    BY <2>1, <2>7, WriteFits DEF CaptureMark, CallKnows
  <2>8. CASE CaptureFail(c)
    BY <2>1, <2>8, WriteFits DEF CaptureFail
  <2>9. CASE Cancel(c)
    BY <1>1, <2>1, <2>9, WriteFits DEF Cancel, Transition, NoWrite
  <2>10. CASE EnforcePending(c)
    BY <2>1, <2>10, WriteFits DEF EnforcePending
  <2>11. CASE EnforceDone(c)
    <3>1. RefundShows(b, call[c].seen)
      BY <2>1, <2>11 DEF EnforceDone, CallKnows
    <3>2. QED
      BY <2>1, <2>11, <3>1, WriteFits DEF EnforceDone, RefundShows, RefundAnswers
  <2>12. CASE EnforceFailed(c)
    BY <2>1, <2>12, WriteFits DEF EnforceFailed
  <2>13. CASE EnforceRetain(c)
    BY <2>1, <2>13, WriteFits DEF EnforceRetain
  <2>14. QED
    BY <1>2, <2>2, <2>3, <2>4, <2>5, <2>6, <2>7, <2>8, <2>9, <2>10, <2>11, <2>12, <2>13
    DEF CallWrites
<1>3. ASSUME NEW b \in Bookings, Reopen(b) \/ PatchCanceled(b) \/ ConfirmHold(b) PROVE Fits
  <2>1. row[b] \in Row /\ RowFits(b, row[b])
    BY DEF PaymentsTypeOK, Knowledge
  <2>2. QED BY <1>3, <2>1, WriteFits DEF Reopen, PatchCanceled, ConfirmHold
<1>4. ASSUME NEW e \in events, Receive(e) PROVE Fits
  <2>1. /\ e.booking \in Bookings /\ e.kind \in EventKinds /\ EventKnows(e)
        /\ row[e.booking] \in Row /\ RowFits(e.booking, row[e.booking])
    BY DEF PaymentsTypeOK, Event, Knowledge
  <2>2. RowFits(e.booking, Applied(row[e.booking], e.kind))
    <3> DEFINE r == row[e.booking]
    <3> USE DEF EventKnows, RefundShows
    <3>1. CASE e.kind = "deposit_succeeded" BY <2>1, <3>1 DEF Applied, DepositSucceeded
    <3>2. CASE e.kind = "capturable" BY <2>1, <3>2 DEF Applied, HoldCapturable
    <3>3. CASE e.kind = "hold_succeeded" BY <2>1, <3>3 DEF Applied, HoldSucceeded
    <3>4. CASE e.kind = "hold_failed" BY <2>1, <3>4 DEF Applied, HoldFailed
    <3>5. CASE e.kind = "refund_pending" BY <2>1, <3>5 DEF Applied, RefundUpdated
    <3>6. CASE e.kind = "refund_succeeded" BY <2>1, <3>6 DEF Applied, RefundUpdated
    <3>7. CASE e.kind = "refund_failed" BY <2>1, <3>7 DEF Applied, RefundUpdated
    <3>8. QED
      BY <2>1, <3>1, <3>2, <3>3, <3>4, <3>5, <3>6, <3>7 DEF EventKinds
  <2>3. QED BY <1>4, <2>1, <2>2, WriteFits DEF Receive
<1>5. CASE PassRefund
  <2>1. /\ pass.booking \in Bookings /\ row[pass.booking] \in Row
        /\ RowFits(pass.booking, row[pass.booking])
        /\ RefundShows(pass.booking, pass.seen)
    BY <1>5, PassTyped DEF PassRefund, Knowledge, PassKnows
  <2>2. QED BY <1>5, <2>1, WriteFits DEF PassRefund, RefundShows, RefundAnswers
<1>6. CASE PassBalance
  <2>1. /\ pass.booking \in Bookings /\ row[pass.booking] \in Row
        /\ RowFits(pass.booking, row[pass.booking])
        /\ pass.seen = "succeeded" => stripe[pass.booking].hold = "succeeded"
    BY <1>6, PassTyped DEF PassBalance, Knowledge, PassKnows
  <2>2. QED BY <1>1, <1>6, <2>1, WriteFits DEF PassBalance, NoWrite, Telling, Reconciled
<1>7. QED
  BY <1>1, <1>2, <1>3, <1>4, <1>5, <1>6, RowFrame DEF OtherWrites

(* What is said of Stripe is so after every step. *)
LEMMA KnowledgeStep ==
  ASSUME PaymentsTypeOK, PaymentsTypeOK', Knowledge, Next
  PROVE  Knowledge'
<1>1. Onward /\ AnswersAreFirst'
  BY StripeMoves DEF Knowledge
<1>2. QED
  BY <1>1, CallsKnow, EventsKnow, PassKnowsNext, RowsFitNext DEF Knowledge

-----------------------------------------------------------------------------
(* Cancelations *)

(* A step that keeps cancelations settled: a booking it cancels has a call   *)
(* that sees to it, what is settled stays settled, and a call that sees to   *)
(* something goes on until it is settled.                                    *)
KeepsSettled ==
  /\ \A b \in Bookings : row'[b].canceledAt =>
       \/ row[b].canceledAt /\ (Settled(row[b]) => Settled(row'[b]))
       \/ \E c \in Calls : call'[c].at \in CancelSteps /\ call'[c].booking = b
  /\ \A c \in Calls : call[c].at \in CancelSteps =>
       \/ call'[c].at \in CancelSteps /\ call'[c].booking = call[c].booking
       \/ Settled(row'[call[c].booking])
       \/ ~row'[call[c].booking].canceledAt
       \/ phase[call[c].booking] = "unscheduled"

(* Only the writes of a cancelation make or unmake what settles it. *)
LEMMA WriteKeepsSettled ==
  ASSUME PaymentsTypeOK, NEW b \in Bookings, NEW r, Write(b, r),
         r.canceledAt => row[b].canceledAt,
         Settled(row[b]) => Settled(r)
  PROVE  \A a \in Bookings : row'[a].canceledAt =>
           row[a].canceledAt /\ (Settled(row[a]) => Settled(row'[a]))
  BY DEF Write, PaymentsTypeOK

(* Every step does, unless it is a failure. *)
LEMMA StepKeepsSettled ==
  ASSUME PaymentsTypeOK, Knowledge, Next, faults' = 0
  PROVE  KeepsSettled
<1> DEFINE Rows == \A a \in Bookings : row'[a].canceledAt =>
                     row[a].canceledAt /\ (Settled(row[a]) => Settled(row'[a]))
           Goes(c) == call'[c].at \in CancelSteps /\ call'[c].booking = call[c].booking
<1>1. row' = row => Rows
  OBVIOUS
<1>2. ASSUME OtherWrites PROVE Rows
  <2>1. ASSUME NEW b \in Bookings, Reopen(b) \/ PatchCanceled(b) \/ ConfirmHold(b) PROVE Rows
    <3>1. row[b] \in Row
      BY DEF PaymentsTypeOK
    <3>2. QED BY <2>1, <3>1, WriteKeepsSettled DEF Reopen, PatchCanceled, ConfirmHold, Settled, Row
  <2>2. ASSUME NEW e \in events, Receive(e) PROVE Rows
    <3> DEFINE r == row[e.booking]
    <3>1. e.booking \in Bookings /\ e.kind \in EventKinds /\ r \in Row
      BY DEF PaymentsTypeOK, Event
    <3>2. /\ Applied(r, e.kind).canceledAt = r.canceledAt
          /\ Settled(r) => Settled(Applied(r, e.kind))
      <4> USE DEF Settled, Row
      <4>1. CASE e.kind = "deposit_succeeded" BY <3>1, <4>1 DEF Applied, DepositSucceeded
      <4>2. CASE e.kind = "capturable" BY <3>1, <4>2 DEF Applied, HoldCapturable
      <4>3. CASE e.kind = "hold_succeeded" BY <3>1, <4>3 DEF Applied, HoldSucceeded
      <4>4. CASE e.kind = "hold_failed" BY <3>1, <4>4 DEF Applied, HoldFailed
      <4>5. CASE e.kind = "refund_pending" BY <3>1, <4>5 DEF Applied, RefundUpdated
      <4>6. CASE e.kind = "refund_succeeded" BY <3>1, <4>6 DEF Applied, RefundUpdated
      <4>7. CASE e.kind = "refund_failed" BY <3>1, <4>7 DEF Applied, RefundUpdated
      <4>8. QED
        BY <3>1, <4>1, <4>2, <4>3, <4>4, <4>5, <4>6, <4>7 DEF EventKinds
    <3>3. QED BY <2>2, <3>1, <3>2, WriteKeepsSettled DEF Receive
  <2>3. ASSUME PassRefund PROVE Rows
    <3>1. /\ pass.booking \in Bookings /\ row[pass.booking] \in Row
          /\ pass.seen # "not_required"
      BY <2>3, PassTyped
      DEF PassRefund, Knowledge, PassKnows, RefundShows, RefundAnswers
    <3>2. QED BY <2>3, <3>1, WriteKeepsSettled DEF PassRefund, Settled, Row
  <2>4. ASSUME PassBalance PROVE Rows
    <3>1. pass.booking \in Bookings /\ row[pass.booking] \in Row
      BY <2>4, PassTyped DEF PassBalance
    <3>2. QED BY <1>1, <2>4, <3>1, WriteKeepsSettled DEF PassBalance, NoWrite, Settled, Row
  <2>5. QED BY <1>2, <2>1, <2>2, <2>3, <2>4 DEF OtherWrites
<1>3. ASSUME NEW c \in Calls, CallStep(c), call[c].at \notin CancelSteps
      PROVE  row' = row \/ Rows
  <2> DEFINE b == call[c].booking
  <2>1. CASE \E a \in Bookings : BeginAuthorize(c, a) \/ BeginComplete(c, a) \/ BeginCancel(c, a)
    BY <2>1 DEF BeginAuthorize, BeginComplete, BeginCancel, NoWrite
  <2>2. CASE Authorize(c)
    <3>1. b \in Bookings /\ row[b] \in Row
      BY <2>2, BusyTyped DEF Authorize, AuthSync, AuthWrite, AuthNoCard, AuthCreate, AuthRecord
    <3>2. CASE AuthWrite(c)
      BY <3>1, <3>2, WriteKeepsSettled DEF AuthWrite, NoWrite, Settled, Row
    <3>3. CASE AuthNoCard(c)
      BY <3>1, <3>3, WriteKeepsSettled DEF AuthNoCard, Settled, Row
    <3>4. CASE AuthRecord(c)
      BY <3>1, <3>4, WriteKeepsSettled DEF AuthRecord, Recorded, Settled, Row
    <3>5. QED BY <2>2, <3>2, <3>3, <3>4 DEF Authorize, AuthSync, AuthCreate, NoWrite
  <2>3. CASE Capture(c)
    <3>1. b \in Bookings /\ row[b] \in Row
      BY <2>3, BusyTyped
      DEF Capture, Complete, CaptureRead, CaptureLook, CaptureCall, CaptureCheck, CaptureMark,
          CaptureFail
    <3>2. CASE Complete(c)
      BY <3>1, <3>2, WriteKeepsSettled DEF Complete, Transition, NoWrite, Settled, Row
    <3>3. CASE CaptureRead(c)
      BY <3>1, <3>3, WriteKeepsSettled DEF CaptureRead, NoWrite, Settled, Row
    <3>4. CASE CaptureMark(c)
      BY <3>1, <3>4, WriteKeepsSettled DEF CaptureMark, Settled, Row
    <3>5. CASE CaptureFail(c)
      BY <3>1, <3>5, WriteKeepsSettled DEF CaptureFail, Settled, Row
    <3>6. QED
      BY <2>3, <3>2, <3>3, <3>4, <3>5 DEF Capture, CaptureLook, CaptureCall, CaptureCheck, NoWrite
  <2>4. CASE Cancelation(c)
    BY <1>3, <2>4
    DEF Cancelation, Cancel, Enforce, EnforcePending, EnforceCall, EnforceDone, EnforceFailed,
        EnforceRetain, CancelSteps
  <2>5. CASE CallFails(c) \/ NoAnswer(c)
    BY <2>5 DEF CallFails, NoAnswer
  <2>6. QED BY <1>3, <2>1, <2>2, <2>3, <2>4, <2>5 DEF CallStep
<1>4. ASSUME NEW c \in Calls, CallStep(c), call[c].at \in CancelSteps
      PROVE  /\ \/ Rows
                \/ /\ call'[c].at \in CancelSteps /\ call'[c].booking = call[c].booking
                   /\ \A a \in Bookings \ {call[c].booking} : row'[a] = row[a]
             /\ \/ Goes(c)
                \/ Settled(row'[call[c].booking])
                \/ ~row'[call[c].booking].canceledAt
                \/ phase[call[c].booking] = "unscheduled"
  <2> DEFINE b == call[c].booking
  <2>1. /\ b \in Bookings /\ row[b] \in Row /\ RowFits(b, row[b]) /\ CallKnows(call[c])
        /\ call[c] # Idle /\ call[c].at \in CancelSteps
    BY <1>4, BusyTyped DEF CancelSteps, Knowledge, Idle
  <2>2. Cancelation(c)
    <3>1. ~CallFails(c) /\ ~NoAnswer(c)
      BY FaultTyped DEF CallFails, NoAnswer
    <3>2. QED
      BY <1>4, <2>1, <3>1
      DEF CallStep, BeginAuthorize, BeginComplete, BeginCancel, Authorize, AuthSync, AuthWrite,
          AuthNoCard, AuthCreate, AuthRecord, Capture, Complete, CaptureRead, CaptureLook,
          CaptureCall, CaptureCheck, CaptureMark, CaptureFail, CancelSteps
  <2>3. CASE Cancel(c)
    <3>1. CASE row[b].status \in {"open", "canceled"}
      <4>1. Goes(c)
        BY <2>1, <2>3, <3>1 DEF Cancel, Transition, Goto, At, PaymentsTypeOK, CancelSteps
      <4>2. \A a \in Bookings \ {b} : row'[a] = row[a]
        BY <2>1, <2>3, <3>1 DEF Cancel, Transition, Write, NoWrite, PaymentsTypeOK
      <4>3. QED BY <4>1, <4>2
    <3>2. CASE row[b].status \notin {"open", "canceled"}
      BY <1>1, <2>1, <2>3, <3>2 DEF Cancel, Transition, NoWrite, RowFits
    <3>3. QED BY <3>1, <3>2
  <2>4. CASE Enforce(c)
    <3>1. row' = row
      BY <2>4 DEF Enforce, NoWrite
    <3>2. Goes(c) \/ Settled(row[b]) \/ phase[b] = "unscheduled"
      BY <2>1, <2>4
      DEF Enforce, Unsettled, RowFits, Settled, Row, Goto, At, PaymentsTypeOK, CancelSteps
    <3>3. QED BY <1>1, <3>1, <3>2
  <2>5. CASE EnforcePending(c)
    <3>1. Rows
      BY <2>1, <2>5, WriteKeepsSettled DEF EnforcePending, Settled, Row
    <3>2. Goes(c)
      BY <2>1, <2>5 DEF EnforcePending, Goto, At, PaymentsTypeOK, CancelSteps
    <3>3. QED BY <3>1, <3>2
  <2>6. CASE EnforceCall(c)
    <3>1. row' = row
      BY <2>6 DEF EnforceCall, NoWrite
    <3>2. Goes(c)
      BY <2>1, <2>6 DEF EnforceCall, Goto, At, PaymentsTypeOK, CancelSteps
    <3>3. QED BY <1>1, <3>1, <3>2
  <2>7. CASE EnforceDone(c)
    <3>1. call[c].seen # "not_required"
      BY <2>1, <2>7 DEF EnforceDone, CallKnows, RefundShows, RefundAnswers
    <3>2. Rows
      BY <2>1, <2>7, <3>1, WriteKeepsSettled DEF EnforceDone, Settled, Row
    <3>3. Settled(row'[b])
      BY <2>1, <2>7, <3>1 DEF EnforceDone, Write, Settled, PaymentsTypeOK, Row
    <3>4. QED BY <3>2, <3>3
  <2>8. CASE EnforceFailed(c)
    <3>1. Rows
      BY <2>1, <2>8, WriteKeepsSettled DEF EnforceFailed, Settled, Row
    <3>2. Settled(row'[b])
      BY <2>1, <2>8 DEF EnforceFailed, Write, Settled, PaymentsTypeOK, Row
    <3>3. QED BY <3>1, <3>2
  <2>9. CASE EnforceRetain(c)
    <3>1. Rows
      BY <2>1, <2>9, WriteKeepsSettled DEF EnforceRetain, Settled, Row
    <3>2. Settled(row'[b])
      BY <2>1, <2>9 DEF EnforceRetain, Write, Settled, PaymentsTypeOK, Row
    <3>3. QED BY <3>1, <3>2
  <2>10. QED
    BY <2>2, <2>3, <2>4, <2>5, <2>6, <2>7, <2>8, <2>9 DEF Cancelation
<1>5. ASSUME NEW c \in Calls, CallStep(c), \A d \in Calls \ {c} : call'[d] = call[d]
      PROVE  KeepsSettled
  <2>1. CASE call[c].at \notin CancelSteps
    <3>1. Rows
      BY <1>1, <1>3, <1>5, <2>1
    <3>2. QED BY <1>5, <2>1, <3>1 DEF KeepsSettled
  <2>2. CASE call[c].at \in CancelSteps
    <3>1. \A d \in Calls : call[d].at \in CancelSteps =>
            \/ Goes(d) \/ Settled(row'[call[d].booking]) \/ ~row'[call[d].booking].canceledAt
            \/ phase[call[d].booking] = "unscheduled"
      BY <1>4, <1>5, <2>2
    <3>2. ASSUME NEW a \in Bookings, row'[a].canceledAt
          PROVE  \/ row[a].canceledAt /\ (Settled(row[a]) => Settled(row'[a]))
                 \/ \E d \in Calls : call'[d].at \in CancelSteps /\ call'[d].booking = a
      BY <1>4, <1>5, <2>2, <3>2
    <3>3. QED BY <3>1, <3>2 DEF KeepsSettled
  <2>3. QED BY <2>1, <2>2
<1>6. CASE call' = call
  <2>1. row' = row \/ OtherWrites
    <3>1. ASSUME NEW c \in Calls, CallWrites(c), row' # row PROVE FALSE
      <4>1. call[c].at # "idle"
        BY <3>1
        DEF CallWrites, AuthWrite, AuthNoCard, AuthRecord, Complete, CaptureRead, CaptureMark,
            CaptureFail, Cancel, EnforcePending, EnforceDone, EnforceFailed, EnforceRetain
      <4>2. call[c].booking \in Bookings
        BY <4>1, BusyTyped
      <4>3. call'[c] # call[c]
        <5> USE DEF Goto, Return, At, Idle, PaymentsTypeOK
        <5>1. CASE AuthWrite(c) BY <5>1 DEF AuthWrite
        <5>2. CASE AuthNoCard(c) \/ AuthRecord(c) BY <5>2 DEF AuthNoCard, AuthRecord
        <5>3. CASE Complete(c) \/ Cancel(c) BY <5>3 DEF Complete, Cancel, Transition
        <5>4. CASE CaptureRead(c) \/ CaptureMark(c) \/ CaptureFail(c)
          BY <5>4 DEF CaptureRead, CaptureMark, CaptureFail
        <5>5. CASE EnforcePending(c) \/ EnforceDone(c) \/ EnforceFailed(c) \/ EnforceRetain(c)
          BY <5>5 DEF EnforcePending, EnforceDone, EnforceFailed, EnforceRetain
        <5>6. QED BY <3>1, <5>1, <5>2, <5>3, <5>4, <5>5 DEF CallWrites
      <4>4. QED BY <1>6, <4>3
    <3>2. QED BY <3>1, RowFrame
  <2>2. QED BY <1>1, <1>2, <1>6, <2>1 DEF KeepsSettled
<1>7. QED
  BY <1>5, <1>6, CallFrame

(* A step takes back no failure. *)
LEMMA FaultFrame ==
  ASSUME PaymentsTypeOK, Next, faults' = 0
  PROVE  faults = 0
<1>1. ASSUME NEW c \in Calls, CallFails(c) \/ NoAnswer(c) PROVE FALSE
  BY <1>1, FaultTyped DEF CallFails, NoAnswer
<1>2. ~PassFails
  BY FaultTyped DEF PassFails
<1>3. ASSUME NEW c \in Calls, NEW b \in Bookings,
             BeginAuthorize(c, b) \/ BeginComplete(c, b) \/ BeginCancel(c, b)
      PROVE  faults' = faults
  BY <1>3 DEF BeginAuthorize, BeginComplete, BeginCancel, OnlyCalls
<1>4. ASSUME NEW c \in Calls, Authorize(c) PROVE faults' = faults
  BY <1>4 DEF Authorize, AuthSync, AuthWrite, AuthNoCard, AuthCreate, AuthRecord, OnlyCalls
<1>5. ASSUME NEW c \in Calls, Capture(c) PROVE faults' = faults
  BY <1>5 DEF Capture, Complete, CaptureRead, CaptureLook, CaptureCall, CaptureCheck,
              CaptureMark, CaptureFail, OnlyCalls
<1>6. ASSUME NEW c \in Calls, Cancelation(c) PROVE faults' = faults
  BY <1>6 DEF Cancelation, Cancel, Enforce, EnforcePending, EnforceCall, EnforceDone,
              EnforceFailed, EnforceRetain, OnlyCalls
<1>7. ASSUME NEW b \in Bookings,
             \/ Reopen(b) \/ PatchCanceled(b) \/ ConfirmHold(b) \/ CustomerActs(b) \/ HoldExpires(b)
             \/ RefundSettles(b) \/ Tick(b)
      PROVE  faults' = faults
  BY <1>7 DEF Reopen, PatchCanceled, ConfirmHold, CustomerActs, HoldExpires, RefundSettles, Tick,
              OnlyCalls, OnlyStripe
<1>8. ASSUME NEW e \in events, Receive(e) \/ LoseEvent(e) PROVE faults' = faults
  BY <1>8 DEF Receive, LoseEvent
<1>9. ASSUME Reconcile PROVE faults' = faults
  BY <1>9 DEF Reconcile, BeginPass, PassRead, PassLook, PassRefund, PassBalance
<1>10. QED
  BY <1>1, <1>2, <1>3, <1>4, <1>5, <1>6, <1>7, <1>8, <1>9 DEF Next

(* A booking gets a start only while it is open, which one that has been     *)
(* canceled is not.                                                          *)
LEMMA CanceledGetNoStart ==
  ASSUME PaymentsTypeOK, Knowledge, Next, NEW b \in Bookings,
         row[b].canceledAt, phase'[b] # "unscheduled"
  PROVE  phase[b] # "unscheduled"
<1>1. row[b].status = "canceled"
  BY DEF Knowledge, RowFits
<1>2. ASSUME NEW x \in Bookings, ConfirmHold(x) PROVE phase'[b] = phase[b]
  BY <1>1, <1>2 DEF ConfirmHold, PaymentsTypeOK
<1>3. ASSUME NEW x \in Bookings, Tick(x) PROVE phase[b] # "unscheduled"
  BY <1>3 DEF Tick, PaymentsTypeOK
<1>4. ASSUME NEW c \in Calls, NEW x \in Bookings,
             BeginAuthorize(c, x) \/ BeginComplete(c, x) \/ BeginCancel(c, x)
      PROVE  phase' = phase
  BY <1>4 DEF BeginAuthorize, BeginComplete, BeginCancel, OnlyCalls
<1>5. ASSUME NEW c \in Calls, Authorize(c) PROVE phase' = phase
  BY <1>5 DEF Authorize, AuthSync, AuthWrite, AuthNoCard, AuthCreate, AuthRecord, OnlyCalls
<1>6. ASSUME NEW c \in Calls, Capture(c) PROVE phase' = phase
  BY <1>6 DEF Capture, Complete, CaptureRead, CaptureLook, CaptureCall, CaptureCheck,
              CaptureMark, CaptureFail, OnlyCalls
<1>7. ASSUME NEW c \in Calls, Cancelation(c) PROVE phase' = phase
  BY <1>7 DEF Cancelation, Cancel, Enforce, EnforcePending, EnforceCall, EnforceDone,
              EnforceFailed, EnforceRetain, OnlyCalls
<1>8. ASSUME NEW c \in Calls, CallFails(c) \/ NoAnswer(c) PROVE phase' = phase
  BY <1>8 DEF CallFails, NoAnswer
<1>9. ASSUME NEW x \in Bookings,
             \/ Reopen(x) \/ PatchCanceled(x) \/ CustomerActs(x) \/ HoldExpires(x)
             \/ RefundSettles(x)
      PROVE  phase' = phase
  BY <1>9 DEF Reopen, PatchCanceled, CustomerActs, HoldExpires, RefundSettles, OnlyCalls,
              OnlyStripe
<1>10. ASSUME NEW e \in events, Receive(e) \/ LoseEvent(e) PROVE phase' = phase
  BY <1>10 DEF Receive, LoseEvent
<1>11. ASSUME Reconcile \/ PassFails PROVE phase' = phase
  BY <1>11 DEF Reconcile, PassFails, BeginPass, PassRead, PassLook, PassRefund, PassBalance
<1>12. QED
  BY <1>2, <1>3, <1>4, <1>5, <1>6, <1>7, <1>8, <1>9, <1>10, <1>11 DEF Next

(* Cancelations stay settled. *)
LEMMA SettledStep ==
  ASSUME PaymentsTypeOK, Knowledge, CanceledIsSettled, Next
  PROVE  CanceledIsSettled'
<1> SUFFICES ASSUME NEW b \in Bookings, row'[b].canceledAt, faults' = 0,
                    phase'[b] # "unscheduled"
             PROVE  \/ Settled(row'[b])
                    \/ \E c \in Calls : call'[c].at \in CancelSteps /\ call'[c].booking = b
  BY DEF CanceledIsSettled, Settled
<1>1. KeepsSettled /\ faults = 0
  BY StepKeepsSettled, FaultFrame
<1>2. CASE row[b].canceledAt /\ (Settled(row[b]) => Settled(row'[b]))
  <2>1. phase[b] # "unscheduled"
    BY <1>2, CanceledGetNoStart
  <2>2. QED
    BY <1>1, <1>2, <2>1 DEF CanceledIsSettled, KeepsSettled
<1>3. QED BY <1>1, <1>2 DEF KeepsSettled

-----------------------------------------------------------------------------
(* Holds *)

Live == {"requires_capture", "requires_action"}

(* A write of a row that keeps its intent. *)
LEMMA WriteKeepsIntents ==
  ASSUME PaymentsTypeOK, NEW a \in Bookings, NEW r, Write(a, r), row[a].intent => r.intent,
         NEW b \in Bookings, row[b].intent
  PROVE  row'[b].intent
  BY DEF Write, PaymentsTypeOK

(* No write takes the intent of a live hold from the row. *)
LEMMA RowsKeepIntents ==
  ASSUME PaymentsTypeOK, Knowledge, Next, NEW b \in Bookings, row[b].intent, ~row'[b].intent
  PROVE  stripe'[b].hold = stripe[b].hold /\ stripe[b].hold \in Ended
<1> USE DEF Write, NoWrite, PaymentsTypeOK, Row
<1>1. ASSUME NEW c \in Calls, CallWrites(c)
      PROVE  stripe'[b].hold = stripe[b].hold /\ stripe[b].hold \in Ended
  <2>1. call[c].booking \in Bookings /\ row[call[c].booking] \in Row
    BY <1>1, BusyTyped
    DEF CallWrites, AuthWrite, AuthNoCard, AuthRecord, Complete, CaptureRead, CaptureMark,
        CaptureFail, Cancel, EnforcePending, EnforceDone, EnforceFailed, EnforceRetain
  <2>2. CASE AuthWrite(c)
    <3>1. call[c].booking = b /\ call[c].seen \in Ended
      BY <2>1, <2>2 DEF AuthWrite, Ended
    <3>2. QED BY <2>2, <3>1 DEF AuthWrite, NoStripe, Knowledge, CallKnows
  <2>3. ASSUME AuthNoCard(c) \/ AuthRecord(c) PROVE FALSE
    BY <2>1, <2>3, WriteKeepsIntents DEF AuthNoCard, AuthRecord, Recorded
  <2>4. ASSUME Complete(c) PROVE FALSE
    BY <2>1, <2>4, WriteKeepsIntents DEF Complete, Transition
  <2>5. ASSUME CaptureRead(c) \/ CaptureMark(c) \/ CaptureFail(c) PROVE FALSE
    BY <2>1, <2>5, WriteKeepsIntents DEF CaptureRead, CaptureMark, CaptureFail
  <2>6. ASSUME Cancel(c) PROVE FALSE
    BY <2>1, <2>6, WriteKeepsIntents DEF Cancel, Transition
  <2>7. ASSUME EnforcePending(c) \/ EnforceDone(c) PROVE FALSE
    BY <2>1, <2>7, WriteKeepsIntents DEF EnforcePending, EnforceDone
  <2>8. ASSUME EnforceFailed(c) \/ EnforceRetain(c) PROVE FALSE
    BY <2>1, <2>8, WriteKeepsIntents DEF EnforceFailed, EnforceRetain
  <2>9. QED BY <1>1, <2>2, <2>3, <2>4, <2>5, <2>6, <2>7, <2>8 DEF CallWrites
<1>2. ASSUME NEW a \in Bookings, Reopen(a) \/ PatchCanceled(a) \/ ConfirmHold(a) PROVE FALSE
  BY <1>2 DEF Reopen, PatchCanceled, ConfirmHold
<1>3. ASSUME NEW e \in events, Receive(e) PROVE FALSE
  <2>1. e.booking \in Bookings /\ e.kind \in EventKinds
    BY DEF Event
  <2>2. Applied(row[e.booking], e.kind).intent \/ ~row[e.booking].intent
    <3>1. CASE e.kind = "deposit_succeeded" BY <2>1, <3>1 DEF Applied, DepositSucceeded
    <3>2. CASE e.kind = "capturable" BY <2>1, <3>2 DEF Applied, HoldCapturable
    <3>3. CASE e.kind = "hold_succeeded" BY <2>1, <3>3 DEF Applied, HoldSucceeded
    <3>4. CASE e.kind = "hold_failed" BY <2>1, <3>4 DEF Applied, HoldFailed
    <3>5. CASE e.kind = "refund_pending" BY <2>1, <3>5 DEF Applied, RefundUpdated
    <3>6. CASE e.kind = "refund_succeeded" BY <2>1, <3>6 DEF Applied, RefundUpdated
    <3>7. CASE e.kind = "refund_failed" BY <2>1, <3>7 DEF Applied, RefundUpdated
    <3>8. QED
      BY <2>1, <3>1, <3>2, <3>3, <3>4, <3>5, <3>6, <3>7 DEF EventKinds
  <2>3. QED BY <1>3, <2>1, <2>2 DEF Receive
<1>4. ASSUME PassRefund \/ PassBalance PROVE FALSE
  BY <1>4 DEF PassRefund, PassBalance
<1>5. QED
  BY <1>1, <1>2, <1>3, <1>4, RowFrame DEF OtherWrites

(* A hold comes to life when it is made, and then a call is about to write   *)
(* it, or when the customer lets it through.                                 *)
LEMMA HoldsComeToLife ==
  ASSUME PaymentsTypeOK, Knowledge, Next, NEW b \in Bookings,
         stripe'[b].hold \in Live, stripe[b].hold \notin Live
  PROVE  \E c \in Calls : call'[c].at = "auth_record" /\ call'[c].booking = b
<1> USE DEF PaymentsTypeOK, Stripe, Live, NoStripe
<1>1. ASSUME NEW c \in Calls, AuthCreate(c)
      PROVE  call'[c].at = "auth_record" /\ call'[c].booking = b
  <2>1. call[c].booking \in Bookings
    BY <1>1, BusyTyped DEF AuthCreate
  <2>2. PICK a \in Answers \ {"none"} :
          /\ \/ /\ stripe[call[c].booking].answer = "none"
                /\ LET h == IF a = "declined" THEN "requires_payment_method" ELSE a
                   IN  stripe' = [stripe EXCEPT ![call[c].booking].hold = h,
                                                ![call[c].booking].answer = a]
             \/ stripe' = stripe
          /\ IF a = "declined" THEN Return(c)
             ELSE Goto(c, "auth_record", call[c].booking, a)
    BY <1>1 DEF AuthCreate
  <2>3. call[c].booking = b /\ a # "declined"
    BY <2>1, <2>2
  <2>4. QED BY <2>2, <2>3 DEF Goto, At
<1>2. ASSUME NEW c \in Calls, CaptureCall(c) PROVE FALSE
  <2>1. call[c].booking \in Bookings
    BY <1>2, BusyTyped DEF CaptureCall
  <2>2. QED BY <1>2, <2>1 DEF CaptureCall, Hold
<1>3. ASSUME NEW c \in Calls, EnforceCall(c) PROVE FALSE
  <2>1. call[c].booking \in Bookings
    BY <1>3, BusyTyped DEF EnforceCall
  <2>2. QED BY <1>3, <2>1 DEF EnforceCall
<1>4. ASSUME NEW a \in Bookings, CustomerActs(a) \/ HoldExpires(a) \/ RefundSettles(a) PROVE FALSE
  BY <1>4 DEF CustomerActs, HoldExpires, RefundSettles, Hold
<1>5. QED
  BY <1>1, <1>2, <1>3, <1>4, StripeFrame DEF StripeStep

(* A call that has made a hold writes it. *)
LEMMA RecordsAreMade ==
  ASSUME PaymentsTypeOK, Next, faults' = 0, NEW c \in Calls, call[c].at = "auth_record",
         call'[c] # call[c]
  PROVE  row'[call[c].booking].intent
<1>1. call[c].booking \in Bookings /\ row[call[c].booking] \in Row /\ call[c] # Idle
  BY BusyTyped DEF Idle
<1>2. CallStep(c)
  BY CallFrame
<1>3. ~CallFails(c) /\ ~NoAnswer(c)
  BY FaultTyped DEF CallFails, NoAnswer
<1>4. ~Capture(c)
  BY DEF Capture, Complete, CaptureRead, CaptureLook, CaptureCall, CaptureCheck, CaptureMark,
         CaptureFail
<1>5. ~Cancelation(c)
  BY DEF Cancelation, Cancel, Enforce, EnforcePending, EnforceCall, EnforceDone, EnforceFailed,
         EnforceRetain
<1>6. AuthRecord(c)
  BY <1>1, <1>2, <1>3, <1>4, <1>5
  DEF CallStep, BeginAuthorize, BeginComplete, BeginCancel, Authorize, AuthSync, AuthWrite,
      AuthNoCard, AuthCreate
<1>7. QED
  BY <1>1, <1>6 DEF AuthRecord, Recorded, Write, PaymentsTypeOK, Row

(* Holds stay known. *)
LEMMA HoldsStep ==
  ASSUME PaymentsTypeOK, Knowledge, HoldsKnown, Next
  PROVE  HoldsKnown'
<1> SUFFICES ASSUME NEW b \in Bookings, stripe'[b].hold \in Live, ~row'[b].intent, faults' = 0
             PROVE  \E c \in Calls : call'[c].at = "auth_record" /\ call'[c].booking = b
  BY DEF HoldsKnown, Live
<1>1. CASE stripe[b].hold \notin Live
  BY <1>1, HoldsComeToLife
<1>2. CASE stripe[b].hold \in Live
  <2>1. ~row[b].intent
    BY <1>2, RowsKeepIntents DEF Live, Ended
  <2>2. faults = 0
    BY FaultFrame
  <2>3. PICK c \in Calls : call[c].at = "auth_record" /\ call[c].booking = b
    BY <1>2, <2>1, <2>2 DEF HoldsKnown, Live
  <2>4. call'[c] = call[c]
    BY <2>3, RecordsAreMade
  <2>5. QED BY <2>3, <2>4
<1>3. QED BY <1>1, <1>2

-----------------------------------------------------------------------------
(* The theorems *)

(* Nothing has been done in the initial states. *)
LEMMA InitInv ==
  ASSUME Init
  PROVE  IInv
<1>1. PaymentsTypeOK
  BY ConstantsAssumption
  DEF Init, PaymentsTypeOK, NewRow, Row, Statuses, Balances, Deposits, Refunds, Phases,
      NothingAtStripe, Stripe, Holds, Answers, StripeRefunds, Event, EventKinds, CallState,
      PassState
<1>2. Knowledge
  BY DEF Init, Knowledge, AnswersAreFirst, CallKnows, EventKnows, PassKnows, RowFits, Settled,
         NewRow, NothingAtStripe, Idle, PassIdle
<1>3. CanceledIsSettled /\ HoldsKnown
  BY DEF Init, CanceledIsSettled, HoldsKnown, NewRow, NothingAtStripe
<1>4. QED BY <1>1, <1>2, <1>3 DEF IInv

(* Every step keeps it. *)
LEMMA StepInv ==
  ASSUME IInv, [Next]_vars
  PROVE  IInv'
<1>1. CASE Next
  BY <1>1, TypeStep, KnowledgeStep, SettledStep, HoldsStep DEF IInv
<1>2. CASE UNCHANGED vars
  BY <1>2
  DEF vars, IInv, PaymentsTypeOK, Knowledge, AnswersAreFirst, CallKnows, EventKnows, PassKnows,
      RowFits, RefundShows, CanceledIsSettled, HoldsKnown
<1>3. QED BY <1>1, <1>2

(* The inductive invariant. *)
THEOREM IInvHolds == Spec => []IInv
<1>1. Init => IInv BY InitInv
<1>2. IInv /\ [Next]_vars => IInv' BY StepInv
<1>3. QED BY <1>1, <1>2, PTL DEF Spec

(* Every variable keeps its type; no column takes a word of Stripe's. *)
THEOREM PaymentsTypesHold == Spec => []PaymentsTypeOK
<1>1. IInv => PaymentsTypeOK BY DEF IInv
<1>2. QED BY <1>1, IInvHolds, PTL

(* A row says captured, or refunded, only of money that has been.            *)
THEOREM RowsStayTrue == Spec => []RowsAreTrue
<1>1. IInv => RowsAreTrue BY DEF IInv, Knowledge, RowsAreTrue, RowFits
<1>2. QED BY <1>1, IInvHolds, PTL

(* Unless a call fails, every cancelation is settled or about to be.         *)
THEOREM CancelationsAreSettled == Spec => []CanceledIsSettled
<1>1. IInv => CanceledIsSettled BY DEF IInv
<1>2. QED BY <1>1, IInvHolds, PTL

(* Unless a call fails, no money is held that the row does not know of.      *)
THEOREM HoldsAreNotForgotten == Spec => []NoForgottenHold
<1>1. IInv => NoForgottenHold BY DEF IInv, HoldsKnown, NoForgottenHold
<1>2. QED BY <1>1, IInvHolds, PTL

-----------------------------------------------------------------------------
(* Money that has moved, and a row that says so *)

(* A booking whose balance is captured, at Stripe and in its row, with       *)
(* nothing under way that would write another balance: no event of an        *)
(* earlier state of the hold, no call that creates, captures or gives up,    *)
(* none and no pass that saw the hold before its capture.                    *)
BeforeCapture == {"deposit_succeeded", "capturable", "hold_failed"}
MayUncapture(q) ==
  \/ q.at \in {"auth_create", "auth_record", "capture", "capture_check", "capture_fail"}
  \/ q.at = "auth_write" /\ q.seen # "succeeded"
CapturedForGood(b) ==
  /\ stripe[b].hold = "succeeded" /\ row[b].balance = "captured"
  /\ \A e \in events : e.booking = b => e.kind \notin BeforeCapture
  /\ \A c \in Calls : call[c] # Idle /\ call[c].booking = b => ~MayUncapture(call[c])
  /\ pass # PassIdle /\ pass.booking = b /\ pass.at = "balance_write" => pass.seen = "succeeded"

(* The same of a deposit that is refunded. *)
BeforeRefund == {"refund_pending", "refund_failed"}
Refunding == {"refund_pending", "refund_call", "refund_done", "refund_failed", "retain"}
RefundedForGood(b) ==
  /\ stripe[b].refund = "succeeded" /\ row[b].refund = "succeeded"
  /\ \A e \in events : e.booking = b => e.kind \notin BeforeRefund
  /\ \A c \in Calls : call[c] # Idle /\ call[c].booking = b => call[c].at \notin Refunding
  /\ pass # PassIdle /\ pass.booking = b /\ pass.at = "refund_write" => pass.seen = "succeeded"

(* Of a payment, or a refund, that has ended well Stripe sends no other news. *)
LEMMA NoOlderNews ==
  ASSUME PaymentsTypeOK, AnswersAreFirst, Next, NEW b \in Bookings,
         NEW e \in events', e \notin events, e.booking = b
  PROVE  /\ stripe[b].hold = "succeeded" => e.kind \notin BeforeCapture
         /\ stripe[b].refund = "succeeded" => e.kind \notin BeforeRefund
<1> USE DEF BeforeCapture, BeforeRefund
<1>1. ASSUME NEW c \in Calls, AuthCreate(c)
      PROVE  /\ stripe[b].hold = "succeeded" => e.kind \notin BeforeCapture
             /\ stripe[b].refund = "succeeded" => e.kind \notin BeforeRefund
  BY <1>1 DEF AuthCreate, HoldEvents, NoStripe, AnswersAreFirst
<1>2. ASSUME NEW c \in Calls, CaptureCall(c)
      PROVE  /\ stripe[b].hold = "succeeded" => e.kind \notin BeforeCapture
             /\ stripe[b].refund = "succeeded" => e.kind \notin BeforeRefund
  BY <1>2 DEF CaptureCall, Hold, HoldEvents, NoStripe
<1>3. ASSUME NEW c \in Calls, EnforceCall(c)
      PROVE  /\ stripe[b].hold = "succeeded" => e.kind \notin BeforeCapture
             /\ stripe[b].refund = "succeeded" => e.kind \notin BeforeRefund
  BY <1>3 DEF EnforceCall, RefundEvent, NoStripe, AnswersAreFirst
<1>4. ASSUME NEW x \in Bookings, CustomerActs(x) \/ HoldExpires(x)
      PROVE  /\ stripe[b].hold = "succeeded" => e.kind \notin BeforeCapture
             /\ stripe[b].refund = "succeeded" => e.kind \notin BeforeRefund
  BY <1>4 DEF CustomerActs, HoldExpires, Hold, HoldEvents
<1>5. ASSUME NEW x \in Bookings, RefundSettles(x)
      PROVE  /\ stripe[b].hold = "succeeded" => e.kind \notin BeforeCapture
             /\ stripe[b].refund = "succeeded" => e.kind \notin BeforeRefund
  BY <1>5 DEF RefundSettles, RefundEvent
<1>6. QED
  BY <1>1, <1>2, <1>3, <1>4, <1>5, StripeFrame DEF StripeStep

(* A call does not come to a step that would write another balance. *)
LEMMA CallsLeaveCaptured ==
  ASSUME PaymentsTypeOK, Next, NEW b \in Bookings, CapturedForGood(b), NEW c \in Calls,
         call'[c] # Idle, call'[c].booking = b
  PROVE  ~MayUncapture(call'[c])
<1> DEFINE Safe == ~MayUncapture(call'[c])
<1>0. call[c] # Idle /\ call[c].booking = b => ~MayUncapture(call[c])
  BY DEF CapturedForGood
<1>a. stripe[b].hold = "succeeded" /\ row[b].balance = "captured"
  BY DEF CapturedForGood
<1>b. call \in [Calls -> CallState]
  BY DEF PaymentsTypeOK
<1>1. CASE call'[c] = call[c]
  BY <1>0, <1>1
<1>2. CASE CallStep(c)
  <2> USE <1>b DEF MayUncapture, At
  <2>1. ASSUME NEW x \in Bookings,
               BeginAuthorize(c, x) \/ BeginComplete(c, x) \/ BeginCancel(c, x)
        PROVE  Safe
    BY <1>a, <2>1 DEF BeginAuthorize, BeginComplete, BeginCancel, Goto, AuthorizationDue
  <2>2. CASE Authorize(c)
    <3>1. call[c] # Idle
      BY <2>2 DEF Authorize, AuthSync, AuthWrite, AuthNoCard, AuthCreate, AuthRecord, Idle
    <3>2. CASE AuthSync(c)
      BY <1>a, <3>2 DEF AuthSync, Goto
    <3>3. CASE AuthWrite(c)
      BY <1>0, <3>1, <3>3 DEF AuthWrite, Goto, Return
    <3>4. CASE AuthNoCard(c) \/ AuthRecord(c)
      BY <3>4 DEF AuthNoCard, AuthRecord, Return
    <3>5. CASE AuthCreate(c)
      BY <1>0, <3>1, <3>5 DEF AuthCreate, Goto, Return
    <3>6. QED BY <2>2, <3>2, <3>3, <3>4, <3>5 DEF Authorize
  <2>3. CASE Capture(c)
    <3>1. call[c] # Idle
      BY <2>3 DEF Capture, Complete, CaptureRead, CaptureLook, CaptureCall, CaptureCheck,
                  CaptureMark, CaptureFail, Idle
    <3>2. CASE Complete(c)
      BY <1>0, <3>1, <3>2 DEF Complete, Transition, Goto, Return
    <3>3. CASE CaptureRead(c) \/ CaptureLook(c)
      BY <1>a, <3>3 DEF CaptureRead, CaptureLook, CaptureStep, Goto, Return
    <3>4. CASE CaptureCall(c) \/ CaptureCheck(c) \/ CaptureMark(c) \/ CaptureFail(c)
      BY <1>0, <3>1, <3>4 DEF CaptureCall, CaptureCheck, CaptureMark, CaptureFail, Goto, Return
    <3>5. QED BY <2>3, <3>2, <3>3, <3>4 DEF Capture
  <2>4. CASE Cancelation(c)
    <3>1. CASE Cancel(c)
      BY <3>1 DEF Cancel, Transition, Goto, Return
    <3>2. CASE Enforce(c) \/ EnforcePending(c)
      BY <3>2 DEF Enforce, EnforcePending, Goto, Return
    <3>3. CASE EnforceCall(c)
      <4>1. \E a : Goto(c, "refund_done", call[c].booking, a)
        BY <3>3 DEF EnforceCall
      <4>2. QED BY <4>1 DEF Goto
    <3>4. CASE EnforceDone(c) \/ EnforceFailed(c) \/ EnforceRetain(c)
      BY <3>4 DEF EnforceDone, EnforceFailed, EnforceRetain, Return
    <3>5. QED BY <2>4, <3>1, <3>2, <3>3, <3>4 DEF Cancelation
  <2>5. CASE CallFails(c) \/ NoAnswer(c)
    <3>1. CASE CallFails(c)
      BY <3>1 DEF CallFails, Return
    <3>2. CASE NoAnswer(c)
      <4>1. call[c] # Idle
        BY <3>2 DEF NoAnswer, Idle
      <4>2. QED
        BY <1>0, <3>2, <4>1 DEF NoAnswer, Goto
    <3>3. QED BY <2>5, <3>1, <3>2
  <2>6. QED
    BY <1>2, <2>1, <2>2, <2>3, <2>4, <2>5 DEF CallStep
<1>3. QED
  BY <1>1, <1>2, CallFrame

(* No call begins to refund, or to keep a fee, once the refund is on record. *)
LEMMA CallsLeaveRefunded ==
  ASSUME PaymentsTypeOK, Next, NEW b \in Bookings, RefundedForGood(b), NEW c \in Calls,
         call'[c] # Idle, call'[c].booking = b
  PROVE  call'[c].at \notin Refunding
<1> DEFINE Safe == call'[c].at \notin Refunding
<1>0. call[c] # Idle /\ call[c].booking = b => call[c].at \notin Refunding
  BY DEF RefundedForGood
<1>a. row[b].refund = "succeeded"
  BY DEF RefundedForGood
<1>b. call \in [Calls -> CallState]
  BY DEF PaymentsTypeOK
<1>1. CASE call'[c] = call[c]
  BY <1>0, <1>1
<1>2. CASE CallStep(c)
  <2> USE <1>b DEF Refunding, At
  <2>1. ASSUME NEW x \in Bookings,
               BeginAuthorize(c, x) \/ BeginComplete(c, x) \/ BeginCancel(c, x)
        PROVE  Safe
    BY <2>1 DEF BeginAuthorize, BeginComplete, BeginCancel, Goto
  <2>2. CASE Authorize(c)
    <3>1. CASE AuthSync(c) \/ AuthWrite(c) \/ AuthNoCard(c)
      BY <3>1 DEF AuthSync, AuthWrite, AuthNoCard, Goto, Return
    <3>2. CASE AuthCreate(c)
      <4>1. (\E a : Goto(c, "auth_record", call[c].booking, a)) \/ Return(c)
        BY <3>2 DEF AuthCreate
      <4>2. QED BY <4>1 DEF Goto, Return
    <3>3. CASE AuthRecord(c)
      BY <3>3 DEF AuthRecord, Return
    <3>4. QED BY <2>2, <3>1, <3>2, <3>3 DEF Authorize
  <2>3. CASE Capture(c)
    <3>1. CASE Complete(c)
      BY <3>1 DEF Complete, Transition, Goto, Return
    <3>2. CASE CaptureRead(c) \/ CaptureLook(c)
      BY <3>2 DEF CaptureRead, CaptureLook, CaptureStep, Goto, Return
    <3>3. CASE CaptureCall(c) \/ CaptureCheck(c) \/ CaptureMark(c) \/ CaptureFail(c)
      BY <3>3 DEF CaptureCall, CaptureCheck, CaptureMark, CaptureFail, Goto, Return
    <3>4. QED BY <2>3, <3>1, <3>2, <3>3 DEF Capture
  <2>4. CASE Cancelation(c)
    <3>1. call[c] # Idle
      BY <2>4 DEF Cancelation, Cancel, Enforce, EnforcePending, EnforceCall, EnforceDone,
                  EnforceFailed, EnforceRetain, Idle
    <3>2. CASE Cancel(c)
      BY <3>2 DEF Cancel, Transition, Goto, Return
    <3>3. CASE Enforce(c)
      BY <1>a, <3>3 DEF Enforce, Unsettled, Goto, Return
    <3>4. CASE EnforcePending(c) \/ EnforceCall(c)
      <4>1. call[c].booking # b
        BY <1>0, <3>1, <3>4 DEF EnforcePending, EnforceCall
      <4>2. \E at, a : Goto(c, at, call[c].booking, a)
        BY <3>4 DEF EnforcePending, EnforceCall
      <4>3. QED BY <4>1, <4>2 DEF Goto
    <3>5. CASE EnforceDone(c) \/ EnforceFailed(c) \/ EnforceRetain(c)
      BY <3>5 DEF EnforceDone, EnforceFailed, EnforceRetain, Return
    <3>6. QED BY <2>4, <3>2, <3>3, <3>4, <3>5 DEF Cancelation
  <2>5. CASE CallFails(c) \/ NoAnswer(c)
    <3>1. CASE CallFails(c)
      BY <3>1 DEF CallFails, Return
    <3>2. CASE NoAnswer(c)
      <4>1. call[c] # Idle
        BY <3>2 DEF NoAnswer, Idle
      <4>2. QED
        BY <1>0, <3>2, <4>1 DEF NoAnswer, Goto
    <3>3. QED BY <2>5, <3>1, <3>2
  <2>6. QED
    BY <1>2, <2>1, <2>2, <2>3, <2>4, <2>5 DEF CallStep
<1>3. QED
  BY <1>1, <1>2, CallFrame

(* The pass sees the money where it is. *)
LEMMA PassSeesMoved ==
  ASSUME PaymentsTypeOK, Next, NEW b \in Bookings, pass' # PassIdle, pass'.booking = b
  PROVE  /\ CapturedForGood(b) /\ pass'.at = "balance_write" => pass'.seen = "succeeded"
         /\ RefundedForGood(b) /\ pass'.at = "refund_write" => pass'.seen = "succeeded"
<1> USE DEF CapturedForGood, RefundedForGood
<1>1. CASE pass' = pass
  BY <1>1
<1>2. ASSUME NEW x \in Bookings, PassRead(x)
      PROVE  pass'.at \notin {"balance_write", "refund_write"}
  BY <1>2 DEF PassRead, AfterRefund
<1>3. CASE PassLook
  <2>1. pass \in Passing
    BY <1>3, PassTyped DEF PassLook
  <2>2. QED
    BY <1>3, <2>1 DEF PassLook, Passing
<1>4. CASE PassRefund \/ PassBalance \/ PassFails
  BY <1>4 DEF PassRefund, PassBalance, PassFails, AfterRefund
<1>5. QED
  BY <1>1, <1>2, <1>3, <1>4, PassFrame DEF PassStep

(* The writes to the row of a booking put the same there again. *)
LEMMA RowsKeepMoved ==
  ASSUME PaymentsTypeOK, Next, NEW b \in Bookings
  PROVE  /\ CapturedForGood(b) => row'[b].balance = "captured"
         /\ RefundedForGood(b) => row'[b].refund = "succeeded"
<1> DEFINE Kept == /\ CapturedForGood(b) => row'[b].balance = "captured"
                   /\ RefundedForGood(b) => row'[b].refund = "succeeded"
<1>0. row \in [Bookings -> Row] /\ row[b] \in Row
  BY DEF PaymentsTypeOK
<1>a. CapturedForGood(b) => row[b].balance = "captured"
  BY DEF CapturedForGood
<1>b. RefundedForGood(b) => row[b].refund = "succeeded"
  BY DEF RefundedForGood
<1> USE <1>0, <1>a, <1>b DEF Row
<1>1. CASE row'[b] = row[b]
  BY <1>1
<1>2. ASSUME NEW c \in Calls, CallWrites(c) PROVE Kept
  <2>1. call[c] # Idle
    BY <1>2 DEF CallWrites, AuthWrite, AuthNoCard, AuthRecord, Complete, CaptureRead,
                CaptureMark, CaptureFail, Cancel, EnforcePending, EnforceDone, EnforceFailed,
                EnforceRetain, Idle
  <2>2. call[c].booking \in Bookings
    BY <2>1, BusyTyped, IdleIsIdle
  <2>3. CASE call[c].booking # b
    <3>1. (\E r : Write(call[c].booking, r)) \/ NoWrite
      BY <1>2 DEF CallWrites, AuthWrite, AuthNoCard, AuthRecord, Complete, CaptureRead,
                CaptureMark, CaptureFail, Cancel, EnforcePending, EnforceDone, EnforceFailed,
                EnforceRetain, Transition
    <3>2. row'[b] = row[b]
      BY <2>3, <3>1 DEF Write, NoWrite
    <3>3. QED BY <1>1, <3>2
  <2>4. CASE call[c].booking = b
    <3>1. CapturedForGood(b) => ~MayUncapture(call[c])
      BY <2>1, <2>4 DEF CapturedForGood
    <3>2. RefundedForGood(b) => call[c].at \notin Refunding
      BY <2>1, <2>4 DEF RefundedForGood
    <3>3. CASE AuthWrite(c)
      BY <2>4, <3>1, <3>3 DEF AuthWrite, Write, NoWrite, MayUncapture
    <3>4. CASE AuthNoCard(c) \/ AuthRecord(c)
      <4>1. ~CapturedForGood(b)
        BY <3>1, <3>4 DEF AuthNoCard, AuthRecord, MayUncapture
      <4>2. AuthNoCard(c) => row'[b].refund = row[b].refund
        BY <2>4 DEF AuthNoCard, Write
      <4>3. AuthRecord(c) => row'[b].refund = row[b].refund
        BY <2>4 DEF AuthRecord, Recorded, Write
      <4>4. QED BY <3>4, <4>1, <4>2, <4>3
    <3>5. CASE Complete(c) \/ Cancel(c)
      BY <2>4, <3>5 DEF Complete, Cancel, Transition, Write, NoWrite
    <3>6. CASE CaptureRead(c) \/ CaptureMark(c) \/ CaptureFail(c)
      BY <2>4, <3>1, <3>6 DEF CaptureRead, CaptureMark, CaptureFail, Write, NoWrite, MayUncapture
    <3>7. CASE EnforcePending(c) \/ EnforceDone(c) \/ EnforceFailed(c) \/ EnforceRetain(c)
      <4>1. ~RefundedForGood(b)
        BY <3>2, <3>7 DEF EnforcePending, EnforceDone, EnforceFailed, EnforceRetain, Refunding
      <4>2. EnforcePending(c) \/ EnforceFailed(c) => row'[b].balance = row[b].balance
        BY <2>4 DEF EnforcePending, EnforceFailed, Write
      <4>3. EnforceDone(c) => row'[b].balance = row[b].balance
        BY <2>4 DEF EnforceDone, Write
      <4>4. EnforceRetain(c) => row'[b].balance = row[b].balance
        BY <2>4 DEF EnforceRetain, Write
      <4>5. QED BY <3>7, <4>1, <4>2, <4>3, <4>4
    <3>8. QED
      BY <1>2, <3>3, <3>4, <3>5, <3>6, <3>7 DEF CallWrites
  <2>5. QED BY <2>3, <2>4
<1>3. ASSUME NEW x \in Bookings, Reopen(x) \/ PatchCanceled(x) \/ ConfirmHold(x) PROVE Kept
  BY <1>3 DEF Reopen, PatchCanceled, ConfirmHold, Write
<1>4. ASSUME NEW e \in events, Receive(e) PROVE Kept
  <2>1. e.booking \in Bookings /\ e.kind \in EventKinds
    BY DEF Event, PaymentsTypeOK
  <2>2. CASE e.booking # b
    <3>1. row'[b] = row[b]
      BY <1>4, <2>1, <2>2 DEF Receive, Write
    <3>2. QED BY <1>1, <3>1
  <2>3. CASE e.booking = b
    <3>1. row'[b] = Applied(row[b], e.kind)
      BY <1>4, <2>3 DEF Receive, Write
    <3>2. CapturedForGood(b) => e.kind \notin BeforeCapture
      BY <2>3 DEF CapturedForGood
    <3>3. RefundedForGood(b) => e.kind \notin BeforeRefund
      BY <2>3 DEF RefundedForGood
    <3>4. QED
      BY <2>1, <3>1, <3>2, <3>3 DEF Applied, DepositSucceeded, HoldCapturable,
           HoldSucceeded, HoldFailed, RefundUpdated, EventKinds, BeforeCapture, BeforeRefund
  <2>4. QED BY <2>2, <2>3
<1>5. CASE PassRefund \/ PassBalance
  <2>1. pass # PassIdle /\ pass.booking \in Bookings
    BY <1>5, PassTyped DEF PassRefund, PassBalance, PassIdle, Passing
  <2>2. CASE pass.booking # b
    <3>1. row'[b] = row[b]
      BY <1>5, <2>1, <2>2 DEF PassRefund, PassBalance, Write, NoWrite
    <3>2. QED BY <1>1, <3>1
  <2>3. CASE pass.booking = b /\ PassRefund
    <3>1. RefundedForGood(b) => pass.seen = "succeeded"
      BY <2>1, <2>3 DEF PassRefund, RefundedForGood
    <3>2. QED
      BY <2>3, <3>1 DEF PassRefund, Write
  <2>4. CASE pass.booking = b /\ PassBalance
    <3>1. CapturedForGood(b) => pass.seen = "succeeded"
      BY <2>1, <2>4 DEF PassBalance, CapturedForGood
    <3>2. QED
      BY <2>4, <3>1 DEF PassBalance, Write, NoWrite, Reconciled
  <2>5. QED BY <1>5, <2>2, <2>3, <2>4
<1>6. QED
  BY <1>1, <1>2, <1>3, <1>4, <1>5, RowFrame DEF OtherWrites

(* No step writes over a captured balance, or a refunded deposit, once       *)
(* nothing older is under way.                                               *)
MovedMoneyIsKept ==
  [][\A b \in Bookings : /\ CapturedForGood(b) => CapturedForGood(b)'
                         /\ RefundedForGood(b) => RefundedForGood(b)']_vars

(* So it is: of what begins after the row has come to agree with Stripe, an  *)
(* authorization, a completion, a cancelation, a webhook or a reconciliation *)
(* pass, nothing makes it disagree again.  What is under way is the only     *)
(* danger, and BalancesConverge and RefundsConverge have only that to wait   *)
(* for.                                                                      *)
THEOREM MovedMoneyStays == Spec => MovedMoneyIsKept
<1>1. ASSUME IInv, [Next]_vars
      PROVE  \A b \in Bookings : /\ CapturedForGood(b) => CapturedForGood(b)'
                                 /\ RefundedForGood(b) => RefundedForGood(b)'
  <2> SUFFICES ASSUME NEW b \in Bookings
               PROVE  /\ CapturedForGood(b) => CapturedForGood(b)'
                      /\ RefundedForGood(b) => RefundedForGood(b)'
    OBVIOUS
  <2>1. CASE UNCHANGED vars
    BY <2>1 DEF vars, CapturedForGood, RefundedForGood
  <2>2. CASE Next
    <3>1. PaymentsTypeOK /\ AnswersAreFirst
      BY <1>1 DEF IInv, Knowledge
    <3>2. Onward
      BY <2>2, <3>1, StripeMoves
    <3>3. CapturedForGood(b) => CapturedForGood(b)'
      <4> SUFFICES ASSUME CapturedForGood(b) PROVE CapturedForGood(b)'
        OBVIOUS
      <4>1. stripe'[b].hold = "succeeded"
        BY <3>2 DEF Onward, Ended, CapturedForGood
      <4>2. row'[b].balance = "captured"
        BY <2>2, <3>1, RowsKeepMoved
      <4>3. \A e \in events' : e.booking = b => e.kind \notin BeforeCapture
        BY <2>2, <3>1, NoOlderNews DEF CapturedForGood
      <4>4. \A c \in Calls : call'[c] # Idle /\ call'[c].booking = b => ~MayUncapture(call'[c])
        BY <2>2, <3>1, CallsLeaveCaptured
      <4>5. pass' # PassIdle /\ pass'.booking = b /\ pass'.at = "balance_write"
              => pass'.seen = "succeeded"
        BY <2>2, <3>1, PassSeesMoved
      <4>6. QED
        BY <4>1, <4>2, <4>3, <4>4, <4>5 DEF CapturedForGood, MayUncapture
    <3>4. RefundedForGood(b) => RefundedForGood(b)'
      <4> SUFFICES ASSUME RefundedForGood(b) PROVE RefundedForGood(b)'
        OBVIOUS
      <4>1. stripe'[b].refund = "succeeded"
        BY <3>2 DEF Onward, RefundedForGood
      <4>2. row'[b].refund = "succeeded"
        BY <2>2, <3>1, RowsKeepMoved
      <4>3. \A e \in events' : e.booking = b => e.kind \notin BeforeRefund
        BY <2>2, <3>1, NoOlderNews DEF RefundedForGood
      <4>4. \A c \in Calls : call'[c] # Idle /\ call'[c].booking = b => call'[c].at \notin Refunding
        BY <2>2, <3>1, CallsLeaveRefunded
      <4>5. pass' # PassIdle /\ pass'.booking = b /\ pass'.at = "refund_write"
              => pass'.seen = "succeeded"
        BY <2>2, <3>1, PassSeesMoved
      <4>6. QED
        BY <4>1, <4>2, <4>3, <4>4, <4>5 DEF RefundedForGood
    <3>5. QED BY <3>3, <3>4
  <2>3. QED BY <1>1, <2>1, <2>2
<1>2. QED
  BY <1>1, IInvHolds, PTL DEF Spec, MovedMoneyIsKept

-----------------------------------------------------------------------------
(* Rows that starve reconciliation *)

(* A job that is done and paid for, with nothing under way for it: a row     *)
(* that a pass has nothing to do for, and selects, because it has an intent. *)
Finished(a) ==
  /\ row[a].status = "completed" /\ row[a].balance = "captured" /\ row[a].intent
  /\ ~RefundIsOpen(a) /\ stripe[a].refund # "pending"
  /\ \A e \in events : e.booking # a
  /\ \A c \in Calls : call[c] # Idle => call[c].booking # a

(* As many such rows as a pass takes, all of them written before any other,  *)
(* and the pass at them, or about to be.                                     *)
Starves(S) ==
  /\ Cardinality(S) >= Batch
  /\ \A a \in S : Finished(a)
  /\ \A a \in S, b \in Bookings \ S : <<a, b>> \in older
  /\ batch \subseteq S /\ pass = PassIdle

(* A step that is about booking x changes nothing of another booking, but    *)
(* for the order of the rows, in which x becomes the last.                   *)
About(x) ==
  /\ \A a \in Bookings \ {x} : row'[a] = row[a] /\ stripe'[a] = stripe[a]
  /\ older' = older \/ older' = Touched(x)
  /\ \A e \in events' \ events : e.booking = x
  /\ \A c \in Calls : call'[c] = call[c] \/ call'[c] = Idle \/ call'[c].booking = x
  /\ UNCHANGED <<batch, pass>>

LEMMA WriteAbout ==
  ASSUME PaymentsTypeOK, NEW x \in Bookings, NEW r, Write(x, r) \/ NoWrite
  PROVE  /\ \A a \in Bookings \ {x} : row'[a] = row[a]
         /\ older' = older \/ older' = Touched(x)
  BY DEF PaymentsTypeOK, Write, NoWrite

LEMMA GotoAbout ==
  ASSUME PaymentsTypeOK, NEW c \in Calls, NEW x, NEW at, NEW seen,
         Goto(c, at, x, seen) \/ Return(c)
  PROVE  \A d \in Calls : call'[d] = call[d] \/ call'[d] = Idle \/ call'[d].booking = x
  BY DEF PaymentsTypeOK, Goto, Return, At

LEMMA HoldAbout ==
  ASSUME PaymentsTypeOK, NEW x \in Bookings, NEW h, Hold(x, h)
  PROVE  /\ \A a \in Bookings \ {x} : stripe'[a] = stripe[a]
         /\ \A e \in events' \ events : e.booking = x
  BY DEF PaymentsTypeOK, Hold, HoldEvents

(* A call is about the booking that it is for. *)
LEMMA CallAbout ==
  ASSUME PaymentsTypeOK, NEW c \in Calls,
         Authorize(c) \/ Capture(c) \/ Cancelation(c) \/ CallFails(c) \/ NoAnswer(c)
  PROVE  call[c] # Idle /\ call[c].booking \in Bookings /\ About(call[c].booking)
<1> DEFINE x == call[c].booking
<1>0. call[c] # Idle
  <2>1. CASE AuthSync(c) \/ AuthWrite(c) \/ AuthNoCard(c) \/ AuthRecord(c)
    BY <2>1 DEF AuthSync, AuthWrite, AuthNoCard, AuthRecord, Idle
  <2>2. CASE AuthCreate(c)
    BY <2>2 DEF AuthCreate, Idle
  <2>3. CASE Capture(c)
    BY <2>3 DEF Capture, Complete, CaptureRead, CaptureLook, CaptureCall, CaptureCheck,
           CaptureMark, CaptureFail, Idle
  <2>4. CASE Cancel(c) \/ Enforce(c) \/ EnforcePending(c) \/ EnforceDone(c) \/ EnforceFailed(c)
        \/ EnforceRetain(c)
    BY <2>4 DEF Cancel, Enforce, EnforcePending, EnforceDone, EnforceFailed, EnforceRetain, Idle
  <2>5. CASE EnforceCall(c)
    BY <2>5 DEF EnforceCall, Idle
  <2>6. CASE CallFails(c) \/ NoAnswer(c)
    BY <2>6 DEF CallFails, NoAnswer, Idle
  <2>7. QED BY <2>1, <2>2, <2>3, <2>4, <2>5, <2>6 DEF Authorize, Cancelation
<1>1. x \in Bookings
  BY <1>0, BusyTyped, IdleIsIdle
<1>2. (\E r : Write(x, r)) \/ NoWrite
  <2>1. CASE AuthSync(c) \/ AuthWrite(c) \/ AuthNoCard(c) \/ AuthRecord(c)
    BY <2>1 DEF AuthSync, AuthWrite, AuthNoCard, AuthRecord, NoWrite
  <2>2. CASE AuthCreate(c)
    BY <2>2 DEF AuthCreate, NoWrite
  <2>3. CASE Capture(c)
    BY <2>3 DEF Capture, Complete, CaptureRead, CaptureLook, CaptureCall, CaptureCheck,
           CaptureMark, CaptureFail, Transition, NoWrite
  <2>4. CASE Cancel(c) \/ Enforce(c) \/ EnforcePending(c) \/ EnforceDone(c) \/ EnforceFailed(c)
        \/ EnforceRetain(c)
    BY <2>4 DEF Cancel, Enforce, EnforcePending, EnforceDone, EnforceFailed, EnforceRetain, Transition, NoWrite
  <2>5. CASE EnforceCall(c)
    BY <2>5 DEF EnforceCall, NoWrite
  <2>6. CASE CallFails(c) \/ NoAnswer(c)
    BY <2>6 DEF CallFails, NoAnswer, NoWrite
  <2>7. QED BY <2>1, <2>2, <2>3, <2>4, <2>5, <2>6 DEF Authorize, Cancelation
<1>3. (\E at, seen : Goto(c, at, x, seen)) \/ Return(c)
  <2>1. CASE AuthSync(c) \/ AuthWrite(c) \/ AuthNoCard(c) \/ AuthRecord(c)
    BY <2>1 DEF AuthSync, AuthWrite, AuthNoCard, AuthRecord
  <2>2. CASE AuthCreate(c)
    BY <2>2 DEF AuthCreate
  <2>3. CASE Capture(c)
    BY <2>3 DEF Capture, Complete, CaptureRead, CaptureLook, CaptureCall, CaptureCheck,
           CaptureMark, CaptureFail, Transition
  <2>4. CASE Cancel(c) \/ Enforce(c) \/ EnforcePending(c) \/ EnforceDone(c) \/ EnforceFailed(c)
        \/ EnforceRetain(c)
    BY <2>4 DEF Cancel, Enforce, EnforcePending, EnforceDone, EnforceFailed, EnforceRetain, Transition
  <2>5. CASE EnforceCall(c)
    BY <2>5 DEF EnforceCall
  <2>6. CASE CallFails(c) \/ NoAnswer(c)
    BY <2>6 DEF CallFails, NoAnswer
  <2>7. QED BY <2>1, <2>2, <2>3, <2>4, <2>5, <2>6 DEF Authorize, Cancelation
<1>4. UNCHANGED <<batch, pass>>
  <2>1. CASE AuthSync(c) \/ AuthWrite(c) \/ AuthNoCard(c) \/ AuthRecord(c)
    BY <2>1 DEF AuthSync, AuthWrite, AuthNoCard, AuthRecord, OnlyCalls
  <2>2. CASE AuthCreate(c)
    BY <2>2 DEF AuthCreate, OnlyCalls
  <2>3. CASE Capture(c)
    BY <2>3 DEF Capture, Complete, CaptureRead, CaptureLook, CaptureCall, CaptureCheck,
           CaptureMark, CaptureFail, OnlyCalls
  <2>4. CASE Cancel(c) \/ Enforce(c) \/ EnforcePending(c) \/ EnforceDone(c) \/ EnforceFailed(c)
        \/ EnforceRetain(c)
    BY <2>4 DEF Cancel, Enforce, EnforcePending, EnforceDone, EnforceFailed, EnforceRetain, OnlyCalls
  <2>5. CASE EnforceCall(c)
    BY <2>5 DEF EnforceCall, OnlyCalls
  <2>6. CASE CallFails(c) \/ NoAnswer(c)
    BY <2>6 DEF CallFails, NoAnswer, OnlyCalls
  <2>7. QED BY <2>1, <2>2, <2>3, <2>4, <2>5, <2>6 DEF Authorize, Cancelation
<1>5. /\ \A a \in Bookings \ {x} : stripe'[a] = stripe[a]
      /\ \A e \in events' \ events : e.booking = x
  <2>1. CASE AuthCreate(c)
    BY <2>1 DEF AuthCreate, NoStripe, HoldEvents, PaymentsTypeOK
  <2>2. CASE CaptureCall(c)
    BY <1>1, <2>2, HoldAbout DEF CaptureCall, NoStripe
  <2>3. CASE EnforceCall(c)
    BY <2>3 DEF EnforceCall, NoStripe, RefundEvent, PaymentsTypeOK
  <2>4. CASE ~AuthCreate(c) /\ ~CaptureCall(c) /\ ~EnforceCall(c)
    BY <2>4 DEF Authorize, AuthSync, AuthWrite, AuthNoCard, AuthRecord,
         Capture, Complete, CaptureRead, CaptureLook, CaptureCheck,
         CaptureMark, CaptureFail, Cancelation, Cancel, Enforce, EnforcePending,
         EnforceDone, EnforceFailed, EnforceRetain, CallFails, NoAnswer, NoStripe
  <2>5. QED BY <2>1, <2>2, <2>3, <2>4
<1>6. /\ \A a \in Bookings \ {x} : row'[a] = row[a]
      /\ older' = older \/ older' = Touched(x)
  <2>1. CASE NoWrite
    BY <2>1 DEF NoWrite
  <2>2. CASE \E r : Write(x, r)
    <3>1. PICK r : Write(x, r)
      BY <2>2
    <3>2. QED BY <1>1, <3>1, WriteAbout
  <2>3. QED BY <1>2, <2>1, <2>2
<1>7. \A d \in Calls : call'[d] = call[d] \/ call'[d] = Idle \/ call'[d].booking = x
  <2>1. CASE Return(c)
    BY <2>1, GotoAbout
  <2>2. CASE \E at, seen : Goto(c, at, x, seen)
    <3>1. PICK at, seen : Goto(c, at, x, seen)
      BY <2>2
    <3>2. QED BY <3>1, GotoAbout
  <2>3. QED BY <1>3, <2>1, <2>2
<1>8. About(x)
  BY <1>4, <1>5, <1>6, <1>7 DEF About
<1>9. QED BY <1>0, <1>1, <1>8

(* So are the steps that begin a call, and those of admins, Stripe and time. *)
LEMMA OthersAbout ==
  ASSUME PaymentsTypeOK, NEW x \in Bookings,
         \/ \E c \in Calls : BeginAuthorize(c, x) \/ BeginComplete(c, x) \/ BeginCancel(c, x)
         \/ Reopen(x) \/ PatchCanceled(x) \/ ConfirmHold(x)
         \/ CustomerActs(x) \/ HoldExpires(x) \/ RefundSettles(x) \/ Tick(x)
         \/ \E e \in events : e.booking = x /\ (Receive(e) \/ LoseEvent(e))
  PROVE  About(x)
<1>1. ASSUME NEW c \in Calls, BeginAuthorize(c, x) \/ BeginComplete(c, x) \/ BeginCancel(c, x)
      PROVE  About(x)
  BY <1>1, GotoAbout
  DEF BeginAuthorize, BeginComplete, BeginCancel, NoWrite, NoStripe, OnlyCalls, About
<1>2. CASE Reopen(x) \/ PatchCanceled(x) \/ ConfirmHold(x)
  BY <1>2, WriteAbout DEF Reopen, PatchCanceled, ConfirmHold, NoStripe, OnlyCalls, About
<1>3. CASE CustomerActs(x) \/ HoldExpires(x)
  BY <1>3, HoldAbout DEF CustomerActs, HoldExpires, OnlyStripe, About
<1>4. CASE RefundSettles(x)
  BY <1>4 DEF RefundSettles, RefundEvent, OnlyStripe, About, PaymentsTypeOK
<1>5. CASE Tick(x)
  BY <1>5 DEF Tick, About
<1>6. ASSUME NEW e \in events, e.booking = x, Receive(e) \/ LoseEvent(e)
      PROVE  About(x)
  BY <1>6, WriteAbout DEF Receive, LoseEvent, About
<1>7. QED BY <1>1, <1>2, <1>3, <1>4, <1>5, <1>6

(* What is about another booking leaves the starving as it is. *)
LEMMA AboutOthers ==
  ASSUME PaymentsTypeOK, NEW S \in SUBSET Bookings, Starves(S),
         NEW x \in Bookings \ S, About(x)
  PROVE  Starves(S)'
<1>1. ASSUME NEW a \in S PROVE Finished(a)'
  <2>1. row'[a] = row[a] /\ stripe'[a] = stripe[a]
    BY DEF About
  <2>2. \A e \in events' : e.booking # a
    BY DEF About, Starves, Finished
  <2>3. \A c \in Calls : call'[c] # Idle => call'[c].booking # a
    BY DEF About, Starves, Finished
  <2>4. QED
    BY <2>1, <2>2, <2>3 DEF Starves, Finished, RefundIsOpen
<1>2. ASSUME NEW a \in S, NEW b \in Bookings \ S PROVE <<a, b>> \in older'
  <2>1. <<a, b>> \in older
    BY DEF Starves
  <2>2. CASE older' = Touched(x) /\ b = x
    BY <2>2 DEF Touched
  <2>3. CASE older' = Touched(x) /\ b # x
    <3>1. x \notin {<<a, b>>[1], <<a, b>>[2]}
      BY <2>3
    <3>2. QED BY <2>1, <2>3, <3>1 DEF Touched
  <2>4. QED BY <2>1, <2>2, <2>3 DEF About
<1>3. batch' \subseteq S /\ pass' = PassIdle /\ Cardinality(S) >= Batch
  BY DEF About, Starves
<1>4. QED
  BY <1>1, <1>2, <1>3, Zenon DEF Starves

(* A pass takes rows that starve the others, and does nothing for them. *)
LEMMA PassStarves ==
  ASSUME PaymentsTypeOK, NEW S \in SUBSET Bookings, Starves(S), Reconcile \/ PassFails
  PROVE  Starves(S)'
<1>1. CASE BeginPass
  <2>1. Oldest \subseteq S
    <3> SUFFICES ASSUME NEW b \in Oldest, b \notin S PROVE FALSE
      OBVIOUS
    <3> DEFINE Before == { a \in Candidates : <<a, b>> \in older }
    <3>1. b \in Bookings /\ Cardinality(Before) < Batch
      BY DEF Oldest, Candidates
    <3>2. S \subseteq Before
      BY <3>1 DEF Starves, Finished, Candidates
    <3>3. IsFiniteSet(Before)
      BY FS_Subset, ConstantsAssumption DEF Candidates
    <3>4. /\ IsFiniteSet(S) /\ Cardinality(S) \in Nat /\ Cardinality(Before) \in Nat
          /\ Cardinality(S) <= Cardinality(Before)
      BY <3>2, <3>3, FS_Subset, FS_CardinalityType
    <3>5. Cardinality(S) >= Batch
      BY DEF Starves
    <3> HIDE DEF Before
    <3>6. QED BY <3>1, <3>4, <3>5, ConstantsAssumption
  <2>2. QED
    BY <1>1, <2>1 DEF BeginPass, Starves, Finished, RefundIsOpen
<1>2. ASSUME NEW a \in Bookings, PassRead(a) PROVE Starves(S)'
  <2>1. a \in S /\ row[a].balance = "captured" /\ ~RefundIsOpen(a)
    BY <1>2 DEF PassRead, Starves, Finished
  <2>2. pass' = PassIdle /\ batch' \subseteq batch
    BY <1>2, <2>1 DEF PassRead, AfterRefund, BalanceIsOpen
  <2>3. QED
    BY <1>2, <2>2 DEF PassRead, Starves, Finished, RefundIsOpen
<1>3. ~PassLook /\ ~PassRefund /\ ~PassBalance /\ ~PassFails
  BY DEF Starves, PassLook, PassRefund, PassBalance, PassFails, PassIdle
<1>4. QED
  BY <1>1, <1>2, <1>3 DEF Reconcile

(* Only an admin who reopens or cancels one of them ends it. *)
StarvedStay ==
  [][\A S \in SUBSET Bookings :
       Starves(S) => Starves(S)' \/ \E a \in S : Reopen(a) \/ PatchCanceled(a)]_vars

(* What the counterexample of BalancesConverge shows for one row and a batch *)
(* of one holds for any batch: finished rows that fill it, and are older     *)
(* than the others, are taken by every pass, and no call, webhook, pass or   *)
(* answer of Stripe ends that, whatever becomes of the other rows.           *)
THEOREM FinishedRowsStarve == Spec => StarvedStay
<1>1. ASSUME IInv, [Next]_vars
      PROVE  \A S \in SUBSET Bookings :
               Starves(S) => Starves(S)' \/ \E a \in S : Reopen(a) \/ PatchCanceled(a)
  <2> SUFFICES ASSUME NEW S \in SUBSET Bookings, Starves(S),
                      ~\E a \in S : Reopen(a) \/ PatchCanceled(a)
               PROVE  Starves(S)'
    OBVIOUS
  <2>1. PaymentsTypeOK
    BY <1>1 DEF IInv
  <2>2. \A a \in S : stripe[a].hold = "succeeded"
    BY <1>1 DEF IInv, Knowledge, RowFits, Starves, Finished
  <2>3. ASSUME NEW c \in Calls,
               Authorize(c) \/ Capture(c) \/ Cancelation(c) \/ CallFails(c) \/ NoAnswer(c)
        PROVE  Starves(S)'
    <3>1. call[c].booking \in Bookings \ S /\ About(call[c].booking)
      BY <2>1, <2>3, CallAbout DEF Starves, Finished
    <3>2. QED BY <2>1, <3>1, AboutOthers
  <2>4. ASSUME NEW x \in Bookings,
               \/ \E c \in Calls :
                    BeginAuthorize(c, x) \/ BeginComplete(c, x) \/ BeginCancel(c, x)
               \/ Reopen(x) \/ PatchCanceled(x) \/ ConfirmHold(x)
               \/ CustomerActs(x) \/ HoldExpires(x) \/ RefundSettles(x)
        PROVE  Starves(S)'
    <3>1. x \notin S
      BY <2>2, <2>4 DEF BeginAuthorize, AuthorizationDue, BeginComplete, BeginCancel, ConfirmHold,
           CustomerActs, HoldExpires, RefundSettles, Starves, Finished
    <3>2. QED BY <2>1, <2>4, <3>1, OthersAbout, AboutOthers
  <2>5. ASSUME NEW x \in Bookings, Tick(x) PROVE Starves(S)'
    BY <2>5 DEF Tick, Starves, Finished, RefundIsOpen
  <2>6. ASSUME NEW e \in events, Receive(e) \/ LoseEvent(e) PROVE Starves(S)'
    <3>1. e.booking \in Bookings \ S
      BY <2>1 DEF PaymentsTypeOK, Event, Starves, Finished
    <3>2. QED BY <2>1, <2>6, <3>1, OthersAbout, AboutOthers
  <2>7. CASE UNCHANGED vars
    BY <2>7 DEF vars, Starves, Finished, RefundIsOpen
  <2>8. QED
    BY <1>1, <2>1, <2>3, <2>4, <2>5, <2>6, <2>7, PassStarves DEF Next
<1>2. QED
  BY <1>1, IInvHolds, PTL DEF Spec, StarvedStay

=============================================================================
