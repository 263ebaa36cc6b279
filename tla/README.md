# Servelink API: formal models

Servelink books home cleaning jobs. A customer gets an estimate, picks a
franchise owner (FO) and a window, holds the window for 60 seconds, pays a
deposit and confirms; or the booking is scheduled without an FO and *dispatched*,
by offers to one FO after another. The rest of the price is held on the card on the
last day and captured after the job; a cancelation refunds the deposit or keeps a
fee; FOs are paid in batches. A customer may have the visit booked from a recurring
plan. The API (`src/services/api`, NestJS over Prisma and PostgreSQL) keeps all state
that matters; the web and admin applications are pages over it.

Bugs here do not come from one function. They come from two requests whose
statements interleave, from a timer that acts on what it read a moment ago, from
an answer of Stripe that is lost or late, from a cache or a lock that outlives its
reason. That is what the modules below model: nearly every one of their actions is
one SQL statement, or one request to Stripe, of the code.

- [Inventory](#inventory)
- [Modules](#modules)
- [Runs](#runs)
- [Where the code does not do what it says](#where-the-code-does-not-do-what-it-says)
- [What the models found on the way](#what-the-models-found-on-the-way)
- [Fairness](#fairness)
- [Proofs](#proofs)
- [What the models leave out](#what-the-models-leave-out)
- [Not modelled](#not-modelled)

Paths are relative to `src/services/api/src/modules/` unless they start with `src/`.

## Inventory

### State, operations and interactions

| Component | State | Operations | Talks to |
|---|---|---|---|
| Slot holds (`slot-holds/`) | `BookingSlotHold` rows: booking, FO, window, expiry; exclusion constraint on (FO, window) | createHold, validateHold, releaseHold, cleanup every 60 s | reads `Booking`; consumed by the confirmation |
| Confirmation (`bookings/bookings.service.ts`) | `Booking.status`, `foId`, window; `BookingEvent` | confirmBookingFromHold: one transaction | deletes the hold row |
| Booking life cycle (`bookings/`) | `Booking.status` through a state machine | schedule, assign, start, complete, cancel, reopen; PATCH | dispatch (after schedule), ledger and capture (complete), refund (cancel) |
| Dispatch (`dispatch/`) | `BookingOffer` rows, `Booking.dispatchLockedAt`, a result cache in the process | dispatch run, accept, decline, expiry sweep (1 min), SLA sweep (1 min) | writes `Booking.status`, `foId` |
| Dispatch operations (`bookings/dispatch-ops.service.ts`, `admin/bookings/`, `dispatch/dispatch-ops.service.ts`) | the same columns | manualAssign, reassignBooking, releaseDispatchLock, triggerRedispatch | the same |
| Public booking (`public-booking-orchestrator/`) | deposit columns of `Booking` | prepare, confirm with its deposit gate, charge by card, recovery after an expired hold | Stripe, holds, confirmation, webhooks |
| Payment life cycle (`bookings/payment-lifecycle/`, `billing/payment-lifecycle-*`) | balance, refund and fee columns of `Booking` | authorization (cron), capture, refund or retention, reconciliation (cron) | Stripe, webhooks |
| Stripe webhooks (`bookings/stripe/`, `billing/stripe.webhook.*`) | `StripeWebhookReceipt` | one handler for each event | `Booking`, ledger |
| Refunds (`billing/*refund*`) | `RefundIntent`, a job queue | create, retry, queue worker, passes of cron and admins | Stripe |
| Ledger (`ledger/`) | `JournalEntry`, `JournalLine`, append-only, unique idempotency keys | postEntry, recognizeRevenue, reverse | called by bookings, webhooks, refunds, payouts |
| Payouts (`payouts/`) | `PayoutBatch`, `PayoutLine` | preview, lockBatch, markExecuted | ledger |
| Recurring plans (`recurring/`) | `RecurringPlan`, `RecurringOccurrence` | create, worker run every 30 s, patch, skip, pause, resume, cancel | createBooking |
| Workflow engine (`workflow/`) | `WorkflowExecution`, its steps, approvals, timers | run, approve, reject, wake, cancel | started by nobody |
| Estimating, pricing, crew capacity | tables of numbers | pure functions | answers used everywhere |
| System test pipeline, analytics, encyclopedia, authority, trust, tenants, auth, geocoding, SMS | their own tables or files | ingestion, aggregation, editing, reports | read the others |

`PROJECT.json` lists every component with its files, and for each one that has no
module the reason.

### What is hard, and what makes each component correct

**Slot holds and confirmation.** Two customers want one FO at overlapping times;
holds expire, are cleaned up, released, or used while a confirmation is running;
the confirmation reads the calendar four statements before it commits, under READ
COMMITTED. Correct means: an FO is never sold twice for the same time, a booking
is sold once, a hold sells one booking, a sale is made while its hold lives (give
or take a transaction timeout), and an abandoned hold frees its window.

**Calendar routes.** Any transition may bring a start time. It, and assignment, look
for a free window outside any transaction and write later, and not the window they
looked for. Correct would mean that they too never double-book; they do not (below).
What they do keep is that a late write misses a booking that has moved on.

**Dispatch.** There is no transaction around a run, a decline or a sweep: each
statement commits alone. FOs answer late and together, sweeps act on old reads,
admins write by id, the process may die with the lock set. Correct means: a
booking with an FO is given to another one by an admin only, a started job is not taken
from its FO, late writes do not drag a booking back into dispatch, the lock is released,
every open offer ends, and a booking whose offers have ended is offered again.

**Deposit.** The customer has two tabs, Stripe tells of successes and failures by
webhook in any order, and every call writes by id what it read before it asked
Stripe. Correct means: nobody gets a crew without having paid, a deposit that
counts as paid has been, and no payment is forgotten.

**Payment life cycle.** Four services and six webhooks write the same columns by id.
Correct means: a row says captured or refunded only of money that has moved, a
booking canceled after it had a start is settled, no hold on a card is forgotten, and
whatever was lost on the way, rows and Stripe agree in the end.

**Refunds.** A queue worker, passes and admins execute the same intents without a
guard; Stripe's idempotency key is what stands between them and a second refund.
Correct means: an intent is refunded once, its status says what was done, it is not
left executing, and a pending one is taken.

**Ledger and payouts.** Guards are reads before writes; a batch is claimed in one
statement and executed in another. Correct means: an FO is not paid more than it is
owed, a batch is paid entirely or not at all and once.

**Recurring plans.** Runs of the worker overlap, a booking is created in one
transaction and linked in another, and customers write the row meanwhile. Correct
means: a visit is booked once, no booking is forgotten, a visit that is dropped stays
so, and a booking that could not be linked is linked in the end.

The 40 hazards in `PROJECT.json` are the same list at the lines where they bite,
each with the properties that would catch it, or the reason why none does.

## Modules

```
FoCalendar                        abstract: who occupies an FO when
   ^ implemented by
SlotHolds  <--- extends --- CalendarRoutes
   ^                            ^
SlotHoldsProofs <- extends - CalendarRoutesProofs

RefundLife      PayoutBook      VisitBook              abstract
   ^               ^               ^     implemented by
Refunds         Payouts      RecurringVisits      Dispatch   PublicDeposit   PaymentLifecycle
   ^               ^               ^                 ^             ^                 ^
   each with its MC module and its Proofs module
```

The six modules in the row of Refunds speak of other columns than those above and than each
other, but for `Booking.status`, of which each models the part that it writes or asks
for: Dispatch has its own actions for the routes of CalendarRoutes, PublicDeposit ends
where the deposit is paid and the booking assigned, PaymentLifecycle begins there.
Payouts starts from journal entries. A composition would multiply the state spaces and
add no step: no action of one reads a column of another that the other's model does not
leave open.

### FoCalendar

The promise to an FO. `calendar[b]` is the slot a booking occupies, `spent` the
bookings that can no longer be sold. Two actions: `Sell` puts an unspent booking
on a free slot, `Leave` takes one off for good.

### SlotHolds

`slot-holds.service.ts`, `slot-hold-cleanup.worker.ts` and
`confirmBookingFromHold`, one action per SQL statement.

| Variable | Code |
|---|---|
| `status`, `fo`, `window` | columns of `Booking` |
| `holds`, `minted` | rows of `BookingSlotHold`, ids already used |
| `sales` | `BookingEvent` rows pending_payment -> assigned |
| `req[r]` | the locals of a running request, and its place in the transaction |
| `now` | the clock |

| Actions | Code |
|---|---|
| `BeginCreate`, `CreatePurge`, `CreateCheck`, `CreateInsert`, `CreateRefused` | createHold: checks, deleteMany expired, conflict query, insert and commit, or exclusion violation |
| `BeginConfirm`, `ConfirmCalendar`, `ConfirmAssigned`, `ConfirmWrite`, `ConfirmConsume`, `ConfirmHoldGone` | confirmBookingFromHold: reads and checks, two conflict queries, guarded update, event with delete of the hold and commit, or P2025 |
| `BeginRelease`, `Release`, `CleanupExpired` | releaseHold, the worker |
| `Abort` | a refusal, crash, lost connection or timeout: Postgres rolls back |
| `Start`, `Complete`, `Cancel`, `Tick` | the rest of a booking's life, time |

How Postgres is modelled. A transaction's writes become visible when it commits, so
the writes of a confirmation are all made by its last action; until then the
updated row is locked (`BookingLocked`). A row that a transaction has deleted is
locked until it ends (`HoldLocked`), and the exclusion constraint (`Excluded`)
waits for such rows and refuses others. A request older than Prisma's transaction
timeout runs no further statement (`InTime`).

`Calendar == INSTANCE FoCalendar WITH calendar <- .., spent <- ..` is the
refinement mapping: a booking is on the calendar when its status is one of the
four that the conflict query asks for and it has an FO and a window.

### CalendarRoutes

Extends SlotHolds with the routes that write the calendar without a hold.

| Actions | Code |
|---|---|
| `BeginMove`, `CommitMove` | transitionBooking with a start time: POST /:id/schedule, and any transition by POST /:id/transition, so that a job under way is moved when it is completed, canceled or reopened |
| `BeginAssign`, `CommitAssign` | assignBooking, of a booking without an FO or from one FO to another |
| `Schedule`, `Reopen` (and `Start`, `Complete`, `Cancel` of SlotHolds) | transitionBooking without a start time: the window stays, nobody looks |

Each call reads and looks in one step and writes in another, guarded exactly as its
`updateWhere` is. It looks for `Asked`, the estimated hours from the start on; what it
writes is `Patch` (computeScheduleWritePatch): the old end if it is after the new start, else
the wall-clock time of the estimate. An assignment looks from the start of the window and
keeps its end. `Steps` are the pairs of getTransition. `keys` are the events with the default
idempotency key `assign:<booking>:<fo>`.

### Dispatch

One booking under dispatch. Bookings are independent of each other there: the
cache key, the lock and every query name one booking.

| Variable | Code |
|---|---|
| `status`, `fo`, `locked` | `Booking.status`, `foId`, `dispatchLockedAt` |
| `offer[f]` | the `BookingOffer` row: status, and whether its window is dormant (no expiry yet), open or over |
| `cached` | the in-process result cache (15 minutes) |
| `proc[p]` | the place of a call or sweep between two statements |

| Actions | Code |
|---|---|
| `DispatchGate`, `DispatchLock`, `DispatchCore`, `DispatchCreate`, `DispatchMark`, `DispatchRelease`, `DispatchFail` | dispatchWithSafety around executeDispatchCore: cache and lock read, lock written, offers read and FOs selected, one insert per FO, booking set to offered, `finally` |
| `BeginAccept`, `AcceptLapsed`, `AcceptRecheck`, `AcceptCommit` | acceptOfferForBooking |
| `BeginDecline`, `DeclineReject`, `DeclineCount`, `Reopen` | the decline controller |
| `BeginSweep`, `SweepExpire`, `SweepActivate`, `SweepCheck`, `Reopen` | expireOffersAndRedispatch with activateNextDormantRoundForBooking |
| `BeginRequeue`, `Requeue` | requeueAssignedBookingsMissingStart |
| `BeginManual`, `ManualRecheck`, `ManualWrite`, `BeginReturn`, `ReturnToQueue`, `ReleaseLock` | manualAssign, reassignBooking, releaseDispatchLock |
| `Schedule`, `Assign`, `Reassign`, `Start`, `Complete`, `Cancel` | bookings.service.ts; assignBooking gives out a booking without an FO (`Assign`) or moves an assigned one to another FO (`Reassign`) |
| `OfferLapses`, `CacheLapses`, `CallFails`, `Crash` | time, failures |

Whom a run selects is left open (`Selections`): any non-empty set of FOs not asked
before, all opened at once (the ranked path) or only the least round (the legacy
path).

### Payouts

`payouts.service.ts` over the part of `ledger.service.ts` that it reads: what FOs
have earned, and what they have been paid.

| Variable | Code |
|---|---|
| `book[b]` | the types of the `JournalEntry` rows of booking b |
| `batch[k]` | the `PayoutBatch` with idempotency key k: status, `executedIdempotencyKey`, its lines |
| `posted[k][f]` | the amount of the entry with key `ledger:payout:<k>:<f>` |
| `paid[f]` | the sum of the PAYOUT debits of f |
| `call[c]` | the place of a call between two statements; `stale` is kept for `LoneExecutionIsCovered` alone |

| Actions | Code |
|---|---|
| `Charge`, `Settle`, `Refund`, `Withdraw`, `Reinstate` | postEntry as called by finalizeBookingBilling and the Stripe webhooks |
| `LockCreate`, `LockPreview`, `LockWrite` | lockBatch: insert of the row, previewEligible, lines or void |
| `BeginExecute`, `Gate`, `Claim` | markExecuted before its transaction: reads, the payable of each FO, the guarded claim |
| `BeginPosting`, `PostLine`, `CommitExecution` | its transaction: advisory lock and lines, re-verification with postEntry for each line, status and commit |
| `CallFails` | an error or a crash at any point |

Amounts are counted in earnings: each booking earns its FO one, which is all that
comparing sums needs. `Payable` is what postEntry computes: credits less debits of
the entries that carry the FO's id. REFUND entries carry none, so a refund does not
lower it; it makes the booking ineligible (`Eligible`), and `Preview` then cuts off
at zero. READ COMMITTED: the lines of a running transaction are in `call[c]` and reach
`posted` and `paid` with its commit. The re-verification, the guard and the insert
of one line read the same sum in a row and are one step (the last read is the one that
decides). A cutoff (`asOf`) in the past is a preview that was read early: the model lets
any time pass between `LockPreview` and `LockWrite`.

The abstract specification is **PayoutBook**: a batch is claimed once, by a key that claims
no other; its lines are written once (`Fill`) and paid once, all together, under the claim
(`Pay`); nothing else moves what an FO has been paid. `Book == INSTANCE PayoutBook WITH
claim <- .., lines <- ..` reads the claim and the lines off the rows of `PayoutBatch`;
`posted` and `paid` are the module's own. `Claim` maps to `Claim`, `LockWrite` to `Fill`,
`CommitExecution` to `Pay`, everything else to a stutter. PayoutBook does not promise that what
is paid has been earned, because the code does not keep that (finding 3).

### PublicDeposit

One public booking, its holds, and the payment intents at Stripe
(`public-booking-deposit.service.ts`, the confirmation of
`public-booking-orchestrator.service.ts`, two webhooks of `stripe-payment.service.ts`).

| Variable | Code |
|---|---|
| `row` | `Booking.status`, `publicDepositStatus`, the deposit's intent, `paymentStatus` |
| `hold` | the `BookingSlotHold` rows of the booking: none, live, expired or gone |
| `intent`, `answer`, `events` | Stripe: intents named by the varying part of their idempotency key, answers it repeats for a key, events on their way |
| `noted` | `BookingEvent` rows "duplicate success suppressed" |
| `run[c]` | where a call is, with the hold, key and intent it has in hand |
| `displaced` | history, for `PaidIsAccountedFor` |

| Actions | Code |
|---|---|
| `BeginPrepare`, `Retrieve`, `Create`, `Record` | preparePublicBookingDeposit: reads, the intent on record, a new one, its update by id |
| `BeginConfirm`, `Gate`, `Retrieve`, `Reset`, `Mark`, `Book`, `Recover` | confirmHold with ensurePublicDepositResolvedBeforeConfirm: reads, the gate's own reads, the verdict on the intent, the guarded success, confirmBookingFromHold, the recovery of an expired hold |
| `Charge`, `ChargeAgain`, `Fail` | chargeOrConfirmWithPaymentMethod |
| `DeliverSuccess`, `DeliverFailure`, `EventLost` | the webhooks |
| `Pay`, `Cancel`, `HoldMoves`, `CallFails` | the browser at Stripe, the dashboard, module SlotHolds, failures |

`Verdict` is the table from the status of an intent to what the call does next;
`Succeeds` is the one guarded write of the component (persistPublicDepositWebhookSuccess).

### PaymentLifecycle

Bookings whose deposit has been paid: the remaining balance, refund or fee.

| Variable | Code |
|---|---|
| `row[b]` | the status, balance, deposit, refund and fee columns of `Booking` |
| `older` | the order of `updatedAt`, by which reconciliation picks |
| `phase[b]` | how far away `scheduledStart` is: over 48 hours, over 24, less, started; or that there is none yet, the deposit being paid before the hold is confirmed |
| `stripe[b]` | what Stripe holds: the intent, the refund, and the answers that it repeats for their keys |
| `events` | events on their way |
| `call[c]`, `batch`, `pass` | where calls and the reconciliation pass are |

| Actions | Code |
|---|---|
| `BeginAuthorize`, `AuthSync`, `AuthWrite`, `AuthNoCard`, `AuthCreate`, `AuthRecord` | remaining-balance-authorization.service.ts |
| `BeginComplete`, `Complete`, `CaptureRead`, `CaptureLook`, `CaptureCall`, `CaptureCheck`, `CaptureMark`, `CaptureFail` | completion, and remaining-balance-capture.service.ts, which it starts and does not wait for |
| `ConfirmHold` | confirmBookingFromHold, as far as it gives the booking its start |
| `BeginCancel`, `Cancel`, `PatchCanceled`, `Enforce`, `EnforcePending`, `EnforceCall`, `EnforceDone`, `EnforceFailed`, `EnforceRetain` | cancelation, and booking-cancellation-payment.service.ts |
| `BeginPass`, `PassRead`, `PassLook`, `PassRefund`, `PassBalance`, `PassFails` | payment-lifecycle-reconciliation.service.ts |
| `Receive`, `LoseEvent` | the webhooks; `Applied` is what each kind writes |
| `CustomerActs`, `HoldExpires`, `RefundSettles`, `Tick`, `CallFails`, `NoAnswer` | bank, Stripe, time, failures |

`NoAnswer` is a request that Stripe has carried out and whose answer does not come;
`CallFails` the death of a call between two statements. `CaptureStep` and `Reconciled` are
the tables from an intent's status to a column.

### Refunds

The intents of one booking and all who execute them.

| Variable | Code |
|---|---|
| `intent[i]`, `retries[i]` | rows of `RefundIntent`; the retries that an admin has recorded |
| `jobs` | attempts left of each job in the queue |
| `paid`, `made[i]`, `known`, `returned` | Stripe: the charge, refunds made for an intent, keys it remembers, money given back |
| `run[c]` | where a worker, pass or admin is, with the list it has read |
| `dropped`, `overlapped`, `lapsed` | history: intents in the hand of a caller that failed, in two hands at once, with a forgotten key |

| Actions | Code |
|---|---|
| `CreateRefundIntent`, `Enqueue`, `NoQueue`, `BeginRetry`, `CommitRetry` | the two admin controllers; the queue exists only with Redis |
| `BeginJob`, `BeginPass` | executeIntentById, runOnce |
| `Mark`, `Look`, `Fail`, `Call`, `Record`, `Throws`, `Refused` | what both do, statement by statement |
| `CustomerPays`, `KeyLapses`, `CallFails` | Stripe, failures |

The abstract specification is **RefundLife**: an intent waits, is refused and retried any
number of times, is given its money once and then only reported, never refused or retried
again. `LifeOf` is the mapping: an intent is `given` from the moment Stripe makes the refund,
whatever the row says, and `done` when the row says executed. What two callers have had in
hand at once is `contested`, and may be given again (`GiveAgain`): that is the exception the
code needs, and RefundLife says that there is no other.

A key is forgotten only when nobody has the intent in hand and no job is left
(`AtRest`): Stripe remembers it for a day, which is longer than any call or job here.

### RecurringVisits

The visit of a plan, from the plan to the booking (`recurring.service.ts`,
`recurring.worker.ts`).

| Variable | Code |
|---|---|
| `plan`, `visit` | `RecurringPlan.status`; the row of `RecurringOccurrence` |
| `made[n]` | the booking of attempt n: the day its fingerprint names |
| `run[r]`, `call[c]` | where runs of the worker and calls of the customer are |
| `moved`, `lost` | history: the customer has moved the visit; bookings whose maker got no answer |

| Actions | Code |
|---|---|
| `Begin`, `Read`, `Reconcile` | the worker's list; processOccurrence up to the claim; reconcileSplitWriteIfPending |
| `Claim`, `Reread`, `Lookup`, `Create`, `CreateThrows` | the claim, the row by its token, findBookingByFingerprintNote, createBooking |
| `Link`, `LinkFails`, `Split`, `SplitFails`, `Fail`, `Dies` | the link, its rollback, the mark in its place, finishOccurrenceFailure, failures |
| `Ask`, `PatchDate`, `Skip`, `SetPlan`, `BeginCancel`, `CancelVisit` | the customer's calls: a read, then a write by id |

The abstract specification is **VisitBook**: never two bookings of the visit for one day, a
booking keeps its day, and the visit is linked to one booking, made before, for ever.
`Create` maps to `Book`; `Link`, and `Reconcile` of a marked booking, map to `Link`; claims,
marks, failures and the customer's calls stutter.

A plan has one visit: createRecurringPlan makes it, and nothing makes a second one.

### Faults

The `Fault...` operators in the modules are the plausible mistakes listed as
mutants in `PROJECT.json`: each stands before the definition it would replace, is
used nowhere, and breaks the property it is listed with.

## Runs

| Run | Instance | Shows |
|---|---|---|
| `SlotHoldsSafety` | 2 requests, 2 bookings, 1 FO, 2 windows that overlap in part, 2 hold ids, clock 0..2 | `TypeOK`, `NoDoubleBooking`, `SoldOnce`, `SaleOnTime`, and that SlotHolds implements FoCalendar |
| `CalendarRoutes` | 1 booking, 2 FOs, windows 0-1, 1-2 and 0-2, 2 estimated hours against 1 of wall-clock time, 1 route call, 1 hold request | `RoutesTypeOK`, `WorkHasFo`, `RunningJobStays`, `HoldsAreFreed` |
| `CalendarRoutesDouble` | 2 bookings, 1 FO, 1 window, 2 route calls | violation of `NoDoubleBooking` |
| `Dispatch` | 1 call at a time and the sweep, 2 FOs of two tiers, 1 crash | `DispatchTypeOK`, `LockHasHolder`, `NeverStolen`, `StartedJobKept`, `LateWritesMiss`, `OpenOffersEnd` |
| `DispatchRedispatch` | the same without a crash | violation of `BookingsAreRedispatched` |
| `PublicDeposit` | 2 calls, 2 holds, 1 card key, 2 mishaps | `DepositTypeOK`, `AssignedIsPaid`, `SettledNamesPaid`, `PaidIsAccountedFor`, `SeenStays` |
| `PaymentLifecycle` | 1 booking, an authorization pass, an API call, reconciliation, 1 fault | `PaymentsTypeOK`, `RowsAreTrue`, `CanceledIsSettled`, `NoForgottenHold`, `BalancesConverge`, `RefundsConverge` |
| `PaymentLifecycleStarved` | 2 bookings, batch of 1, no fault | violation of `BalancesConverge` |
| `Refunds` | 2 intents (a part, and all or too much), a worker, a pass, an admin, batch of 1, 2 attempts, 1 retry, 1 fault | `RefundsTypeOK`, `RefundedOnce`, `ExecutingHasARun`, `PendingIsTaken`, and that Refunds implements RefundLife |
| `Payouts` | 2 calls, 2 batches, 2 keys, 2 FOs with a booking each | `PayoutsTypeOK`, `AllOrNothing`, `LoneExecutionIsCovered`, and that Payouts implements PayoutBook |
| `PayoutsOverdraw` | the same | violation of `NeverOverdrawn` |
| `RecurringVisits` | 2 runs, 1 customer, 2 days, 3 attempts, 2 faults | `VisitsTypeOK`, `BookingsAreKnown`, `DroppedStays`, `MarkedIsLinked`, and that RecurringVisits implements VisitBook |

**Bounds.** Every race named above is between two parties, so two of them, over one thing
they both want, are the smallest instance that has it. The proofs lift the bounds for all
safety properties. Where a party meets itself (two accepts in dispatch, two
cancelations, two assignments of one booking) and the instance has one call at a time,
the race is the proof's to cover, and TLC's part is liveness and the mutants.

- *Slot holds.* The two windows overlap without being equal, so that equality of windows
  cannot stand in for overlap. `HoldTtl = TxTimeout = 1` and a clock up to 2 let a hold
  expire while its confirmation runs, and a transaction time out.
- *Calendar routes.* Three windows are closed under moves: a booking in 0-1 that starts later
  goes to 1-2, one in 1-2 that starts earlier to 0-2. Estimate and wall-clock time differ, as
  they may in the code. The race is between one late call and what becomes of its booking.
- *Dispatch.* Two FOs give both an answer that competes and, in two tiers, a dormant
  round behind an open one. `MaxCrashes` bounds the crashes.
- *PublicDeposit.* Two calls are two tabs, or a tab that prepares and one that
  confirms; two holds are a hold that was paid for and another one. `MaxFaults` counts
  declined payments, canceled intents, failed calls and lost events.
- *PaymentLifecycle.* One pass, one call and reconciliation meet over one row, with
  all webhooks late or lost; reopening and `PATCH` let the same job be completed or
  canceled more than once. With one booking a batch of one never starves anybody: two
  bookings are the run that does.
- *Refunds.* A worker, a pass and an admin can have the same intent in hand; an intent
  that asks for more than the charge is refused for ever, which is what the other must
  not wait for. `Attempts` and `MaxRetries` bound repetitions.
- *Payouts.* Two batches are what it takes to pay the same earnings twice, two FOs to
  pay a batch in part; nothing is bounded but the sets.
- *RecurringVisits.* `MaxAttempts` is the code's. Two runs overlap; with two faults, the
  link of an attempt and its mark can both fail.

**Symmetry** is used in safety runs only: SlotHoldsSafety over bookings, hold ids and
requests; Payouts over batches, keys and calls; PublicDeposit over calls and holds.

**Deadlock** is not checked: bookings end completed or canceled, ids, calls and time run
out, every batch is executed, and the system may then rightly stand still.

## Where the code does not do what it says

Four runs end in a counterexample; `PROJECT.json` "findings" quotes the comment, test or
message that each contradicts.

1. *Double booking through assignBooking and rescheduling* (`CalendarRoutesDouble`). Both
   look for the FO's window outside the transaction. Two calls for two bookings look, then
   write. No exclusion constraint covers `Booking`. `SerialRoutesKeepCalendar` says what would
   have to be excluded: it is not enough to lock the FO, nor to run one call after the other,
   because what a call looks for is not what it puts on the calendar.
2. *Re-dispatch that does nothing* (`DispatchRedispatch`). When the last open offer
   expires the sweep sets the booking to pending_dispatch and calls startDispatch, which
   answers from its cache or stops at a dormant offer. No later sweep looks at the booking.
   `StrandedBookingsStay`: only a person gets it out of there.
3. *An FO paid twice* (`PayoutsOverdraw`). A draft batch reserves nothing, so two batches
   can carry a line for the same earnings. The advisory lock is per batch and the ledger's
   guard reads what is committed: executed together, both pass. Executed one after the
   other, the second is refused: `LoneExecutionIsCovered`. `SerialExecutionsCovered` says that
   a lock per FO in the place of the lock per batch would do.
4. *Reconciliation that starves* (`PaymentLifecycleStarved`). A pass takes the rows
   written longest ago, of all that ever had an intent or a refund. A row with nothing
   left to do is not written, so it stays the oldest and is taken by every pass; once
   there are as many as a pass takes, nobody else's lost event is ever made good. With
   room for every row `BalancesConverge` holds. `FinishedRowsStarve`: the size of the batch
   only says how many finished rows it takes.

## What the models found on the way

No text of the repository promises the contrary of these, or they fail so directly that
a run would show nothing; the modules contain them, and the properties name them as
exceptions where they touch them.

*Bookings and dispatch.*
- A to B to A: with default keys `assign:<booking>:<fo>` the second assignment to A is
  taken for a replay of the first and answered as a success (`Replayed`), although the
  comment at bookings.service.ts:1685 allows reassignment.
- POST /bookings/:id/transition passes its start time on with any transition: completing,
  canceling or reopening moves the job too, also one that is over (`RunningJobStays` excepts
  the call that has found it so, and only that one).
- A booking moved to an earlier start keeps its old end and so grows beyond what was looked
  for; an assignment looks for the estimated hours, not to the end of the window. Lone calls
  double-book in both ways. Transitions without a start time do not look: reopening puts a
  job back into a window that has been given away.
- manualAssign and reassignBooking refuse some statuses and then update by id, over an
  acceptance, a start or a cancelation in between. The other two writes that take a booking
  on are assignBooking's reassignment, which is guarded by status and FO, and the last
  statement of a dispatch run, which sets the booking to offered whatever it is.
  `NeverStolen`, `StartedJobKept` and `LateWritesMiss` each name those that can do what they
  speak of, and say that nothing else can: not an acceptance, decline, sweep or requeue.
- A crash leaves the dispatch lock set until an admin releases it (`LockHasHolder`).

*Deposit.*
- A paid deposit whose intent names hold h1 makes a confirmation with another hold, without
  a card, answer SESSION_MISMATCH for ever, although prepare answers finalize_booking.
- The intent of a hold that is canceled is reset and created again under the same key, so
  that Stripe replays the canceled one.
- A declined card leaves an intent that no row names until its event comes.
- A call that read the booking before it was assigned may write deposit_required over
  a deposit that has succeeded; a later cancelation then neither refunds nor retains
  (`displaced`, `SeenStays`).
- The route for customers who are signed in (bookings.controller.ts:254) confirms holds
  without the gate: `AssignedIsPaid` speaks of public bookings.

*Payment life cycle.*
- A paid booking that is canceled before its hold is confirmed has no start: the enforcement
  logs `no_scheduled_start` and neither refunds the deposit nor retains a fee
  (booking-cancellation-payment.service.ts:39-44). `CanceledIsSettled` excepts it.
- `PATCH /bookings/:id` cancels without settling the deposit (update-booking-patch.dto.ts:15),
  although booking-cancellation-payment-invariant.service.ts:20-23 knows no other writer.
- The loser of two racing transitions counts as applied and repeats the side effects; two
  cancelations on both sides of the 48 hour limit refund and retain.
- A refund whose answer is lost is recorded as failed without an id, which reconciliation
  does not look at. A late success of the deposit, after the refund, resets it.
- A completion before the authorization is recorded, or a crash of the capture that
  nobody waits for, leaves a hold that is never captured; a canceled booking keeps its
  hold; an intent created and not recorded, whose event is lost too, is known to nobody.

*Refunds.*
- An intent whose caller failed after `Mark`, or that Stripe refused, stays executing and
  nobody looks at it again (`ExecutingHasARun`).
- A caller that had read unpaid may write failed over another one's refund; retried when
  Stripe has forgotten the key, it is refunded twice (`RefundedOnce`).
- The cron is off unless ENABLE_REFUND_CRON is set, and there is no queue without Redis:
  with neither, pending intents wait for an admin.

*Ledger and payouts.*
- Eligibility excludes bookings with a DISPUTE entry; the webhooks post
  DISPUTE_WITHDRAWAL, DISPUTE_REVERSAL and DISPUTE_LOSS, and nothing posts DISPUTE: disputed
  bookings are paid out. Eligibility is not asked again when a draft is executed.
- A batch that was claimed and whose transaction failed stays a draft with a key: a retry
  is told alreadyApplied, another key is refused.
- Finalization and webhook post their CHARGE under different keys, so that both can stand; the
  refund cap is a read before the write; the same refund can be booked on its pending and its
  succeeded event; completing, reopening and completing again recognises revenue once under
  the default key while each reopening reverses. These are read from the code, not modelled.

*Recurring plans.*
- A claim whose worker dies stays "processing", which no run looks for (`Dies`).
- Moving the date between two attempts gives the visit a second booking, and the failure
  of that attempt wipes out the mark of the first (`BookingsAreKnown` and `MarkedIsLinked`
  except it).
- The link is guarded by the token alone: a visit that is skipped or canceled with a run in
  hand becomes booked, and a plan that is canceled meanwhile keeps its booking.
- Pause, resume and cancel write by id: a late resume un-cancels a plan. Skipping a booked
  visit leaves its booking.

## Fairness

`CalendarRoutes!RoutesFairSpec`: time passes; a running transaction goes on or is
rolled back (Prisma's timeout sees to it); the cleanup timer fires (`setInterval`, every
60 s) and its DELETE, which queues for row locks that others hold for a moment, is
served in the end, hence strong fairness. Not assumed: that a client confirms or
releases.

`Dispatch!FairSpec`: a call that has begun goes on or fails; offers lapse
(30 s); the cache entry lapses; the expiry sweep runs (every minute, with
`ENABLE_DISPATCH_CRON` set). Not assumed: that an FO answers, an admin acts, a job
starts, a booking is canceled.

`PaymentLifecycle!FairSpec`: the reconciliation cron runs and time passes. Not assumed:
that any call goes on, a webhook is delivered, a customer or a bank acts. So rows agree
with Stripe through reconciliation alone.

`Refunds!FairSpec`: passes start and go on (cron, every five minutes, where it is enabled).
Not assumed: the queue, or an admin.

`RecurringVisits!FairSpec`: the worker's timer fires (30 s) and a run goes on, or dies, which
happens at most `MaxFaults` times. Not assumed: anything of the customer.

Payouts and PublicDeposit state no fairness: an admin executes a batch or does not, and a
customer may walk away at any point.

## Proofs

Every safety property that a passing run checks, each refinement included, is a theorem for
all values of the constants. Four theorems say things no run is listed for: `OneExecutor`
(a claim is final), `VisitsBookedOnce` and `StatusesAreTrue` (which the refinements contain
in another form), and `MovedMoneyStays`. Four belong to findings. Two are conditional:
`SerialRoutesKeepCalendar` and `SerialExecutionsCovered` prove what a violation run refutes,
from a hypothesis on the schedule, and for the first also on the data, that the code does not
enforce. Two say what a violation
run shows on its instance of every instance: `StrandedBookingsStay` and
`FinishedRowsStarve` prove of the last states of a liveness counterexample that the
system does not leave them by itself.

| Module | Holds for any | Theorems |
|---|---|---|
| `SlotHoldsProofs` | bookings, FOs, windows, hold ids, requests, hold lifetime, transaction timeout | `TypeCorrect`, `Invariant`, `NeverDoubleBooked`, `EachSoldOnce`, `SoldOnTime`, `SalesConsumeHolds`, `Refinement` |
| `CalendarRoutesProofs` | the same, and calls | `RoutesInvariant`, `RoutesTypeCorrect`, `WorkKeepsItsFo`, `RunningJobsStay`, `RoutesSellOnceOnTime`, `SerialRoutesKeepCalendar` |
| `DispatchProofs` | FOs, rounds, calls, crashes | `IInvHolds`, `DispatchTypesHold`, `LocksHaveHolders`, `BookingsAreNotStolen`, `StartedJobsAreKept`, `LateWritesDoMiss`, `StrandedBookingsStay` |
| `PublicDepositProofs` | holds, keys, calls, mishaps | `DepositInvariant`, `DepositTypeCorrect`, `AssignedBookingsArePaid`, `SettledDepositsArePaid`, `PaidIntentsAreAccountedFor`, `SeenSuccessStays` |
| `PaymentLifecycleProofs` | finite set of bookings; passes, calls, batch, faults | `IInvHolds`, `PaymentsTypesHold`, `RowsStayTrue`, `CancelationsAreSettled`, `HoldsAreNotForgotten`, `MovedMoneyStays`, `FinishedRowsStarve` |
| `RefundsProofs` | finite set of intents; workers, passes, admins, amounts, batch, attempts, retries, faults | `RefundsInvariant`, `RefundsTypeCorrect`, `IntentsRefundedOnce`, `StatusesAreTrue`, `ExecutingIntentsHaveARun`, `RefundsImplementLife` |
| `PayoutsProofs` | FOs, finite set of bookings, batches, keys, calls | `PayoutsInvariant`, `PayoutsTypeCorrect`, `BatchesPaidWhole`, `OneExecutor`, `LoneExecutionCovered`, `SerialExecutionsCovered`, `PayoutsImplementBook` |
| `RecurringVisitsProofs` | runs, calls, days, attempts, faults | `VisitsInvariant`, `VisitsTypeCorrect`, `VisitsBookedOnce`, `VisitBookingsKnown`, `DroppedVisitsStay`, `VisitsImplementBook` |

The assumptions are the named `ASSUME` of each module: bounds are natural numbers, null
values are no values, windows are not empty (`assertWindow`), estimates are positive and the
windows closed under moving a booking, a hold lives for at least a
moment, each booking of a payout has an FO, bookings and intents are finite sets where a
batch of them is taken, the sets of callers are disjoint. TLC
evaluates them in every run.

### The arguments

**Slot holds.** `NoDoubleBooking` is not inductive. When a confirmation commits, the
calendar it saw free is three statements old. What carries the freedom over is the hold
row: as long as it exists, the exclusion constraint admits no other hold that overlaps
(`HoldsDisjoint`), so no other confirmation can sell into the window, except
with a hold of its own, which cannot coexist. `HoldKeepsWindow` states this: a
confirmation past its calendar check whose hold row is still there sees a free
calendar *now*. It is preserved because every step that puts a booking on the calendar is
itself a confirmation that deletes its own hold, and two live holds are disjoint.
`IdsIdentify` is needed because a confirmation remembers a row and deletes by id: ids
are never reused, so the row that is there is the row that was read. `LockHolds`
gives that a locked booking row has one owner and is unsold, for `SoldOnce`;
`SoldIsSpent` says that a sold booking never becomes sellable again; `BeganInTime`
gives `SaleOnTime` together with the timeout guard. The refinement follows from the same
invariant: the commit maps to `Sell` (`HoldKeepsWindow` is `Sell`'s guard), completion and
cancelation to `Leave`, everything else to a stutter.

**Calendar routes.** The steps of the hold path keep their parts by the lemmas of
SlotHoldsProofs; `HoldKeepsWindow` is missing, because a call without a hold can take the
window, and with it `NoDoubleBooking`, which is what TLC finds. `WorkHasFo` needs
`DoneHasFo` (a completed job can be reopened), and `UnpaidHasNoFo` that what has an FO is not
scheduled for the first time. `RunningJobsStay` follows from the guards: a call writes over the
status it has read, or not at all.

`SerialRoutesKeepCalendar` is the repair. Its hypothesis `OneWriter` is on the schedule: two
calls never overlap if they are for one booking or look for one FO, and a call never
overlaps a confirmation for its FO that is past its calendar check. Then what a call has
looked for is still free when it writes, if its booking is still as it was read
(`CallsSeeFree`), which takes the place of a hold row for the routes, next to
`HoldKeepsWindow` for the hold path. A lock per FO alone does not do: one call gives the
booking to the FO while another, which read it with its former FO, moves it to a window that
was looked up for that one (TLC shows this with two FOs and two windows). The second
hypothesis, `LooksCoverWrites`, is on the data: whenever a call is about to put a window on the
calendar, or to keep one there, it has looked for all of it. The code does not see to that
either: TLC finds the double booking of a lone call when estimate and window differ. `Reopen`
without a start time is excluded too (`NobodyReopens`), because it puts a job back on the
calendar without looking.

**Dispatch.** With the types, `LockHasHolder` is inductive: whoever writes the lock is on
its way to release it, also when it fails. The action properties then follow step by step
from the guards of the late writes; `SweepOnlySweeps` keeps the sweep from an admin's stages.
`StrandedBookingsStay` is about a booking that is `Stranded`: pending dispatch, no offer open or
over, nothing under way but an admin's stages. No sweep begins, because one needs an offer
that is over; a cache entry that lapses, a lock that is released and a return to the queue
change neither status nor offers (`KeepsStranded`). What is left is `SomebodyActs`.

**Deposit.** An intent that has been paid stays paid, so what a call knows of it when it
leaves Stripe is still true when it writes. `AllFit` says what each stage knows: a call
about to mark a success has a paid intent in hand, one that books knows of a payment, and
one that has seen the deposit succeed has left only stages that write nothing else. `Word`
says the same of events and repeated answers; `Money` collects the properties.

**Payment life cycle.** Again what Stripe has ended stays ended: `CallKnows`, `EventKnows`
and `PassKnows` say that an answer, event or snapshot that speaks of an end is still true,
`AnswersAreFirst` that repeated answers are not younger than the payment, `RowFits` that the
row is true and its columns fit. `CanceledIsSettled` needs that a booking which has been canceled
gets no start any more (`CanceledGetNoStart`), or the exception would end and leave it
unsettled. `NoForgottenHold` is not inductive: a hold that waits for
the customer (requires_action) becomes one without any step of ours, hence `HoldsKnown`.

`MovedMoneyStays` is the safety half of `BalancesConverge` and `RefundsConverge`. A balance
is `CapturedForGood` when Stripe and the row agree on it and nothing older is under way: no
event of a former state of the hold, no call between creating or capturing a payment and
writing the answer, no pass that saw the hold before the capture. No step leaves such a
state: every call, webhook or pass that begins later reads captured and does nothing, or
writes captured again (`CallsLeaveCaptured`, `NoOlderNews`, `PassSeesMoved`,
`RowsKeepMoved`). So rows disagree with Stripe only through what was on its way before.

`FinishedRowsStarve` takes any set of rows that are `Finished`, at least as many as a batch, and
older than all others (`Starves`). A pass picks a batch of the oldest, which by cardinality
lies within the set, and finds nothing to do for its rows (`PassStarves`); so it writes none,
and their age stays. Every other step is `About` one booking: one outside the set only
becomes the youngest (`AboutOthers`), and none changes a finished row but a reopening or a patch.

**Refunds.** Two callers with one intent in hand are in `overlapped` from the moment the
second takes it. Outside it, one caller is the only one that writes the intent (`OneHand`,
`Marked`), so one with a refund is executing or executed, and at rest by the time its key
is forgotten (`Lone`); nobody takes it up again then, because passes look for pending
intents, retries for failed ones, and no job is left. `RefundsImplementLife` needs the converse for callers (`HandsOff`): an intent that is
executed, and not contested, is in nobody's hand. So who writes an intent writes one that
is not reported yet, `Give` finds it waiting and without a refund, and no failure is written
over a refund that was made.

**Payouts.** `ClaimIsFinal` is inductive with the types: a claim is granted only where
there is no key, and nothing else writes keys. `AllOrNothing` is not: a commit overwrites
what was posted for the batch, and lockBatch writes its lines at a time of its own.
`LockerAlone` says that one call fills a batch, which is empty until then; `PaidWasClaimed`
that an executing call finds nothing posted for its batch, and holds its lines, or none if
it was too early. `CheckedIsCovered` carries the checks of a transaction to its commit:
charges only add to the payable, and a payout of somebody else makes the execution `stale`.
`SerialExecutionsCovered` replaces that history by a hypothesis, `OneExecutionPerFo`: no two
transactions are posting lines for one FO at a time. Then `Covers` is kept for
every execution, and no commit overdraws. `PayoutsImplementBook` needs, of the invariant, that
lines are written to an empty batch and that a commit posts exactly them.

**Recurring visits.** `BookedOnce` compares bookings that were looked for and created in
different runs. Until a booking is linked a claim is exclusive (`OneClaim`): only a run that
links takes it away, and whoever claims the visit after that finds a booking on it and does
not look for one. So at most one run seeks (`OneSeeker`), and what it did not find is not there
(`NotFound`). `OwnAttempts` gives each run a booking of its own. While the visit has one day
(`OneDay`) there is one booking, and a run about to wipe out the mark knows of no
booking but a linked or a lost one (`FailsEmpty`): hence `BookingsAreKnown`. The link is
written without looking whether there is one already (`Link` is guarded by the token alone).
`KeepsLink` makes it VisitBook's `Link` or a stutter all the same: who holds the claim of a
visit that is linked has found that booking on it, and links it again or nothing.

Only model-checked: liveness (`HoldsAreFreed`, `OpenOffersEnd`, `BalancesConverge`,
`RefundsConverge`, `PendingIsTaken`, `MarkedIsLinked`), which is out of the prover's reach.

## What the models leave out

- *Merged reads.* Reads that no write of the same call separates and whose
  values are checked again later are one step (`BeginConfirm`, `BeginAssign`, `DispatchCore`,
  the booking and hold that a deposit call reads). A commit directly after the last
  statement is part of its step. POST /:id/transition reads the booking twice, to name the
  transition and in transitionBooking; `BeginMove` is the second read and allows a transition
  named for another status of `Steps`. In Dispatch, assignBooking is one step: its races are in
  CalendarRoutes.
- *PATCH /bookings/:id* writes any status over any other, without a guard. A module
  that contains it all satisfies nothing; it is a hazard with no property. PaymentLifecycle
  has the patch to canceled (`PatchCanceled`).
- *Writers that nothing calls*: DispatchService.acceptOffer,
  ExecutionService.startJob and completeJob, the admin overrideAssign; and the
  seeds under `src/services/api/src/dev`.
- *Eligibility and ranking of FOs*, payment status, review and hold flags: either
  answer is possible whenever the code asks.
- *Stagger and cap.* Offers of a round open a few seconds apart, at most five at once;
  no statement's guard depends on it other than through the windows, which are kept.
- *Counters.* `activeAssignedCount` and the other reliability counters are read by the
  ranking alone. They drift: decremented on completion, cancelation and SLA requeue
  (bookings.service.ts:1410), not incremented by every assignment.
- *One process.* The dispatch cache is per process; with two, a re-dispatch may miss it,
  which only removes behaviours of finding 2. Sweep and reconciliation do not overlap
  themselves; passes of authorization and refunds and runs of recurring visits do.
- *Refusals and replays* that write nothing are no step.
- *Amounts*, other than of refunds and payouts: one deposit and one balance, both positive.
  Currencies are separate books; whether a journal entry balances is a check of its own lines.
- *Moves in PaymentLifecycle*: a booking gets its start once; that a later transition with a
  start time moves it back over a limit of the policy is left out. A job may be completed
  without ever having had a start, as in the code.
- *The dispatch lock in CalendarRoutes*, which makes assignBooking refuse: Dispatch has it.
- *Stripe*: the status "processing" of a balance, keys forgotten during a checkout or a
  balance's life (Refunds has it), customers and cards that are missing in configuration.
- *PublicDeposit*: bypass by configuration, cancelation during a checkout, the checks of
  tenant and estimate.
- *RecurringVisits*: other visits that share the worker's list of ten, the booking's own
  status (a canceled booking is still found by its fingerprint), fields of visit and
  plan that no statement asks for.

## Not modelled

`PROJECT.json` has a line on each part without a module. In short: *pure functions*
(estimates, prices, crew sizes, service matrix), over tables that unit tests reach and no
model would shorten; *readers* (slot availability, analytics, integrity sweep, dashboards,
web and admin pages), which write nothing another component relies on; *append-only or
single-row records* (execution, financial, trust, maintenance, franchise owners, payment
orchestration, dispatch tickets); *tools and content* (system test pipeline, encyclopedia,
seeds), most of the lines of the repository; and the *workflow engine*, which nothing
starts: recordObserveOnlyFromDeliveredOutbox has no caller and nothing writes the outbox
events it is meant for, so its only reachable state is the empty one.

Of the ledger, revenue recognition and the refund cap are read and described above, but have
no module: under the keys that the code uses, the amounts depend on who calls with which
key, nothing reads the accounts back, and no text promises a value that a property could
state.
