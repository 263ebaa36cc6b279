--------------------------- MODULE PublicDeposit ---------------------------
(***************************************************************************)
(* The deposit of one public booking                                       *)
(* (public-booking-deposit.service.ts).  The customer's browser prepares a *)
(* payment, pays at Stripe, and confirms a slot hold; the confirmation     *)
(* may charge a card itself.  Every call reads the booking once, then asks *)
(* Stripe, then writes by id.  Stripe tells of successes and failures by   *)
(* webhook, in any order (stripe-payment.service.ts).                      *)
(*                                                                         *)
(* Stripe remembers an idempotency key for a day at least, which is longer *)
(* than a checkout: a payment intent is named here by the part of its key  *)
(* that varies, the hold, or the client's key of a confirmation.           *)
(***************************************************************************)
EXTENDS Integers

CONSTANTS
  Holds, NoHold,
  Tries,      \* idempotency keys of confirmations that bring a card
  NoIntent,
  Calls,      \* calls of the customer's browsers that run at the same time
  MaxCalls,   \* bound on the calls
  MaxFaults   \* bound on declined payments, canceled intents, failed calls and lost events

ASSUME DepositAssumption ==
  /\ NoHold \notin Holds /\ NoIntent \notin Holds \cup {NoHold} \cup Tries
  /\ Tries \cap (Holds \cup {NoHold}) = {}
  /\ MaxCalls \in Nat /\ MaxFaults \in Nat

Intents == Holds \cup {NoHold} \cup Tries

VARIABLES
  row,        \* the columns of the booking
  hold,       \* its slot holds
  intent,     \* payment intents at Stripe, with the hold in their metadata
  answer,     \* what Stripe has answered to the request with a client's key
  events,     \* Stripe's events that have not been applied
  noted,      \* intents of "duplicate deposit success suppressed"
  run,        \* where each call is between two statements
  calls,
  faults,
  displaced   \* history: intents that were the deposit until a later write, or
              \* whose event was lost

vars == <<row, hold, intent, answer, events, noted, run, calls, faults, displaced>>
stripe == <<intent, answer, events>>

-----------------------------------------------------------------------------
(* authorized: paymentStatus, which nothing here sets back *)
Row == [status : {"pending_payment", "assigned"},
        deposit : {"deposit_required", "deposit_succeeded", "deposit_failed"},
        pi : Intents \cup {NoIntent}, authorized : BOOLEAN]

HoldStates == {"none", "live", "expired", "gone"}

\* open: requires_payment_method; action: requires_action
Statuses == {"none", "open", "action", "processing", "succeeded", "canceled"}
Intent == [status : Statuses, hold : Holds \cup {NoHold}]

Outcomes == {"declined", "action", "processing", "succeeded"}
Answer == [for : Intents \cup {NoIntent}, hold : Holds \cup {NoHold},
           outcome : Outcomes \cup {"none"}]

Events == {"payment_intent.succeeded", "payment_intent.payment_failed"} \X Intents

Stages == {"idle", "gate", "retrieve", "charge", "fail", "reset", "create", "record",
           "mark", "book", "recover"}

(* try is NoIntent for a call without a card; saw: the deposit had *)
(* succeeded when the call read the booking                        *)
Run == [stage : Stages, confirms : BOOLEAN, hold : Holds \cup {NoHold},
        try : Tries \cup {NoIntent}, late : BOOLEAN, pi : Intents \cup {NoIntent},
        saw : BOOLEAN]
Idle == [stage |-> "idle", confirms |-> FALSE, hold |-> NoHold, try |-> NoIntent,
         late |-> FALSE, pi |-> NoIntent, saw |-> FALSE]

Settled == row.deposit = "deposit_succeeded"
Paid(p) == intent[p].status = "succeeded"

Init ==
  /\ row = [status |-> "pending_payment", deposit |-> "deposit_required",
            pi |-> NoIntent, authorized |-> FALSE]
  /\ hold = [h \in Holds |-> "none"]
  /\ intent = [p \in Intents |-> [status |-> "none", hold |-> NoHold]]
  /\ answer = [t \in Tries |-> [for |-> NoIntent, hold |-> NoHold, outcome |-> "none"]]
  /\ events = {} /\ noted = {}
  /\ run = [c \in Calls |-> Idle]
  /\ calls = 0 /\ faults = 0
  /\ displaced = {}

-----------------------------------------------------------------------------
Goto(c, s) == run' = [run EXCEPT ![c].stage = s]
Ends(c) == run' = [run EXCEPT ![c] = Idle]

(* An update of the booking by id, whatever has become of it. *)
Write(deposit, pi) ==
  /\ row' = [row EXCEPT !.deposit = deposit, !.pi = pi]
  /\ displaced' = displaced \cup IF Settled THEN {row.pi} ELSE {}

(* Fault: success is written by id, too. *)
FaultSucceedsUnguarded(p) ==
  /\ row' = [row EXCEPT !.deposit = "deposit_succeeded", !.pi = p, !.authorized = TRUE]
  /\ UNCHANGED <<noted, displaced>>

(* The booking takes the success of an intent unless another one is its    *)
(* deposit: that is noted for an operator.  The code looks at the row      *)
(* first and updates under a guard that says the same.                     *)
Succeeds(p) ==
  /\ IF Settled /\ row.pi \notin {p, NoIntent}
     THEN noted' = noted \cup {p} /\ UNCHANGED row
     ELSE /\ row' = [row EXCEPT !.deposit = "deposit_succeeded", !.pi = p,
                                !.authorized = TRUE]
          /\ UNCHANGED noted
  /\ UNCHANGED displaced

(* The hold in the metadata of an intent must be the hold of the call, if  *)
(* both have one.                                                          *)
Matches(p, h) == intent[p].hold = NoHold \/ h = NoHold \/ intent[p].hold = h

Late(h) == h # NoHold /\ hold[h] = "expired"
Exists(h) == h # NoHold => hold[h] \in {"live", "expired"}

-----------------------------------------------------------------------------
(* Calls *)

(* preparePublicBookingDeposit reads the booking.  A booking that is not   *)
(* pending, or whose deposit has succeeded, needs nothing.                 *)
BeginPrepare(c, h) ==
  /\ run[c] = Idle
  /\ calls < MaxCalls /\ calls' = calls + 1
  /\ Exists(h)
  /\ row.status = "pending_payment" /\ ~Settled
  /\ Late(h) => row.pi # NoIntent
  /\ run' = [run EXCEPT ![c] =
       [Idle EXCEPT !.stage = IF row.pi = NoIntent THEN "create" ELSE "retrieve",
                    !.hold = h, !.late = Late(h), !.pi = row.pi]]
  /\ UNCHANGED <<row, hold, stripe, noted, faults, displaced>>

(* Fault: a hold that has expired is made up for without asking for a deposit. *)
FaultBeginConfirmUnpaid(c, h, t) ==
  /\ run[c] = Idle
  /\ calls < MaxCalls /\ calls' = calls + 1
  /\ h # NoHold /\ Exists(h)
  /\ run' = [run EXCEPT ![c] =
       [Idle EXCEPT !.stage = IF Late(h) THEN "recover" ELSE "gate",
                    !.confirms = TRUE, !.hold = h, !.try = t]]
  /\ UNCHANGED <<row, hold, stripe, noted, faults, displaced>>

(* confirmHold: when the hold has expired but the deposit has been paid,   *)
(* another window is looked for.                                           *)
BeginConfirm(c, h, t) ==
  /\ run[c] = Idle
  /\ calls < MaxCalls /\ calls' = calls + 1
  /\ h # NoHold /\ Exists(h)
  /\ Late(h) => Settled \/ row.authorized
  /\ run' = [run EXCEPT ![c] =
       [Idle EXCEPT !.stage = IF Late(h) THEN "recover" ELSE "gate",
                    !.confirms = TRUE, !.hold = h, !.try = t]]
  /\ UNCHANGED <<row, hold, stripe, noted, faults, displaced>>

(* ensurePublicDepositResolvedBeforeConfirm reads booking and hold again. *)
Gate(c) ==
  LET r == run[c]
      late == Late(r.hold)
      refused == ~Exists(r.hold) \/ (late /\ (row.pi = NoIntent \/ r.try # NoIntent))
      next == IF row.pi # NoIntent THEN "retrieve"
              ELSE IF r.try # NoIntent THEN "charge" ELSE "create"
  IN
  /\ r.stage = "gate"
  /\ IF row.status # "pending_payment" THEN Goto(c, "book")
     ELSE IF refused THEN Ends(c)
     ELSE run' = [run EXCEPT ![c] =
            [r EXCEPT !.stage = next, !.late = late, !.pi = row.pi, !.saw = Settled]]
  /\ UNCHANGED <<row, hold, stripe, noted, calls, faults, displaced>>

(* Fault: an intent that has come to an end, either way, is replaced. *)
FaultVerdictTerminal(r, p) ==
  LET s == intent[p].status IN
  CASE s \in {"succeeded", "canceled"} /\ r.confirms /\ r.try = NoIntent -> "reset"
    [] s = "succeeded" /\ ~(r.confirms /\ r.try = NoIntent) -> "mark"
    [] s \in {"open", "canceled"} /\ r.try # NoIntent -> "charge"
    [] OTHER -> "idle"

(* The status of the intent on record decides how a call goes on.  Only a  *)
(* confirmation replaces an intent that has been canceled; where nothing   *)
(* is to be done here, the browser is told to go on with the intent.       *)
Verdict(r, p) ==
  LET s == intent[p].status
      card == r.try # NoIntent
  IN
  CASE s = "succeeded" /\ (card \/ Matches(p, r.hold)) -> "mark"
    [] s \in {"open", "canceled"} /\ card -> "charge"
    [] s = "canceled" /\ r.confirms /\ ~card /\ ~r.late -> "reset"
    [] OTHER -> "idle"

Retrieve(c) ==
  LET r == run[c]
      next == Verdict(r, r.pi)
      gone == intent[r.pi].status = "canceled"
  IN
  /\ r.stage = "retrieve"
  /\ run' = [run EXCEPT ![c] =
       IF next = "idle" THEN Idle
       ELSE [r EXCEPT !.stage = next, !.pi = IF gone THEN NoIntent ELSE r.pi]]
  /\ UNCHANGED <<row, hold, stripe, noted, calls, faults, displaced>>

Reset(c) ==
  /\ run[c].stage = "reset"
  /\ Write("deposit_required", NoIntent)
  /\ Goto(c, "create")
  /\ UNCHANGED <<hold, stripe, noted, calls, faults>>

(* The same hold gets the same intent again, whatever its status. *)
Create(c) ==
  LET p == run[c].hold IN
  /\ run[c].stage = "create"
  /\ intent' = IF intent[p].status = "none"
               THEN [intent EXCEPT ![p] = [status |-> "open", hold |-> p]] ELSE intent
  /\ run' = [run EXCEPT ![c].stage = "record", ![c].pi = p]
  /\ UNCHANGED <<row, hold, answer, events, noted, calls, faults, displaced>>

(* Fault: the new intent is recorded, but the status is left as it is. *)
FaultRecordKeepsStatus(c) ==
  /\ run[c].stage = "record"
  /\ Write(row.deposit, run[c].pi)
  /\ Ends(c)
  /\ UNCHANGED <<hold, stripe, noted, calls, faults>>

Record(c) ==
  /\ run[c].stage = "record"
  /\ Write("deposit_required", run[c].pi)
  /\ Ends(c)
  /\ UNCHANGED <<hold, stripe, noted, calls, faults>>

(* Stripe's answer to a charge: success, an authentication that the        *)
(* browser has to do, an error, or something else, which is taken for a    *)
(* failure.                                                                *)
Answered(c, p, o) ==
  CASE o = "succeeded"  -> run' = [run EXCEPT ![c].stage = "mark", ![c].pi = p]
    [] o = "processing" -> run' = [run EXCEPT ![c].stage = "fail", ![c].pi = p]
    [] OTHER            -> Ends(c)

StatusAfter(o) == IF o = "declined" THEN "open" ELSE o
EventOf(o, p) ==
  CASE o = "succeeded" -> {<<"payment_intent.succeeded", p>>}
    [] o = "declined"  -> {<<"payment_intent.payment_failed", p>>}
    [] OTHER           -> {}

\* Declined payments are bounded.
Counts(o) ==
  IF o = "declined" THEN faults < MaxFaults /\ faults' = faults + 1 ELSE UNCHANGED faults

\* What a request asks Stripe for.
Charged(r) == IF r.pi = NoIntent THEN r.try ELSE r.pi
HoldSent(r) == IF r.pi = NoIntent THEN r.hold ELSE NoHold

(* Confirm the intent on record with the card, or create one that is       *)
(* confirmed at once.                                                      *)
Charge(c, o) ==
  LET r == run[c]
      p == Charged(r)
  IN
  /\ r.stage = "charge"
  /\ answer[r.try].outcome = "none"
  /\ intent[p].status = IF r.pi = NoIntent THEN "none" ELSE "open"
  /\ answer' = [answer EXCEPT ![r.try] = [for |-> p, hold |-> HoldSent(r), outcome |-> o]]
  /\ intent' = [intent EXCEPT ![p] =
       [status |-> StatusAfter(o), hold |-> IF r.pi = NoIntent THEN r.hold ELSE @.hold]]
  /\ events' = events \cup EventOf(o, p)
  /\ Answered(c, p, o)
  /\ Counts(o)
  /\ UNCHANGED <<row, hold, noted, calls, displaced>>

(* Stripe repeats its answer to a request it has had under this key, and   *)
(* refuses another one, or an intent that cannot be confirmed any more.    *)
ChargeAgain(c) ==
  LET r == run[c]
      a == answer[r.try]
      same == a.for = Charged(r) /\ a.hold = HoldSent(r)
  IN
  /\ r.stage = "charge"
  /\ a.outcome = "none" => r.pi # NoIntent /\ intent[r.pi].status # "open"
  /\ IF a.outcome # "none" /\ same THEN Answered(c, a.for, a.outcome) ELSE Ends(c)
  /\ UNCHANGED <<row, hold, stripe, noted, calls, faults, displaced>>

(* Fault: Stripe's word for the failure gets into the column. *)
FaultFailStripeWord(c) ==
  /\ run[c].stage = "fail"
  /\ Write("requires_payment_method", run[c].pi)
  /\ Ends(c)
  /\ UNCHANGED <<hold, stripe, noted, calls, faults>>

Fail(c) ==
  /\ run[c].stage = "fail"
  /\ Write("deposit_failed", run[c].pi)
  /\ Ends(c)
  /\ UNCHANGED <<hold, stripe, noted, calls, faults>>

(* markDepositSucceededFromStripeState; a confirmation goes on. *)
Mark(c) ==
  /\ run[c].stage = "mark"
  /\ Succeeds(run[c].pi)
  /\ IF run[c].confirms THEN Goto(c, "book") ELSE Ends(c)
  /\ UNCHANGED <<hold, stripe, calls, faults>>

(* confirmBookingFromHold, see SlotHolds; when the hold has expired or its *)
(* window has been taken, another window is looked for.                    *)
Book(c) ==
  LET h == run[c].hold IN
  /\ run[c].stage = "book"
  /\ \/ /\ row.status = "pending_payment" /\ hold[h] = "live"
        /\ row' = [row EXCEPT !.status = "assigned"]
        /\ hold' = [hold EXCEPT ![h] = "gone"]
        /\ Ends(c)
     \/ /\ row.status = "pending_payment" /\ hold[h] \in {"live", "expired"}
        /\ Goto(c, "recover")
        /\ UNCHANGED <<row, hold>>
     \/ /\ row.status # "pending_payment" \/ hold[h] = "gone"
        /\ Ends(c)
        /\ UNCHANGED <<row, hold>>
  /\ UNCHANGED <<stripe, noted, calls, faults, displaced>>

(* attemptPostPaymentRecovery: a hold of its own, confirmed at once. *)
Recover(c) ==
  /\ run[c].stage = "recover"
  /\ row' \in {row, IF row.status = "pending_payment"
                    THEN [row EXCEPT !.status = "assigned"] ELSE row}
  /\ Ends(c)
  /\ UNCHANGED <<hold, stripe, noted, calls, faults, displaced>>

-----------------------------------------------------------------------------
(* Webhooks *)

DeliverSuccess(p) ==
  LET e == <<"payment_intent.succeeded", p>> IN
  /\ e \in events /\ events' = events \ {e}
  /\ Succeeds(p)
  /\ UNCHANGED <<hold, intent, answer, run, calls, faults>>

DeliverFailure(p) ==
  LET e == <<"payment_intent.payment_failed", p>> IN
  /\ e \in events /\ events' = events \ {e}
  /\ Write("deposit_failed", p)
  /\ UNCHANGED <<hold, intent, answer, noted, run, calls, faults>>

-----------------------------------------------------------------------------
(* The world *)

(* The customer pays in the browser, which does the authentications, or a  *)
(* payment under way comes to an end.                                      *)
Pay(p, o) ==
  /\ intent[p].status \in {"open", "action", "processing"}
  /\ o # "action"
  /\ o = "processing" => intent[p].status # "processing"
  /\ intent' = [intent EXCEPT ![p].status = StatusAfter(o)]
  /\ events' = events \cup EventOf(o, p)
  /\ Counts(o)
  /\ UNCHANGED <<row, hold, answer, noted, run, calls, displaced>>

(* Somebody cancels an intent at Stripe's dashboard. *)
Cancel(p) ==
  /\ intent[p].status \in {"open", "action"}
  /\ intent' = [intent EXCEPT ![p].status = "canceled"]
  /\ faults < MaxFaults /\ faults' = faults + 1
  /\ UNCHANGED <<row, hold, answer, events, noted, run, calls, displaced>>

(* A hold is taken, expires, and is released or cleaned up. *)
HoldMoves(h) ==
  /\ hold' = [hold EXCEPT ![h] = CASE @ = "none" -> "live" [] @ = "live" -> "expired"
                                   [] OTHER -> "gone"]
  /\ hold[h] = "none" => row.status = "pending_payment"
  /\ hold' # hold
  /\ UNCHANGED <<row, stripe, noted, run, calls, faults, displaced>>

CallFails(c) ==
  /\ run[c] # Idle
  /\ faults < MaxFaults /\ faults' = faults + 1
  /\ Ends(c)
  /\ UNCHANGED <<row, hold, stripe, noted, calls, displaced>>

(* Its receipt is stored, but applying the event fails: see PaymentLifecycle. *)
EventLost(e) ==
  /\ e \in events /\ events' = events \ {e}
  /\ faults < MaxFaults /\ faults' = faults + 1
  /\ displaced' = displaced \cup {e[2]}
  /\ UNCHANGED <<row, hold, intent, answer, noted, run, calls>>

-----------------------------------------------------------------------------
Call(c) ==
  \/ \E h \in Holds \cup {NoHold} : BeginPrepare(c, h)
  \/ \E h \in Holds, t \in Tries \cup {NoIntent} : BeginConfirm(c, h, t)
  \/ Gate(c) \/ Retrieve(c) \/ Reset(c) \/ Create(c) \/ Record(c)
  \/ \E o \in Outcomes : Charge(c, o)
  \/ ChargeAgain(c) \/ Fail(c) \/ Mark(c) \/ Book(c) \/ Recover(c)

World ==
  \/ \E p \in Intents, o \in Outcomes : Pay(p, o)
  \/ \E p \in Intents : Cancel(p) \/ DeliverSuccess(p) \/ DeliverFailure(p)
  \/ \E h \in Holds : HoldMoves(h)
  \/ \E c \in Calls : CallFails(c)
  \/ \E e \in Events : EventLost(e)

Next == (\E c \in Calls : Call(c)) \/ World

Spec == Init /\ [][Next]_vars

-----------------------------------------------------------------------------
(* Properties *)

DepositTypeOK ==
  /\ row \in Row
  /\ hold \in [Holds -> HoldStates]
  /\ intent \in [Intents -> Intent]
  /\ answer \in [Tries -> Answer]
  /\ events \subseteq Events
  /\ noted \subseteq Intents
  /\ run \in [Calls -> Run]
  /\ calls \in 0 .. MaxCalls /\ faults \in 0 .. MaxFaults
  /\ displaced \subseteq Intents

(* No booking gets a crew on this way before Stripe has money for it.  The *)
(* call that confirms may have read the row, the hold and the intent long  *)
(* before, and the hold may not be the one that was paid for.              *)
AssignedIsPaid ==
  row.status = "assigned" => \E p \in Intents : Paid(p)

(* A deposit that counts as paid names an intent that has been paid: what  *)
(* a refund of the deposit asks Stripe for.                                *)
SettledNamesPaid ==
  Settled => row.pi \in Intents /\ Paid(row.pi)

(* Money at Stripe is never forgotten: each paid intent is the deposit of  *)
(* the booking, or noted as one too many, or its event is still to come;   *)
(* unless the event was lost, or the deposit was there and a write of      *)
(* something older has displaced it.                                       *)
PaidIsAccountedFor ==
  \A p \in Intents :
    Paid(p) =>
      \/ Settled /\ row.pi = p
      \/ p \in noted
      \/ <<"payment_intent.succeeded", p>> \in events
      \/ p \in displaced

(* A call that has seen the deposit succeeded never takes that back: only  *)
(* a call that had read the booking before, or the late event of a         *)
(* failure, does.                                                          *)
SeenStays ==
  [][ \A c \in Calls :
        Settled /\ run[c].saw /\ run'[c] # run[c] =>
          row'.deposit = "deposit_succeeded" /\ row'.pi = row.pi ]_vars

=============================================================================
