------------------------ MODULE PublicDepositProofs ------------------------
(***************************************************************************)
(* Proofs about PublicDeposit, for any holds, client keys and calls: types *)
(* are kept, no booking is assigned unpaid, a deposit that counts as paid  *)
(* has been paid, no paid intent is forgotten, and no call takes back a    *)
(* success it has seen.                                                    *)
(*                                                                         *)
(* The inductive invariant says what each call knows at its stage: a call  *)
(* that is about to mark a success has an intent that has been paid, and   *)
(* Stripe never takes that back; a call that has seen the deposit succeed  *)
(* has no way to a stage that writes anything else.                        *)
(***************************************************************************)
EXTENDS PublicDeposit, TLAPS

PaidOnes == { p \in Intents : Paid(p) }

(* What the stage of a call says of its record, when P have been paid. *)
Fit(r, P) ==
  /\ r.stage \in {"retrieve", "fail", "record", "mark"} => r.pi \in Intents
  /\ r.stage = "charge" => r.try \in Tries
  /\ r.stage = "mark" => r.pi \in P
  /\ r.stage \in {"book", "recover"} => P # {}
  /\ r.saw => /\ r.stage \in {"retrieve", "mark", "book", "recover"}
              /\ r.stage = "retrieve" => r.pi \in P

AllFit == \A c \in Calls : Fit(run[c], PaidOnes)

(* Stripe's word, in events and in answers that it repeats. *)
Word ==
  /\ \A p \in Intents : <<"payment_intent.succeeded", p>> \in events => p \in PaidOnes
  /\ \A t \in Tries :
       /\ answer[t].outcome # "none" => answer[t].for \in Intents
       /\ answer[t].outcome = "succeeded" => answer[t].for \in PaidOnes

Money ==
  /\ row.authorized => PaidOnes # {}
  /\ SettledNamesPaid /\ AssignedIsPaid /\ PaidIsAccountedFor

IInv == DepositTypeOK /\ AllFit /\ Word /\ Money

-----------------------------------------------------------------------------
(* The disjuncts of Next. *)
LEMMA StepKinds ==
  ASSUME Next
  PROVE  \/ \E c \in Calls, h \in Holds \cup {NoHold} : BeginPrepare(c, h)
         \/ \E c \in Calls, h \in Holds, t \in Tries \cup {NoIntent} :
              BeginConfirm(c, h, t)
         \/ \E c \in Calls : Gate(c)
         \/ \E c \in Calls : Retrieve(c)
         \/ \E c \in Calls : Reset(c)
         \/ \E c \in Calls : Create(c)
         \/ \E c \in Calls : Record(c)
         \/ \E c \in Calls, o \in Outcomes : Charge(c, o)
         \/ \E c \in Calls : ChargeAgain(c)
         \/ \E c \in Calls : Fail(c)
         \/ \E c \in Calls : Mark(c)
         \/ \E c \in Calls : Book(c)
         \/ \E c \in Calls : Recover(c)
         \/ \E p \in Intents, o \in Outcomes : Pay(p, o)
         \/ \E p \in Intents : Cancel(p)
         \/ \E p \in Intents : DeliverSuccess(p)
         \/ \E p \in Intents : DeliverFailure(p)
         \/ \E h \in Holds : HoldMoves(h)
         \/ \E c \in Calls : CallFails(c)
         \/ \E e \in Events : EventLost(e)
BY DEF Next, Call, World

(* What becomes of the record of a call. *)
LEMMA RunsTyped ==
  ASSUME DepositTypeOK, NEW c \in Calls
  PROVE  /\ run[c] \in Run
         /\ Idle \in Run
         /\ \A s \in Stages : /\ [run[c] EXCEPT !.stage = s] \in Run
                              /\ [run EXCEPT ![c].stage = s]
                                   = [run EXCEPT ![c] = [run[c] EXCEPT !.stage = s]]
         /\ \A s \in Stages, p \in Intents \cup {NoIntent} :
              /\ [run[c] EXCEPT !.stage = s, !.pi = p] \in Run
              /\ [run EXCEPT ![c].stage = s, ![c].pi = p]
                   = [run EXCEPT ![c] = [run[c] EXCEPT !.stage = s, !.pi = p]]
<1>1. run[c] \in Run
  BY DEF DepositTypeOK
<1>2. Idle \in Run
  BY DEF Run, Idle, Stages
<1>3. ASSUME NEW s \in Stages
      PROVE  /\ [run[c] EXCEPT !.stage = s] \in Run
             /\ [run EXCEPT ![c].stage = s] = [run EXCEPT ![c] = [run[c] EXCEPT !.stage = s]]
  BY <1>1 DEF DepositTypeOK, Run
<1>4. ASSUME NEW s \in Stages, NEW p \in Intents \cup {NoIntent}
      PROVE  /\ [run[c] EXCEPT !.stage = s, !.pi = p] \in Run
             /\ [run EXCEPT ![c].stage = s, ![c].pi = p]
                  = [run EXCEPT ![c] = [run[c] EXCEPT !.stage = s, !.pi = p]]
  BY <1>1 DEF DepositTypeOK, Run
<1> QED BY <1>1, <1>2, <1>3, <1>4

(* A call that is through fits anywhere, and so does one that goes on to a *)
(* stage of which nothing is asked.                                        *)
LEMMA IdleFits == \A P : Fit(Idle, P)
BY DEF Fit, Idle

(* A call moves to a record that fits, and the others stay. *)
LEMMA Moved ==
  ASSUME DepositTypeOK, AllFit, NEW c \in Calls, NEW r \in Run,
         run' = [run EXCEPT ![c] = r], Fit(r, PaidOnes'), PaidOnes \subseteq PaidOnes'
  PROVE  run' \in [Calls -> Run] /\ AllFit'
<1>1. run' \in [Calls -> Run]
  BY DEF DepositTypeOK
<1>2. ASSUME NEW d \in Calls PROVE Fit(run'[d], PaidOnes')
  <2>1. CASE d = c
    BY <2>1 DEF DepositTypeOK
  <2>2. CASE d # c
    <3>1. run'[d] = run[d] /\ Fit(run[d], PaidOnes)
      BY <2>2 DEF DepositTypeOK, AllFit
    <3> QED BY <3>1 DEF Fit
  <2> QED BY <2>1, <2>2
<1> QED BY <1>1, <1>2 DEF AllFit

(* All calls stay where they are. *)
LEMMA Stayed ==
  ASSUME DepositTypeOK, AllFit, UNCHANGED run, PaidOnes \subseteq PaidOnes'
  PROVE  run' \in [Calls -> Run] /\ AllFit'
BY DEF DepositTypeOK, AllFit, Fit

(* Where intents stay, so do those that have been paid. *)
LEMMA PaidStays ==
  ASSUME UNCHANGED intent PROVE PaidOnes' = PaidOnes
BY DEF PaidOnes, Paid

LEMMA WordStays ==
  ASSUME Word, UNCHANGED <<intent, answer>>, events' \subseteq events
  PROVE  Word'
BY PaidStays DEF Word

(* The money of a booking that is not written. *)
LEMMA MoneyStays ==
  ASSUME Money, UNCHANGED <<row, noted, intent>>, displaced \subseteq displaced',
         \A p \in Intents : <<"payment_intent.succeeded", p>> \in events
           => <<"payment_intent.succeeded", p>> \in events' \/ p \in displaced'
  PROVE  Money'
BY PaidStays DEF Money, SettledNamesPaid, AssignedIsPaid, PaidIsAccountedFor,
   Settled, Paid

(* A write that unsettles the deposit keeps account of it. *)
LEMMA WriteKeeps ==
  ASSUME DepositTypeOK, Money, NEW d \in {"deposit_required", "deposit_failed"},
         NEW p \in Intents \cup {NoIntent}, Write(d, p), UNCHANGED <<noted, intent>>,
         \A q \in Intents : <<"payment_intent.succeeded", q>> \in events
           => <<"payment_intent.succeeded", q>> \in events'
  PROVE  row' \in Row /\ displaced' \subseteq Intents /\ Money'
<1> USE DEF Write
<1>1. row' \in Row
  BY DEF DepositTypeOK, Row
<1>2. row'.deposit = d /\ row'.status = row.status /\ row'.authorized = row.authorized
  BY DEF DepositTypeOK, Row
<1>3. displaced' \subseteq Intents
  BY DEF DepositTypeOK, Money, SettledNamesPaid
<1>4. SettledNamesPaid'
  BY <1>2 DEF SettledNamesPaid, Settled
<1>5. AssignedIsPaid' /\ (row'.authorized => PaidOnes' # {})
  BY <1>2, PaidStays DEF Money, AssignedIsPaid, Paid
<1>6. PaidIsAccountedFor'
  BY <1>2 DEF Money, PaidIsAccountedFor, Settled, Paid
<1> QED BY <1>1, <1>3, <1>4, <1>5, <1>6 DEF Money

(* The success of a paid intent is taken or noted, and replaces no other. *)
LEMMA SucceedsKeeps ==
  ASSUME DepositTypeOK, Money, NEW p \in PaidOnes, Succeeds(p), UNCHANGED intent,
         \A q \in Intents \ {p} : <<"payment_intent.succeeded", q>> \in events
           => <<"payment_intent.succeeded", q>> \in events'
  PROVE  row' \in Row /\ noted' \subseteq Intents /\ displaced' \subseteq Intents /\ Money'
<1>0. p \in Intents /\ Paid(p) /\ UNCHANGED displaced
  BY DEF PaidOnes, Succeeds
<1>1. CASE Settled /\ row.pi \notin {p, NoIntent}
  <2>1. noted' = noted \cup {p} /\ UNCHANGED row
    BY <1>1 DEF Succeeds
  <2>2. SettledNamesPaid' /\ AssignedIsPaid' /\ (row'.authorized => PaidOnes' # {})
    BY <2>1, PaidStays DEF Money, SettledNamesPaid, AssignedIsPaid, Settled, Paid
  <2>3. PaidIsAccountedFor'
    BY <1>0, <2>1 DEF Money, PaidIsAccountedFor, Settled, Paid
  <2> QED BY <1>0, <2>1, <2>2, <2>3 DEF DepositTypeOK, Money
<1>2. CASE ~(Settled /\ row.pi \notin {p, NoIntent})
  <2>1. /\ row' = [row EXCEPT !.deposit = "deposit_succeeded", !.pi = p,
                                !.authorized = TRUE]
        /\ UNCHANGED noted
    BY <1>2 DEF Succeeds
  <2>2. row' \in Row
    BY <1>0, <2>1 DEF DepositTypeOK, Row
  <2>3. row'.deposit = "deposit_succeeded" /\ row'.pi = p
    BY <2>1 DEF DepositTypeOK, Row
  <2>4. SettledNamesPaid' /\ AssignedIsPaid' /\ PaidOnes' # {}
    BY <1>0, <2>3, PaidStays DEF SettledNamesPaid, AssignedIsPaid, Paid
  <2>5. ~Settled \/ row.pi = p
    BY <1>0, <1>2, DepositAssumption DEF Money, SettledNamesPaid, Intents
  <2>6. PaidIsAccountedFor'
    BY <1>0, <2>1, <2>3, <2>5 DEF Money, PaidIsAccountedFor, Settled, Paid
  <2> QED BY <1>0, <2>1, <2>2, <2>4, <2>6 DEF DepositTypeOK, Money
<1> QED BY <1>1, <1>2

(* A booking is assigned once there is money for it. *)
LEMMA AssignKeeps ==
  ASSUME DepositTypeOK, Money, PaidOnes # {}, UNCHANGED <<noted, intent, events,
     displaced>>,
         row' = row \/ row' = [row EXCEPT !.status = "assigned"]
  PROVE  row' \in Row /\ Money'
<1>1. row' \in Row
  BY DEF DepositTypeOK, Row
<1>2. row'.deposit = row.deposit /\ row'.pi = row.pi /\ row'.authorized = row.authorized
  BY DEF DepositTypeOK, Row
<1>3. SettledNamesPaid' /\ PaidIsAccountedFor'
  BY <1>2 DEF Money, SettledNamesPaid, PaidIsAccountedFor, Settled, Paid
<1>4. AssignedIsPaid' /\ PaidOnes' # {}
  BY PaidStays DEF AssignedIsPaid, PaidOnes, Paid
<1> QED BY <1>1, <1>3, <1>4 DEF Money

-----------------------------------------------------------------------------
LEMMA BeginPrepareKeeps ==
  ASSUME IInv, NEW c \in Calls, NEW h \in Holds \cup {NoHold}, BeginPrepare(c, h)
  PROVE  IInv'
<1> USE DEF IInv, BeginPrepare
<1>1. PaidOnes' = PaidOnes
  BY PaidStays DEF stripe
<1>0. PICK r \in Run : run' = [run EXCEPT ![c] = r] /\ Fit(r, PaidOnes)
  <2> DEFINE r == [Idle EXCEPT !.stage = IF row.pi = NoIntent THEN "create" ELSE "retrieve",
                               !.hold = h, !.late = Late(h), !.pi = row.pi]
  <2>1. Late(h) \in BOOLEAN /\ row.pi \in Intents \cup {NoIntent}
    BY DEF Late, DepositTypeOK, Row
  <2>2. r \in Run /\ Fit(r, PaidOnes)
    BY <2>1 DEF Idle, Run, Stages, Fit
  <2> QED BY <2>2
<1>2. run' \in [Calls -> Run] /\ AllFit'
  BY <1>0, <1>1, Moved
<1>3. Word'
  BY WordStays DEF stripe
<1>4. Money' /\ row' \in Row /\ noted' \subseteq Intents /\ displaced' \subseteq Intents
  BY MoneyStays DEF stripe, DepositTypeOK
<1>5. /\ hold' \in [Holds -> HoldStates] /\ intent' \in [Intents -> Intent]
      /\ answer' \in [Tries -> Answer] /\ events' \subseteq Events
      /\ calls' \in 0 .. MaxCalls /\ faults' \in 0 .. MaxFaults
  BY DepositAssumption DEF DepositTypeOK, stripe
<1> QED BY <1>1, <1>2, <1>3, <1>4, <1>5 DEF DepositTypeOK

(* A hold that has expired is made up for after a success only. *)
LEMMA BeginConfirmKeeps ==
  ASSUME IInv, NEW c \in Calls, NEW h \in Holds, NEW t \in Tries \cup {NoIntent},
     BeginConfirm(c, h, t)
  PROVE  IInv'
<1> USE DEF IInv, BeginConfirm
<1>1. PaidOnes' = PaidOnes
  BY PaidStays DEF stripe
<1>0. PICK r \in Run : run' = [run EXCEPT ![c] = r] /\ Fit(r, PaidOnes)
  <2> DEFINE r == [Idle EXCEPT !.stage = IF Late(h) THEN "recover" ELSE "gate",
                               !.confirms = TRUE, !.hold = h, !.try = t]
  <2>1. Late(h) => PaidOnes # {}
    BY DEF Money, SettledNamesPaid, PaidOnes
  <2>2. r \in Run /\ Fit(r, PaidOnes)
    BY <2>1 DEF Idle, Run, Stages, Fit
  <2> QED BY <2>2
<1>2. run' \in [Calls -> Run] /\ AllFit'
  BY <1>0, <1>1, Moved
<1>3. Word'
  BY WordStays DEF stripe
<1>4. Money' /\ row' \in Row /\ noted' \subseteq Intents /\ displaced' \subseteq Intents
  BY MoneyStays DEF stripe, DepositTypeOK
<1>5. /\ hold' \in [Holds -> HoldStates] /\ intent' \in [Intents -> Intent]
      /\ answer' \in [Tries -> Answer] /\ events' \subseteq Events
      /\ calls' \in 0 .. MaxCalls /\ faults' \in 0 .. MaxFaults
  BY DepositAssumption DEF DepositTypeOK, stripe
<1> QED BY <1>1, <1>2, <1>3, <1>4, <1>5 DEF DepositTypeOK

(* Here a call sees whether the deposit has succeeded. *)
LEMMA GateKeeps ==
  ASSUME IInv, NEW c \in Calls, Gate(c)
  PROVE  IInv'
<1> USE DEF IInv, Gate
<1>1. PaidOnes' = PaidOnes
  BY PaidStays DEF stripe
<1>0. PICK r \in Run : run' = [run EXCEPT ![c] = r] /\ Fit(r, PaidOnes)
  <2>1. CASE row.status # "pending_payment"
    <3>1. PaidOnes # {} /\ run[c].saw \in BOOLEAN
      BY <2>1 DEF Money, AssignedIsPaid, PaidOnes, DepositTypeOK, Row, Run
    <3>2. Fit([run[c] EXCEPT !.stage = "book"], PaidOnes)
      BY <3>1 DEF Fit, DepositTypeOK, Run, AllFit
    <3> QED BY <2>1, <3>2, RunsTyped DEF Goto, Stages
  <2>2. CASE Idle = run'[c] /\ run' = [run EXCEPT ![c] = Idle]
    BY <2>2, RunsTyped, IdleFits
  <2>3. ASSUME NEW s \in {"retrieve", "charge", "create"},
               s = "retrieve" => row.pi # NoIntent,
               s # "retrieve" => row.pi = NoIntent,
               s = "charge" => run[c].try # NoIntent,
               run' = [run EXCEPT ![c] = [run[c] EXCEPT !.stage = s,
               !.late = Late(run[c].hold),
                                                        !.pi = row.pi, !.saw = Settled]]
        PROVE  \E r \in Run : run' = [run EXCEPT ![c] = r] /\ Fit(r, PaidOnes)
    <3> DEFINE r == [run[c] EXCEPT !.stage = s, !.late = Late(run[c].hold),
                                   !.pi = row.pi, !.saw = Settled]
    <3>1. Late(run[c].hold) \in BOOLEAN /\ Settled \in BOOLEAN
      BY DEF Late, Settled
    <3>2. run[c] \in Run /\ row.pi \in Intents \cup {NoIntent}
      BY DEF DepositTypeOK, Row
    <3>3. Settled => row.pi \in PaidOnes /\ row.pi # NoIntent
      BY DepositAssumption DEF Money, SettledNamesPaid, PaidOnes, Intents
    <3>4. r \in Run
      BY <2>3, <3>1, <3>2 DEF Run, Stages
    <3>5. r.stage = s /\ r.pi = row.pi /\ r.saw = Settled /\ r.try = run[c].try
      BY <3>2 DEF Run
    <3>6. Fit(r, PaidOnes)
      BY <2>3, <3>2, <3>3, <3>5 DEF Fit, Run
    <3> QED BY <2>3, <3>4, <3>6
  <2> QED BY <2>1, <2>2, <2>3 DEF Ends, DepositTypeOK
<1>2. run' \in [Calls -> Run] /\ AllFit'
  BY <1>0, <1>1, Moved
<1>3. Word'
  BY WordStays DEF stripe
<1>4. Money' /\ row' \in Row /\ noted' \subseteq Intents /\ displaced' \subseteq Intents
  BY MoneyStays DEF stripe, DepositTypeOK
<1>5. /\ hold' \in [Holds -> HoldStates] /\ intent' \in [Intents -> Intent]
      /\ answer' \in [Tries -> Answer] /\ events' \subseteq Events
      /\ calls' \in 0 .. MaxCalls /\ faults' \in 0 .. MaxFaults
  BY DepositAssumption DEF DepositTypeOK, stripe
<1> QED BY <1>1, <1>2, <1>3, <1>4, <1>5 DEF DepositTypeOK

(* A call that has seen the deposit succeed finds its intent paid. *)
LEMMA RetrieveKeeps ==
  ASSUME IInv, NEW c \in Calls, Retrieve(c)
  PROVE  IInv'
<1> USE DEF IInv, Retrieve
<1>1. PaidOnes' = PaidOnes
  BY PaidStays DEF stripe
<1>0. PICK r \in Run : run' = [run EXCEPT ![c] = r] /\ Fit(r, PaidOnes)
  <2> DEFINE v == Verdict(run[c], run[c].pi)
             q == IF intent[run[c].pi].status = "canceled" THEN NoIntent ELSE run[c].pi
  <2>0. run[c] \in Run /\ run[c].pi \in Intents
    BY DEF DepositTypeOK, AllFit, Fit
  <2>1. CASE v = "idle"
    BY <2>1, RunsTyped, IdleFits
  <2>2. CASE v # "idle"
    <3>1. v \in {"mark", "charge", "reset"} /\ q \in Intents \cup {NoIntent}
      BY <2>0, <2>2 DEF Verdict
    <3>2. v = "mark" => run[c].pi \in PaidOnes /\ q = run[c].pi
      BY <2>0 DEF Verdict, PaidOnes, Paid
    <3>3. v = "charge" => run[c].try \in Tries
      BY <2>0 DEF Verdict, Run
    <3>4. run[c].saw => v = "mark"
      BY <2>0, <2>2 DEF AllFit, Fit, PaidOnes, Paid, Verdict
    <3>5. Fit([run[c] EXCEPT !.stage = v, !.pi = q], PaidOnes)
      BY <2>0, <3>1, <3>2, <3>3, <3>4 DEF Fit, Run, PaidOnes
    <3>6. [run[c] EXCEPT !.stage = v, !.pi = q] \in Run
      BY <3>1, RunsTyped DEF Stages
    <3>7. run' = [run EXCEPT ![c] = [run[c] EXCEPT !.stage = v, !.pi = q]]
      BY <2>2
    <3> QED BY <3>5, <3>6, <3>7
  <2> QED BY <2>1, <2>2
<1>2. run' \in [Calls -> Run] /\ AllFit'
  BY <1>0, <1>1, Moved
<1>3. Word'
  BY WordStays DEF stripe
<1>4. Money' /\ row' \in Row /\ noted' \subseteq Intents /\ displaced' \subseteq Intents
  BY MoneyStays DEF stripe, DepositTypeOK
<1>5. /\ hold' \in [Holds -> HoldStates] /\ intent' \in [Intents -> Intent]
      /\ answer' \in [Tries -> Answer] /\ events' \subseteq Events
      /\ calls' \in 0 .. MaxCalls /\ faults' \in 0 .. MaxFaults
  BY DepositAssumption DEF DepositTypeOK, stripe
<1> QED BY <1>1, <1>2, <1>3, <1>4, <1>5 DEF DepositTypeOK

LEMMA ResetKeeps ==
  ASSUME IInv, NEW c \in Calls, Reset(c)
  PROVE  IInv'
<1> USE DEF IInv, Reset
<1>1. PaidOnes' = PaidOnes
  BY PaidStays DEF stripe
<1>0. PICK r \in Run : run' = [run EXCEPT ![c] = r] /\ Fit(r, PaidOnes)
  <2>1. Fit([run[c] EXCEPT !.stage = "create"], PaidOnes)
    BY DEF AllFit, Fit, DepositTypeOK, Run
  <2> QED BY <2>1, RunsTyped DEF Goto, Stages
<1>2. run' \in [Calls -> Run] /\ AllFit'
  BY <1>0, <1>1, Moved
<1>3. Word'
  BY WordStays DEF stripe
<1>4. Money' /\ row' \in Row /\ noted' \subseteq Intents /\ displaced' \subseteq Intents
  BY WriteKeeps DEF stripe, DepositTypeOK
<1>5. /\ hold' \in [Holds -> HoldStates] /\ intent' \in [Intents -> Intent]
      /\ answer' \in [Tries -> Answer] /\ events' \subseteq Events
      /\ calls' \in 0 .. MaxCalls /\ faults' \in 0 .. MaxFaults
  BY DepositAssumption DEF DepositTypeOK, stripe
<1> QED BY <1>1, <1>2, <1>3, <1>4, <1>5 DEF DepositTypeOK

LEMMA CreateKeeps ==
  ASSUME IInv, NEW c \in Calls, Create(c)
  PROVE  IInv'
<1> USE DEF IInv, Create
<1>0. run[c].hold \in Intents /\ run[c].hold \in Holds \cup {NoHold}
  BY DEF DepositTypeOK, Run, Intents
<1>1. PaidOnes' = PaidOnes
  BY <1>0 DEF PaidOnes, Paid, DepositTypeOK, Intent
<1>6. PICK r \in Run : run' = [run EXCEPT ![c] = r] /\ Fit(r, PaidOnes)
  <2>1. Fit([run[c] EXCEPT !.stage = "record", !.pi = run[c].hold], PaidOnes)
    BY <1>0 DEF AllFit, Fit, DepositTypeOK, Run
  <2>2. run' = [run EXCEPT ![c].stage = "record", ![c].pi = run[c].hold]
    OBVIOUS
  <2>3. /\ [run[c] EXCEPT !.stage = "record", !.pi = run[c].hold] \in Run
        /\ run' = [run EXCEPT ![c] = [run[c] EXCEPT !.stage = "record",
                                                     !.pi = run[c].hold]]
    <3>1. "record" \in Stages /\ run[c].hold \in Intents \cup {NoIntent}
      BY <1>0 DEF Stages
    <3> HIDE DEF Create
    <3> QED BY <2>2, <3>1, RunsTyped
  <2> QED BY <2>1, <2>3
<1>2. run' \in [Calls -> Run] /\ AllFit'
  BY <1>1, <1>6, Moved
<1>3. Word'
  BY <1>1 DEF Word
<1>4. Money' /\ row' \in Row /\ noted' \subseteq Intents /\ displaced' \subseteq Intents
  <2>1. \A p \in Intents : Paid(p)' <=> Paid(p)
    BY <1>1 DEF PaidOnes
  <2> QED BY <1>1, <2>1 DEF Money, SettledNamesPaid, AssignedIsPaid, PaidIsAccountedFor,
         Settled, DepositTypeOK
<1>5. /\ hold' \in [Holds -> HoldStates] /\ intent' \in [Intents -> Intent]
      /\ answer' \in [Tries -> Answer] /\ events' \subseteq Events
      /\ calls' \in 0 .. MaxCalls /\ faults' \in 0 .. MaxFaults
  BY <1>0 DEF DepositTypeOK, Intent, Statuses
<1> QED BY <1>1, <1>2, <1>3, <1>4, <1>5 DEF DepositTypeOK

LEMMA RecordKeeps ==
  ASSUME IInv, NEW c \in Calls, Record(c)
  PROVE  IInv'
<1> USE DEF IInv, Record
<1>1. PaidOnes' = PaidOnes
  BY PaidStays DEF stripe
<1>0. PICK r \in Run : run' = [run EXCEPT ![c] = r] /\ Fit(r, PaidOnes)
  BY RunsTyped, IdleFits DEF Ends
<1>2. run' \in [Calls -> Run] /\ AllFit'
  BY <1>0, <1>1, Moved
<1>3. Word'
  BY WordStays DEF stripe
<1>4. Money' /\ row' \in Row /\ noted' \subseteq Intents /\ displaced' \subseteq Intents
  BY WriteKeeps DEF stripe, DepositTypeOK, AllFit, Fit
<1>5. /\ hold' \in [Holds -> HoldStates] /\ intent' \in [Intents -> Intent]
      /\ answer' \in [Tries -> Answer] /\ events' \subseteq Events
      /\ calls' \in 0 .. MaxCalls /\ faults' \in 0 .. MaxFaults
  BY DepositAssumption DEF DepositTypeOK, stripe
<1> QED BY <1>1, <1>2, <1>3, <1>4, <1>5 DEF DepositTypeOK

(* The charge of an intent that has not been paid. *)
LEMMA ChargeKeeps ==
  ASSUME IInv, NEW c \in Calls, NEW o \in Outcomes, Charge(c, o)
  PROVE  IInv'
<1> USE DEF IInv, Charge, Counts
<1> DEFINE p == Charged(run[c])
<1>0. run[c] \in Run /\ run[c].try \in Tries /\ p \in Intents /\ ~run[c].saw
      /\ HoldSent(run[c]) \in Holds \cup {NoHold} /\ run[c].hold \in Holds \cup {NoHold}
  BY DEF DepositTypeOK, Run, AllFit, Fit, Charged, HoldSent, Intents
<1>6. /\ intent[p].status \in {"none", "open"}
      /\ answer[run[c].try].outcome = "none"
      /\ intent'[p].status = StatusAfter(o)
      /\ \A q \in Intents \ {p} : intent'[q] = intent[q]
  BY <1>0 DEF DepositTypeOK, Intent
<1>1. PaidOnes' = PaidOnes \cup IF o = "succeeded" THEN {p} ELSE {}
  BY <1>0, <1>6 DEF PaidOnes, Paid, StatusAfter, Outcomes
<1>7. o = "succeeded" => p \in PaidOnes'
  BY <1>1
<1>8. PICK r \in Run : run' = [run EXCEPT ![c] = r] /\ Fit(r, PaidOnes')
  <2>1. CASE o = "succeeded"
    <3>1. Fit([run[c] EXCEPT !.stage = "mark", !.pi = p], PaidOnes')
      BY <1>0, <1>7, <2>1 DEF Fit, Run
    <3> QED BY <1>0, <2>1, <3>1, RunsTyped DEF Answered, Stages
  <2>2. CASE o = "processing"
    <3>1. Fit([run[c] EXCEPT !.stage = "fail", !.pi = p], PaidOnes')
      BY <1>0, <2>2 DEF Fit, Run
    <3> QED BY <1>0, <2>2, <3>1, RunsTyped DEF Answered, Stages
  <2>3. CASE o \notin {"succeeded", "processing"}
    BY <2>3, RunsTyped, IdleFits DEF Answered, Ends
  <2> QED BY <2>1, <2>2, <2>3
<1>2. run' \in [Calls -> Run] /\ AllFit'
  BY <1>1, <1>8, Moved
<1>3. Word'
  <2>1. ASSUME NEW q \in Intents, <<"payment_intent.succeeded", q>> \in events'
        PROVE  q \in PaidOnes'
    BY <1>1, <2>1 DEF Word, EventOf, Outcomes
  <2>2. ASSUME NEW t \in Tries
        PROVE  /\ answer'[t].outcome # "none" => answer'[t].for \in Intents
               /\ answer'[t].outcome = "succeeded" => answer'[t].for \in PaidOnes'
    <3>1. CASE t = run[c].try
      <4>1. answer'[t] = [for |-> p, hold |-> HoldSent(run[c]), outcome |-> o]
        BY <1>0, <3>1 DEF DepositTypeOK
      <4> QED BY <1>0, <1>7, <4>1
    <3>2. CASE t # run[c].try
      <4>1. answer'[t] = answer[t]
        BY <1>0, <3>2 DEF DepositTypeOK
      <4> QED BY <1>1, <4>1 DEF Word
    <3> QED BY <3>1, <3>2
  <2> QED BY <2>1, <2>2 DEF Word
<1>4. Money' /\ row' \in Row /\ noted' \subseteq Intents /\ displaced' \subseteq Intents
  <2>1. \A q \in Intents : Paid(q)' <=> Paid(q) \/ (q = p /\ o = "succeeded")
    BY <1>0, <1>1, <1>7 DEF PaidOnes
  <2>2. o = "succeeded" => <<"payment_intent.succeeded", p>> \in events'
    BY DEF EventOf
  <2>3. events \subseteq events' /\ UNCHANGED <<row, noted, displaced>>
    OBVIOUS
  <2> HIDE DEF Charge, p
  <2>4. PaidIsAccountedFor'
    BY <2>1, <2>2, <2>3 DEF Money, PaidIsAccountedFor, Settled
  <2>5. SettledNamesPaid' /\ AssignedIsPaid' /\ (row'.authorized => PaidOnes' # {})
    BY <1>1, <2>1, <2>3 DEF Money, SettledNamesPaid, AssignedIsPaid, Settled
  <2> QED BY <2>3, <2>4, <2>5 DEF Money, DepositTypeOK
<1>5. /\ hold' \in [Holds -> HoldStates] /\ intent' \in [Intents -> Intent]
      /\ answer' \in [Tries -> Answer] /\ events' \subseteq Events
      /\ calls' \in 0 .. MaxCalls /\ faults' \in 0 .. MaxFaults
  <2>1. intent[p].hold \in Holds \cup {NoHold} /\ StatusAfter(o) \in Statuses
    BY <1>0 DEF DepositTypeOK, Intent, StatusAfter, Outcomes, Statuses
  <2>2. intent' \in [Intents -> Intent]
    <3>1. \A h \in Holds \cup {NoHold} :
            [status |-> StatusAfter(o), hold |-> h] \in Intent
      BY <2>1 DEF Intent
    <3> QED BY <1>0, <2>1, <3>1 DEF DepositTypeOK
  <2>3. answer' \in [Tries -> Answer]
    <3>1. [for |-> p, hold |-> HoldSent(run[c]), outcome |-> o] \in Answer
      BY <1>0 DEF Answer
    <3> QED BY <1>0, <3>1 DEF DepositTypeOK
  <2>4. EventOf(o, p) \subseteq Events
    BY <1>0 DEF EventOf, Events
  <2>5. faults' \in 0 .. MaxFaults
    BY DepositAssumption DEF DepositTypeOK
  <2> QED BY <2>2, <2>3, <2>4, <2>5 DEF DepositTypeOK
<1> QED BY <1>1, <1>2, <1>3, <1>4, <1>5 DEF DepositTypeOK

(* An answer that Stripe repeats is still true. *)
LEMMA ChargeAgainKeeps ==
  ASSUME IInv, NEW c \in Calls, ChargeAgain(c)
  PROVE  IInv'
<1> USE DEF IInv, ChargeAgain
<1>1. PaidOnes' = PaidOnes
  BY PaidStays DEF stripe
<1>0. PICK r \in Run : run' = [run EXCEPT ![c] = r] /\ Fit(r, PaidOnes)
  <2> DEFINE a == answer[run[c].try]
  <2>0. run[c] \in Run /\ run[c].try \in Tries /\ ~run[c].saw
    BY DEF DepositTypeOK, Run, AllFit, Fit
  <2>1. CASE run' = [run EXCEPT ![c] = Idle]
    BY <2>1, RunsTyped, IdleFits
  <2>2. CASE a.outcome # "none" /\ Answered(c, a.for, a.outcome)
    <3>1. a.for \in Intents /\ (a.outcome = "succeeded" => a.for \in PaidOnes)
      BY <2>0, <2>2 DEF Word
    <3>2. CASE a.outcome = "succeeded"
      <4>1. Fit([run[c] EXCEPT !.stage = "mark", !.pi = a.for], PaidOnes)
        BY <2>0, <3>1, <3>2 DEF Fit, Run
      <4>2. run' = [run EXCEPT ![c].stage = "mark", ![c].pi = a.for]
        BY <2>2, <3>2 DEF Answered
      <4>3. "mark" \in Stages /\ a.for \in Intents \cup {NoIntent}
        BY <3>1 DEF Stages
      <4>4. /\ [run[c] EXCEPT !.stage = "mark", !.pi = a.for] \in Run
            /\ run' = [run EXCEPT ![c] = [run[c] EXCEPT !.stage = "mark", !.pi = a.for]]
        <5> HIDE DEF ChargeAgain, a
        <5> QED BY <4>2, <4>3, RunsTyped
      <4> QED BY <4>1, <4>4
    <3>3. CASE a.outcome = "processing"
      <4>1. Fit([run[c] EXCEPT !.stage = "fail", !.pi = a.for], PaidOnes)
        BY <2>0, <3>1, <3>3 DEF Fit, Run
      <4>2. run' = [run EXCEPT ![c].stage = "fail", ![c].pi = a.for]
        BY <2>2, <3>3 DEF Answered
      <4>3. "fail" \in Stages /\ a.for \in Intents \cup {NoIntent}
        BY <3>1 DEF Stages
      <4>4. /\ [run[c] EXCEPT !.stage = "fail", !.pi = a.for] \in Run
            /\ run' = [run EXCEPT ![c] = [run[c] EXCEPT !.stage = "fail", !.pi = a.for]]
        <5> HIDE DEF ChargeAgain, a
        <5> QED BY <4>2, <4>3, RunsTyped
      <4> QED BY <4>1, <4>4
    <3>4. CASE a.outcome \notin {"succeeded", "processing"}
      BY <2>2, <3>4, RunsTyped, IdleFits DEF Answered, Ends
    <3> QED BY <3>2, <3>3, <3>4
  <2> QED BY <2>1, <2>2 DEF Ends
<1>2. run' \in [Calls -> Run] /\ AllFit'
  BY <1>0, <1>1, Moved
<1>3. Word'
  BY WordStays DEF stripe
<1>4. Money' /\ row' \in Row /\ noted' \subseteq Intents /\ displaced' \subseteq Intents
  BY MoneyStays DEF stripe, DepositTypeOK
<1>5. /\ hold' \in [Holds -> HoldStates] /\ intent' \in [Intents -> Intent]
      /\ answer' \in [Tries -> Answer] /\ events' \subseteq Events
      /\ calls' \in 0 .. MaxCalls /\ faults' \in 0 .. MaxFaults
  BY DepositAssumption DEF DepositTypeOK, stripe
<1> QED BY <1>1, <1>2, <1>3, <1>4, <1>5 DEF DepositTypeOK

LEMMA FailKeeps ==
  ASSUME IInv, NEW c \in Calls, Fail(c)
  PROVE  IInv'
<1> USE DEF IInv, Fail
<1>1. PaidOnes' = PaidOnes
  BY PaidStays DEF stripe
<1>0. PICK r \in Run : run' = [run EXCEPT ![c] = r] /\ Fit(r, PaidOnes)
  BY RunsTyped, IdleFits DEF Ends
<1>2. run' \in [Calls -> Run] /\ AllFit'
  BY <1>0, <1>1, Moved
<1>3. Word'
  BY WordStays DEF stripe
<1>4. Money' /\ row' \in Row /\ noted' \subseteq Intents /\ displaced' \subseteq Intents
  BY WriteKeeps DEF stripe, DepositTypeOK, AllFit, Fit
<1>5. /\ hold' \in [Holds -> HoldStates] /\ intent' \in [Intents -> Intent]
      /\ answer' \in [Tries -> Answer] /\ events' \subseteq Events
      /\ calls' \in 0 .. MaxCalls /\ faults' \in 0 .. MaxFaults
  BY DepositAssumption DEF DepositTypeOK, stripe
<1> QED BY <1>1, <1>2, <1>3, <1>4, <1>5 DEF DepositTypeOK

LEMMA MarkKeeps ==
  ASSUME IInv, NEW c \in Calls, Mark(c)
  PROVE  IInv'
<1> USE DEF IInv, Mark
<1>1. PaidOnes' = PaidOnes
  BY PaidStays DEF stripe
<1>6. run[c].pi \in PaidOnes
  BY DEF AllFit, Fit
<1>0. PICK r \in Run : run' = [run EXCEPT ![c] = r] /\ Fit(r, PaidOnes)
  <2>1. Fit([run[c] EXCEPT !.stage = "book"], PaidOnes)
    BY <1>6 DEF AllFit, Fit, DepositTypeOK, Run
  <2> QED BY <2>1, RunsTyped, IdleFits DEF Goto, Ends, Stages
<1>2. run' \in [Calls -> Run] /\ AllFit'
  BY <1>0, <1>1, Moved
<1>3. Word'
  BY WordStays DEF stripe
<1>4. Money' /\ row' \in Row /\ noted' \subseteq Intents /\ displaced' \subseteq Intents
  BY <1>6, SucceedsKeeps DEF stripe
<1>5. /\ hold' \in [Holds -> HoldStates] /\ intent' \in [Intents -> Intent]
      /\ answer' \in [Tries -> Answer] /\ events' \subseteq Events
      /\ calls' \in 0 .. MaxCalls /\ faults' \in 0 .. MaxFaults
  BY DepositAssumption DEF DepositTypeOK, stripe
<1> QED BY <1>1, <1>2, <1>3, <1>4, <1>5 DEF DepositTypeOK

LEMMA BookKeeps ==
  ASSUME IInv, NEW c \in Calls, Book(c)
  PROVE  IInv'
<1> USE DEF IInv, Book
<1>1. PaidOnes' = PaidOnes
  BY PaidStays DEF stripe
<1>6. PaidOnes # {}
  BY DEF AllFit, Fit
<1>0. PICK r \in Run : run' = [run EXCEPT ![c] = r] /\ Fit(r, PaidOnes)
  <2>1. Fit([run[c] EXCEPT !.stage = "recover"], PaidOnes)
    BY <1>6 DEF AllFit, Fit, DepositTypeOK, Run
  <2> QED BY <2>1, RunsTyped, IdleFits DEF Goto, Ends, Stages
<1>2. run' \in [Calls -> Run] /\ AllFit'
  BY <1>0, <1>1, Moved
<1>3. Word'
  BY WordStays DEF stripe
<1>4. Money' /\ row' \in Row /\ noted' \subseteq Intents /\ displaced' \subseteq Intents
  <2>1. row' = row \/ row' = [row EXCEPT !.status = "assigned"]
    OBVIOUS
  <2> QED BY <1>1, <1>6, <2>1, AssignKeeps DEF stripe, DepositTypeOK
<1>5. /\ hold' \in [Holds -> HoldStates] /\ intent' \in [Intents -> Intent]
      /\ answer' \in [Tries -> Answer] /\ events' \subseteq Events
      /\ calls' \in 0 .. MaxCalls /\ faults' \in 0 .. MaxFaults
  BY DEF DepositTypeOK, stripe, HoldStates
<1> QED BY <1>1, <1>2, <1>3, <1>4, <1>5 DEF DepositTypeOK

LEMMA RecoverKeeps ==
  ASSUME IInv, NEW c \in Calls, Recover(c)
  PROVE  IInv'
<1> USE DEF IInv, Recover
<1>1. PaidOnes' = PaidOnes
  BY PaidStays DEF stripe
<1>6. PaidOnes # {}
  BY DEF AllFit, Fit
<1>0. PICK r \in Run : run' = [run EXCEPT ![c] = r] /\ Fit(r, PaidOnes)
  BY RunsTyped, IdleFits DEF Ends
<1>2. run' \in [Calls -> Run] /\ AllFit'
  BY <1>0, <1>1, Moved
<1>3. Word'
  BY WordStays DEF stripe
<1>4. Money' /\ row' \in Row /\ noted' \subseteq Intents /\ displaced' \subseteq Intents
  <2>1. row' = row \/ row' = [row EXCEPT !.status = "assigned"]
    OBVIOUS
  <2> QED BY <1>1, <1>6, <2>1, AssignKeeps DEF stripe, DepositTypeOK
<1>5. /\ hold' \in [Holds -> HoldStates] /\ intent' \in [Intents -> Intent]
      /\ answer' \in [Tries -> Answer] /\ events' \subseteq Events
      /\ calls' \in 0 .. MaxCalls /\ faults' \in 0 .. MaxFaults
  BY DepositAssumption DEF DepositTypeOK, stripe
<1> QED BY <1>1, <1>2, <1>3, <1>4, <1>5 DEF DepositTypeOK

LEMMA PayKeeps ==
  ASSUME IInv, NEW p \in Intents, NEW o \in Outcomes, Pay(p, o)
  PROVE  IInv'
<1> USE DEF IInv, Pay, Counts
<1>6. /\ intent[p].status \notin {"none", "succeeded"}
      /\ intent'[p].status = StatusAfter(o)
      /\ \A q \in Intents \ {p} : intent'[q] = intent[q]
  BY DEF DepositTypeOK, Intent
<1>1. PaidOnes' = PaidOnes \cup IF o = "succeeded" THEN {p} ELSE {}
  BY <1>6 DEF PaidOnes, Paid, StatusAfter, Outcomes
<1>2. run' \in [Calls -> Run] /\ AllFit'
  BY <1>1, Stayed
<1>3. Word'
  BY <1>1 DEF Word, EventOf, Outcomes
<1>4. Money' /\ row' \in Row /\ noted' \subseteq Intents /\ displaced' \subseteq Intents
  <2>1. \A q \in Intents : Paid(q)' <=> Paid(q) \/ (q = p /\ o = "succeeded")
    BY <1>1 DEF PaidOnes
  <2>2. o = "succeeded" => <<"payment_intent.succeeded", p>> \in events'
    BY DEF EventOf
  <2>3. events \subseteq events' /\ UNCHANGED <<row, noted, displaced>>
    OBVIOUS
  <2> HIDE DEF Pay
  <2>4. PaidIsAccountedFor'
    BY <2>1, <2>2, <2>3 DEF Money, PaidIsAccountedFor, Settled
  <2>5. SettledNamesPaid' /\ AssignedIsPaid' /\ (row'.authorized => PaidOnes' # {})
    BY <1>1, <2>1, <2>3 DEF Money, SettledNamesPaid, AssignedIsPaid, Settled
  <2> QED BY <2>3, <2>4, <2>5 DEF Money, DepositTypeOK
<1>5. /\ hold' \in [Holds -> HoldStates] /\ intent' \in [Intents -> Intent]
      /\ answer' \in [Tries -> Answer] /\ events' \subseteq Events
      /\ calls' \in 0 .. MaxCalls /\ faults' \in 0 .. MaxFaults
  <2>1. intent' \in [Intents -> Intent]
    BY DEF DepositTypeOK, Intent, StatusAfter, Outcomes, Statuses
  <2>2. EventOf(o, p) \subseteq Events
    BY DEF EventOf, Events
  <2>3. faults' \in 0 .. MaxFaults
    BY DepositAssumption DEF DepositTypeOK
  <2> QED BY <2>1, <2>2, <2>3 DEF DepositTypeOK
<1> QED BY <1>1, <1>2, <1>3, <1>4, <1>5 DEF DepositTypeOK

LEMMA CancelKeeps ==
  ASSUME IInv, NEW p \in Intents, Cancel(p)
  PROVE  IInv'
<1> USE DEF IInv, Cancel
<1>1. PaidOnes' = PaidOnes
  BY DEF PaidOnes, Paid, DepositTypeOK, Intent
<1>2. run' \in [Calls -> Run] /\ AllFit'
  BY <1>1, Stayed
<1>3. Word'
  BY <1>1 DEF Word
<1>4. Money' /\ row' \in Row /\ noted' \subseteq Intents /\ displaced' \subseteq Intents
  <2>1. \A q \in Intents : Paid(q)' <=> Paid(q)
    BY <1>1 DEF PaidOnes
  <2> QED BY <1>1, <2>1 DEF Money, SettledNamesPaid, AssignedIsPaid, PaidIsAccountedFor,
         Settled, DepositTypeOK
<1>5. /\ hold' \in [Holds -> HoldStates] /\ intent' \in [Intents -> Intent]
      /\ answer' \in [Tries -> Answer] /\ events' \subseteq Events
      /\ calls' \in 0 .. MaxCalls /\ faults' \in 0 .. MaxFaults
  <2>1. intent' \in [Intents -> Intent]
    BY DEF DepositTypeOK, Intent, Statuses
  <2>2. faults' \in 0 .. MaxFaults
    BY DepositAssumption DEF DepositTypeOK
  <2> QED BY <2>1, <2>2 DEF DepositTypeOK
<1> QED BY <1>1, <1>2, <1>3, <1>4, <1>5 DEF DepositTypeOK

LEMMA DeliverSuccessKeeps ==
  ASSUME IInv, NEW p \in Intents, DeliverSuccess(p)
  PROVE  IInv'
<1> USE DEF IInv, DeliverSuccess
<1>1. PaidOnes' = PaidOnes
  BY PaidStays DEF stripe
<1>2. run' \in [Calls -> Run] /\ AllFit'
  BY <1>1, Stayed
<1>3. Word'
  BY WordStays DEF stripe
<1>4. Money' /\ row' \in Row /\ noted' \subseteq Intents /\ displaced' \subseteq Intents
  <2>1. p \in PaidOnes
    BY DEF Word
  <2>2. \A q \in Intents \ {p} : <<"payment_intent.succeeded", q>> \in events
          => <<"payment_intent.succeeded", q>> \in events'
    OBVIOUS
  <2> QED BY <2>1, <2>2, SucceedsKeeps
<1>5. /\ hold' \in [Holds -> HoldStates] /\ intent' \in [Intents -> Intent]
      /\ answer' \in [Tries -> Answer] /\ events' \subseteq Events
      /\ calls' \in 0 .. MaxCalls /\ faults' \in 0 .. MaxFaults
  BY DepositAssumption DEF DepositTypeOK, stripe
<1> QED BY <1>1, <1>2, <1>3, <1>4, <1>5 DEF DepositTypeOK

LEMMA DeliverFailureKeeps ==
  ASSUME IInv, NEW p \in Intents, DeliverFailure(p)
  PROVE  IInv'
<1> USE DEF IInv, DeliverFailure
<1>1. PaidOnes' = PaidOnes
  BY PaidStays DEF stripe
<1>2. run' \in [Calls -> Run] /\ AllFit'
  BY <1>1, Stayed
<1>3. Word'
  BY WordStays DEF stripe
<1>4. Money' /\ row' \in Row /\ noted' \subseteq Intents /\ displaced' \subseteq Intents
  <2>1. \A q \in Intents : <<"payment_intent.succeeded", q>> \in events
          => <<"payment_intent.succeeded", q>> \in events'
    OBVIOUS
  <2> QED BY <2>1, WriteKeeps DEF DepositTypeOK
<1>5. /\ hold' \in [Holds -> HoldStates] /\ intent' \in [Intents -> Intent]
      /\ answer' \in [Tries -> Answer] /\ events' \subseteq Events
      /\ calls' \in 0 .. MaxCalls /\ faults' \in 0 .. MaxFaults
  BY DepositAssumption DEF DepositTypeOK, stripe
<1> QED BY <1>1, <1>2, <1>3, <1>4, <1>5 DEF DepositTypeOK

LEMMA HoldMovesKeeps ==
  ASSUME IInv, NEW h \in Holds, HoldMoves(h)
  PROVE  IInv'
<1> USE DEF IInv, HoldMoves
<1>1. PaidOnes' = PaidOnes
  BY PaidStays DEF stripe
<1>2. run' \in [Calls -> Run] /\ AllFit'
  BY <1>1, Stayed
<1>3. Word'
  BY WordStays DEF stripe
<1>4. Money' /\ row' \in Row /\ noted' \subseteq Intents /\ displaced' \subseteq Intents
  BY MoneyStays DEF stripe, DepositTypeOK
<1>5. /\ hold' \in [Holds -> HoldStates] /\ intent' \in [Intents -> Intent]
      /\ answer' \in [Tries -> Answer] /\ events' \subseteq Events
      /\ calls' \in 0 .. MaxCalls /\ faults' \in 0 .. MaxFaults
  BY DEF DepositTypeOK, stripe, HoldStates
<1> QED BY <1>1, <1>2, <1>3, <1>4, <1>5 DEF DepositTypeOK

LEMMA CallFailsKeeps ==
  ASSUME IInv, NEW c \in Calls, CallFails(c)
  PROVE  IInv'
<1> USE DEF IInv, CallFails
<1>1. PaidOnes' = PaidOnes
  BY PaidStays DEF stripe
<1>0. PICK r \in Run : run' = [run EXCEPT ![c] = r] /\ Fit(r, PaidOnes)
  BY RunsTyped, IdleFits DEF Ends
<1>2. run' \in [Calls -> Run] /\ AllFit'
  BY <1>0, <1>1, Moved
<1>3. Word'
  BY WordStays DEF stripe
<1>4. Money' /\ row' \in Row /\ noted' \subseteq Intents /\ displaced' \subseteq Intents
  BY MoneyStays DEF stripe, DepositTypeOK
<1>5. /\ hold' \in [Holds -> HoldStates] /\ intent' \in [Intents -> Intent]
      /\ answer' \in [Tries -> Answer] /\ events' \subseteq Events
      /\ calls' \in 0 .. MaxCalls /\ faults' \in 0 .. MaxFaults
  BY DepositAssumption DEF DepositTypeOK, stripe
<1> QED BY <1>1, <1>2, <1>3, <1>4, <1>5 DEF DepositTypeOK

LEMMA EventLostKeeps ==
  ASSUME IInv, NEW e \in Events, EventLost(e)
  PROVE  IInv'
<1> USE DEF IInv, EventLost
<1>1. PaidOnes' = PaidOnes
  BY PaidStays DEF stripe
<1>2. run' \in [Calls -> Run] /\ AllFit'
  BY <1>1, Stayed
<1>3. Word'
  BY WordStays DEF stripe
<1>4. Money' /\ row' \in Row /\ noted' \subseteq Intents /\ displaced' \subseteq Intents
  <2>1. e[2] \in Intents
    BY DEF Events
  <2>2. \A q \in Intents : <<"payment_intent.succeeded", q>> \in events
          => <<"payment_intent.succeeded", q>> \in events' \/ q \in displaced'
    OBVIOUS
  <2> QED BY <2>1, <2>2, MoneyStays DEF DepositTypeOK
<1>5. /\ hold' \in [Holds -> HoldStates] /\ intent' \in [Intents -> Intent]
      /\ answer' \in [Tries -> Answer] /\ events' \subseteq Events
      /\ calls' \in 0 .. MaxCalls /\ faults' \in 0 .. MaxFaults
  BY DepositAssumption DEF DepositTypeOK, stripe
<1> QED BY <1>1, <1>2, <1>3, <1>4, <1>5 DEF DepositTypeOK

-----------------------------------------------------------------------------
(* Initially nothing has been asked, and nobody is anywhere. *)
LEMMA InitHolds ==
  ASSUME Init PROVE IInv
<1> USE DepositAssumption DEF Init, Idle
<1>1. DepositTypeOK
  <2>1. row \in Row /\ intent \in [Intents -> Intent]
    BY DEF Row, Intent, Statuses, Intents
  <2>2. run \in [Calls -> Run]
    BY DEF Run, Stages
  <2>3. answer \in [Tries -> Answer]
    BY DEF Answer
  <2>4. /\ hold \in [Holds -> HoldStates]
        /\ calls \in 0 .. MaxCalls /\ faults \in 0 .. MaxFaults
    BY DEF HoldStates
  <2>5. /\ events \subseteq Events
        /\ noted \subseteq Intents /\ displaced \subseteq Intents
    OBVIOUS
  <2> QED BY <2>1, <2>2, <2>3, <2>4, <2>5 DEF DepositTypeOK
<1>2. AllFit /\ Word
  BY IdleFits DEF AllFit, Word
<1>3. Money
  BY DEF Money, SettledNamesPaid, AssignedIsPaid, PaidIsAccountedFor, Settled, Paid
<1> QED BY <1>1, <1>2, <1>3 DEF IInv

(* Every step keeps the invariant. *)
LEMMA StepKeeps ==
  ASSUME IInv, [Next]_vars PROVE IInv'
<1>1. CASE Next
  BY <1>1, StepKinds, BeginPrepareKeeps, BeginConfirmKeeps, GateKeeps, RetrieveKeeps,
     ResetKeeps, CreateKeeps, RecordKeeps, ChargeKeeps,
     ChargeAgainKeeps, FailKeeps, MarkKeeps, BookKeeps,
     RecoverKeeps, PayKeeps, CancelKeeps, DeliverSuccessKeeps,
     DeliverFailureKeeps, HoldMovesKeeps, CallFailsKeeps, EventLostKeeps
<1>2. CASE UNCHANGED vars
  <2>1. PaidOnes' = PaidOnes
    BY <1>2, PaidStays DEF vars
  <2>2. DepositTypeOK' /\ AllFit'
    BY <1>2, <2>1, Stayed DEF vars, IInv, DepositTypeOK
  <2>3. Word' /\ Money'
    BY <1>2, WordStays, MoneyStays DEF vars, IInv
  <2> QED BY <2>2, <2>3 DEF IInv
<1> QED BY <1>1, <1>2

(* The inductive invariant of a public deposit. *)
THEOREM DepositInvariant == Spec => []IInv
<1>1. Init => IInv
  BY InitHolds
<1>2. IInv /\ [Next]_vars => IInv'
  BY StepKeeps
<1> QED BY <1>1, <1>2, PTL DEF Spec

(* The booking, Stripe's intents, answers and events, and the places of    *)
(* all calls keep their types.                                             *)
THEOREM DepositTypeCorrect == Spec => []DepositTypeOK
<1>1. IInv => DepositTypeOK
  BY DEF IInv
<1> QED BY <1>1, DepositInvariant, PTL

(* However many calls of the customer race each other and the webhooks,    *)
(* none assigns the booking before Stripe has been paid.                   *)
THEOREM AssignedBookingsArePaid == Spec => []AssignedIsPaid
<1>1. IInv => AssignedIsPaid
  BY DEF IInv, Money
<1> QED BY <1>1, DepositInvariant, PTL

(* The intent on record of a deposit that counts as paid has been paid.    *)
THEOREM SettledDepositsArePaid == Spec => []SettledNamesPaid
<1>1. IInv => SettledNamesPaid
  BY DEF IInv, Money
<1> QED BY <1>1, DepositInvariant, PTL

(* A paid intent is on record, noted, announced, or was displaced or lost. *)
THEOREM PaidIntentsAreAccountedFor == Spec => []PaidIsAccountedFor
<1>1. IInv => PaidIsAccountedFor
  BY DEF IInv, Money
<1> QED BY <1>1, DepositInvariant, PTL

(* What a call does that has seen the deposit succeed. *)
LEMMA SeenStep ==
  ASSUME IInv, Next, NEW c \in Calls, Settled, run[c].saw, run'[c] # run[c]
  PROVE  row'.deposit = "deposit_succeeded" /\ row'.pi = row.pi
<1>0. /\ run[c].stage \in {"retrieve", "mark", "book", "recover"}
      /\ row \in Row /\ row.deposit = "deposit_succeeded" /\ row.pi \in Intents
  BY DEF IInv, DepositTypeOK, AllFit, Fit, Settled, Money, SettledNamesPaid
<1>1. CASE UNCHANGED row
  BY <1>0, <1>1
<1>2. CASE row' = [row EXCEPT !.status = "assigned"]
  BY <1>0, <1>2 DEF Row
<1>3. CASE Mark(c)
  <2>1. Succeeds(run[c].pi)
    BY <1>3 DEF Mark
  <2>2. CASE row.pi # run[c].pi
    <3>1. row.pi # NoIntent
      BY <1>0, DepositAssumption DEF Intents
    <3> QED BY <1>0, <2>1, <2>2, <3>1 DEF Succeeds, Settled
  <2>3. CASE row.pi = run[c].pi
    <3>1. row' = [row EXCEPT !.deposit = "deposit_succeeded", !.pi = row.pi,
                             !.authorized = TRUE]
      BY <2>1, <2>3 DEF Succeeds
    <3> QED BY <1>0, <3>1 DEF Row
  <2> QED BY <2>2, <2>3
<1>4. ASSUME NEW d \in Calls, d # c, Call(d) PROVE FALSE
  <2> SUFFICES run'[c] = run[c]
    OBVIOUS
  <2>1. run \in [Calls -> Run]
    BY DEF IInv, DepositTypeOK
  <2>2. ASSUME NEW r, run' = [run EXCEPT ![d] = r] PROVE run'[c] = run[c]
    BY <1>4, <2>1, <2>2
  <2>3. ASSUME NEW s, run' = [run EXCEPT ![d].stage = s] PROVE run'[c] = run[c]
    BY <1>4, <2>1, <2>3
  <2>4. ASSUME NEW s, NEW p, run' = [run EXCEPT ![d].stage = s, ![d].pi = p]
        PROVE  run'[c] = run[c]
    BY <1>4, <2>1, <2>4
  <2>5. ASSUME NEW p, NEW o, Answered(d, p, o) PROVE run'[c] = run[c]
    BY <2>2, <2>4, <2>5 DEF Answered, Ends
  <2>6. CASE \/ \E h \in Holds \cup {NoHold} : BeginPrepare(d, h)
             \/ Retrieve(d) \/ Reset(d)
    BY <2>2, <2>3, <2>6 DEF BeginPrepare, Retrieve, Reset, Goto
  <2>7. CASE \/ \E h \in Holds, t \in Tries \cup {NoIntent} : BeginConfirm(d, h, t)
             \/ Gate(d)
    BY <2>2, <2>3, <2>7 DEF BeginConfirm, Gate, Goto, Ends
  <2>8. CASE Create(d) \/ (\E o \in Outcomes : Charge(d, o)) \/ ChargeAgain(d)
    BY <2>2, <2>4, <2>5, <2>8 DEF Create, Charge, ChargeAgain, Ends
  <2>9. CASE Record(d) \/ Fail(d) \/ Mark(d) \/ Book(d) \/ Recover(d)
    BY <2>2, <2>3, <2>9 DEF Record, Fail, Mark, Book, Recover, Goto, Ends
  <2> QED BY <1>4, <2>6, <2>7, <2>8, <2>9 DEF Call
<1>5. CASE Call(c)
  BY <1>0, <1>1, <1>2, <1>3, <1>5 DEF Call, BeginPrepare, BeginConfirm, Gate,
     Retrieve, Reset,
     Create, Record, Charge, ChargeAgain, Fail, Book, Recover, Idle
<1>6. CASE World
  <2>1. ASSUME NEW d \in Calls, CallFails(d) PROVE UNCHANGED row
    BY <2>1 DEF CallFails
  <2>2. ~CallFails(c) => UNCHANGED run \/ UNCHANGED row
    BY <1>6, <2>1 DEF World, Pay, Cancel, DeliverSuccess, DeliverFailure, HoldMoves,
       EventLost
  <2>3. CallFails(c) => UNCHANGED row
    BY <2>1
  <2> QED BY <1>1, <2>2, <2>3
<1> QED BY <1>4, <1>5, <1>6 DEF Next

(* A call that has seen the deposit succeed never takes that back. *)
THEOREM SeenSuccessStays == Spec => SeenStays
<1>1. IInv /\ [Next]_vars =>
        [ \A c \in Calls : Settled /\ run[c].saw /\ run'[c] # run[c] =>
            row'.deposit = "deposit_succeeded" /\ row'.pi = row.pi ]_vars
  BY SeenStep
<1> QED BY <1>1, DepositInvariant, PTL DEF Spec, SeenStays

=============================================================================
