----------------------------- MODULE RefundLife -----------------------------
(***************************************************************************)
(* What becomes of a refund intent, as an admin may understand it.  It is  *)
(* requested, then refused and retried any number of times, until Stripe   *)
(* gives the money back, once; then it is only reported, and never refused *)
(* or retried again.                                                       *)
(*                                                                         *)
(* This holds as long as one caller at a time has the intent in hand: one  *)
(* that two had at once is contested, and may be refunded again.           *)
(*                                                                         *)
(* This is the abstract specification; Refunds shows that workers, passes  *)
(* and admins implement it.                                                *)
(***************************************************************************)
EXTENDS Integers

CONSTANT Intents

VARIABLES life,    \* life[i]: where intent i is
          refunds  \* refunds[i]: how often it has been refunded

lvars == <<life, refunds>>

LifeInit ==
  /\ life = [i \in Intents |-> "none"]
  /\ refunds = [i \in Intents |-> 0]

Become(i, from, to) == life[i] = from /\ life' = [life EXCEPT ![i] = to]

Request(i) == Become(i, "none", "waiting") /\ UNCHANGED refunds
Refuse(i) == Become(i, "waiting", "failed") /\ UNCHANGED refunds
Retry(i) == Become(i, "failed", "waiting") /\ UNCHANGED refunds

Give(i) ==
  /\ Become(i, "waiting", "given")
  /\ refunds[i] = 0
  /\ refunds' = [refunds EXCEPT ![i] = 1]

Report(i) == Become(i, "given", "done") /\ UNCHANGED refunds

(* Intents that a second caller takes in hand. *)
Contest(S) ==
  /\ life' = [i \in Intents |-> IF i \in S THEN "contested" ELSE life[i]]
  /\ UNCHANGED refunds

GiveAgain(i) ==
  /\ life[i] = "contested"
  /\ refunds' = [refunds EXCEPT ![i] = @ + 1]
  /\ UNCHANGED life

LifeNext ==
  \/ \E i \in Intents :
       \/ Request(i) \/ Refuse(i) \/ Retry(i) \/ Give(i) \/ Report(i) \/ GiveAgain(i)
  \/ \E S \in SUBSET Intents : Contest(S)

LifeSpec == LifeInit /\ [][LifeNext]_lvars
=============================================================================
