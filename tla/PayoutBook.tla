----------------------------- MODULE PayoutBook -----------------------------
(***************************************************************************)
(* What the payout path promises, as a book with a page for each batch.    *)
(* A batch is claimed once, by a key that claims no other batch.  Its      *)
(* lines are written once.  They are paid once, under the claim, all       *)
(* together, and nothing else moves what an FO has been paid.              *)
(*                                                                         *)
(* This is the abstract specification; Payouts shows that lockBatch and    *)
(* markExecuted implement it.  It does not promise that what is paid has   *)
(* been earned: that is what PayoutsOverdraw is about.                     *)
(***************************************************************************)
EXTENDS Integers

CONSTANTS FOs,      \* ids of FranchiseOwner rows
          Batches,  \* ids of PayoutBatch rows
          Keys,     \* the keys under which batches are executed
          NoKey     \* a batch that nobody has claimed

VARIABLES claim,  \* claim[k]: the key that batch k is claimed with, or NoKey
          lines,  \* lines[k][f]: what batch k is to pay to f
          posted, \* posted[k][f]: what batch k has paid to f
          paid    \* paid[f]: what f has been paid

bvars == <<claim, lines, posted, paid>>

Nothing == [f \in FOs |-> 0]

BookInit ==
  /\ claim = [k \in Batches |-> NoKey]
  /\ lines = [k \in Batches |-> Nothing]
  /\ posted = [k \in Batches |-> Nothing]
  /\ paid = Nothing

Claim(k, key) ==
  /\ claim[k] = NoKey
  /\ \A j \in Batches : claim[j] # key
  /\ claim' = [claim EXCEPT ![k] = key]
  /\ UNCHANGED <<lines, posted, paid>>

(* Whatever the lines are. *)
Fill(k) ==
  /\ lines[k] = Nothing
  /\ posted[k] = Nothing
  /\ lines' \in [Batches -> [FOs -> Nat]]
  /\ \A j \in Batches \ {k} : lines'[j] = lines[j]
  /\ UNCHANGED <<claim, posted, paid>>

Pay(k) ==
  /\ claim[k] # NoKey
  /\ posted[k] = Nothing
  /\ lines[k] # Nothing
  /\ posted' = [posted EXCEPT ![k] = lines[k]]
  /\ paid' = [f \in FOs |-> paid[f] + lines[k][f]]
  /\ UNCHANGED <<claim, lines>>

BookNext ==
  \E k \in Batches :
    \/ \E key \in Keys : Claim(k, key)
    \/ Fill(k)
    \/ Pay(k)

BookSpec == BookInit /\ [][BookNext]_bvars
=============================================================================
