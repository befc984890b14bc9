---------------------------- MODULE MCCreditRows ----------------------------
(***************************************************************************)
(* Two sessions on one account for TLC: a trial, a top-up, a debit and a   *)
(* credit of the administration, and two reservations.                     *)
(***************************************************************************)
EXTENDS CreditRows, TLC

CONSTANTS r1, r2, paid, minus, plus, t1, t2

MCCost == [r \in Reference |-> IF r = r1 THEN 2 ELSE 1]
MCKind == [p \in Period |-> "topup"]
MCGrant == [p \in Period |-> 2]
MCPrice == [p \in Period |-> 1]
MCAmount == [a \in Adjustment |-> IF a = plus THEN 1 ELSE -1]

\* The sessions are alike.
Sessions == Permutations(Tx)
=============================================================================
