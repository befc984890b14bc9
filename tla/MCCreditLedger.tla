--------------------------- MODULE MCCreditLedger ---------------------------
(***************************************************************************)
(* One account for TLC: a trial, a subscription and a top-up payment, a    *)
(* positive and a negative adjustment, and two reservations that each need *)
(* more than one bucket.                                                   *)
(***************************************************************************)
EXTENDS CreditLedger

CONSTANTS r1, r2, sub, top, plus, minus

MCCost == [r \in Reference |-> IF r = r1 THEN 2 ELSE 3]
MCKind == [p \in Period |-> IF p = sub THEN "subscription" ELSE "topup"]
MCGrant == [p \in Period |-> IF p = sub THEN 3 ELSE 2]
MCPrice == [p \in Period |-> IF p = sub THEN 2 ELSE 1]
MCAmount == [a \in Adjustment |-> IF a = plus THEN 1 ELSE -2]
=============================================================================
