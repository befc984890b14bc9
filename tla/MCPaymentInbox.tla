--------------------------- MODULE MCPaymentInbox ---------------------------
(***************************************************************************)
(* One subscription with a renewal and a partial refund, for TLC.          *)
(***************************************************************************)
EXTENDS PaymentInbox

CONSTANTS h1, h2, beat, first, next, half, cancel

MCRefundOf == [r \in Refund |-> first]
=============================================================================
