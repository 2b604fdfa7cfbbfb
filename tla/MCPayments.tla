----------------------------- MODULE MCPayments -----------------------------
(* Instance of Payments for TLC: a gateway payment and a counter payment for *)
(* one booking, and a permit nobody pays for.                                *)
EXTENDS Payments

CONSTANTS card, cash, booking, permit

MCFeeOf == [p \in {card, cash} |-> booking]
=============================================================================
