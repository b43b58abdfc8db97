------------------------- MODULE MCPaymentSettlement -------------------------
(* A small instance of PaymentSettlement for TLC. *)
EXTENDS PaymentSettlement
=============================================================================
