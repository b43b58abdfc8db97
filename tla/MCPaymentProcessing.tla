------------------------- MODULE MCPaymentProcessing -------------------------
(* A small instance of PaymentProcessing for TLC. *)
EXTENDS PaymentProcessing

CONSTANTS p1, m1, m2, c1, c2, c3

\* The outbox sent the event of p1 twice.
Duplicated == [m \in Message |-> p1]
=============================================================================
