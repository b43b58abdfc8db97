-------------------------- MODULE MCPaymentCreation --------------------------
(* Small instances of PaymentCreation for TLC. *)
EXTENDS PaymentCreation, TLC

CONSTANTS r1, r2, r3, invalid, other, k1, k2

\* Three calls and one that is refused share a key.
SharedKey == [r \in Request |-> IF r = other THEN k2 ELSE k1]

AcceptableRequests == Request \ {invalid}

=============================================================================
