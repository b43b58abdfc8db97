------------------------------ MODULE MCOutbox ------------------------------
(* Small instances of Outbox for TLC. *)
EXTENDS Outbox, TLC

CONSTANTS w1, w2, w3

Equal == [w \in Worker |-> 2]
=============================================================================
