--------------------------- MODULE MCWorkerProcess ---------------------------
(* A small instance of WorkerProcess for TLC. *)
EXTENDS WorkerProcess

CONSTANT pay

MCPaymentOf == [m \in Message |-> pay]
=============================================================================
