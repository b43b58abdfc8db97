------------------------------ MODULE MCPipeline ------------------------------
(* A small instance of Pipeline for TLC. *)
EXTENDS Pipeline

CONSTANTS k1, k2, r1, r2

OneKey == [r \in Request |-> k1]
=============================================================================
