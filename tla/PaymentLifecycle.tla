--------------------------- MODULE PaymentLifecycle ---------------------------
(***************************************************************************)
(* What the processing of payments promises the readers of its tables (the  *)
(* API, the webhook worker): a payment leaves "pending" once, for good, and *)
(* the outcome, the attempt that led to it and the webhook that tells of it *)
(* become visible together.  "processing" is never seen.                    *)
(***************************************************************************)
EXTENDS Naturals, Sequences

CONSTANTS Payment

VARIABLES payment, attempts, deliveries

vars == <<payment, attempts, deliveries>>

Outcome == {"succeeded", "failed"}

Init ==
  /\ payment = [p \in Payment |-> [status |-> "pending", version |-> 0]]
  /\ attempts = [p \in Payment |-> <<>>]
  /\ deliveries = [p \in Payment |-> [e \in Outcome |-> 0]]

Settle(p, outcome) ==
  /\ payment[p].status = "pending"
  /\ payment' = [payment EXCEPT ![p] = [status |-> outcome, version |-> 2]]
  /\ attempts' = [attempts EXCEPT ![p] = <<outcome>>]
  /\ deliveries' = [deliveries EXCEPT ![p] = [e \in Outcome |-> IF e = outcome THEN 1 ELSE 0]]

Next == \E p \in Payment, outcome \in Outcome : Settle(p, outcome)

Spec == Init /\ [][Next]_vars
=============================================================================
