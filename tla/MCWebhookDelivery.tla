-------------------------- MODULE MCWebhookDelivery --------------------------
(* Small instances of WebhookDelivery for TLC. *)
EXTENDS WebhookDelivery, TLC

CONSTANTS w1, w2

WorkerSymmetry == Permutations(Worker)
=============================================================================
