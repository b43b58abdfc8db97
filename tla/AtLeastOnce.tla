----------------------------- MODULE AtLeastOnce -----------------------------
(***************************************************************************)
(* What the outbox promises whoever reads the broker (docs/payments.md,     *)
(* "at-least-once"): an accepted message is published some number of times, *)
(* never more than the retry budget allows, each attempt at most once; it   *)
(* is called done only if the broker has it; a verdict is final; and a      *)
(* message is forgotten only after its verdict.  Nothing is said of workers,*)
(* leases or transactions.                                                  *)
(***************************************************************************)
CONSTANTS
  Message,
  Attempt    \* the numbers an attempt may have: the budget

VARIABLES state, published

vars == <<state, published>>

State == {"unknown", "waiting", "done", "dropped", "forgotten"}

Init ==
  /\ state = [m \in Message |-> "unknown"]
  /\ published = [m \in Message |-> {}]

Accept(m) ==
  /\ state[m] = "unknown"
  /\ state' = [state EXCEPT ![m] = "waiting"]
  /\ UNCHANGED published

\* A publication may come after the verdict: a slow worker does not know of it.
Publish(m, attempt) ==
  /\ state[m] # "unknown"
  /\ attempt \notin published[m]
  /\ published' = [published EXCEPT ![m] = @ \cup {attempt}]
  /\ UNCHANGED state

\* One transaction may pass a verdict on some messages and forget others.
MayBecome(m, s) ==
  \/ s = state[m]
  \/ state[m] = "waiting" /\ s = "dropped"
  \/ state[m] = "waiting" /\ s = "done" /\ published[m] # {}
  \/ state[m] \in {"done", "dropped"} /\ s = "forgotten"

Resolve ==
  /\ state' \in [Message -> State]
  /\ \A m \in Message : MayBecome(m, state'[m])
  /\ UNCHANGED published

Next ==
  \/ \E m \in Message : Accept(m)
  \/ \E m \in Message, attempt \in Attempt : Publish(m, attempt)
  \/ Resolve

Spec == Init /\ [][Next]_vars
=============================================================================
