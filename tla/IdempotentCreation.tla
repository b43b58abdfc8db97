-------------------------- MODULE IdempotentCreation --------------------------
(***************************************************************************)
(* What POST /payments promises its callers: a key is bound to one payment  *)
(* for ever, in one step that also puts the payment's one announcement into *)
(* the outbox, and whoever is answered is told the payment of the key.      *)
(* Requests that are refused or fail are not seen here.                     *)
(***************************************************************************)
EXTENDS Naturals

CONSTANTS
  Request,
  Key,
  KeyOf,     \* KeyOf[r]: the Idempotency-Key of request r
  Nobody

VARIABLES
  payments,   \* the payments there are; each is named by the request that created it
  announced,  \* announced[r]: announcements of payment r
  told        \* told[r]: the payment in the answer to r, or Nobody

vars == <<payments, announced, told>>

Init ==
  /\ payments = {}
  /\ announced = [r \in Request |-> 0]
  /\ told = [r \in Request |-> Nobody]

\* The caller may or may not hear that the payment is stored.
Bind(r) ==
  /\ \A s \in payments : KeyOf[s] # KeyOf[r]
  /\ payments' = payments \cup {r}
  /\ announced' = [announced EXCEPT ![r] = 1]
  /\ \/ told' = [told EXCEPT ![r] = r]
     \/ UNCHANGED told

Tell(r) ==
  /\ told[r] = Nobody
  /\ \E s \in payments : KeyOf[s] = KeyOf[r] /\ told' = [told EXCEPT ![r] = s]
  /\ UNCHANGED <<payments, announced>>

Next == \E r \in Request : Bind(r) \/ Tell(r)

Spec == Init /\ [][Next]_vars
=============================================================================
