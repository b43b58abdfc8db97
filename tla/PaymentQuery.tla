----------------------------- MODULE PaymentQuery -----------------------------
(***************************************************************************)
(* GET /payments/{id} while payments are processed: GetPaymentHandler       *)
(* (application/handlers/get_payment.py) makes two SELECTs, and READ        *)
(* COMMITTED gives each a snapshot of its own.  Of the processing only the  *)
(* lifecycle matters that its commits follow (PaymentLifecycle).            *)
(***************************************************************************)
EXTENDS Naturals, Sequences

CONSTANTS
  Payment,
  Query,      \* calls of the endpoint
  Unknown     \* an id that names no payment

VARIABLES
  payment, attempts, deliveries,  \* the tables
  pc,        \* pc[q]: how far query q is
  asked,     \* asked[q]: the id in the URL
  status,    \* status[q], shown[q]: what the answer says of the payment and its attempts
  shown

tables == <<payment, attempts, deliveries>>
vars == <<tables, pc, asked, status, shown>>

Tables == INSTANCE PaymentLifecycle

Outcome == Tables!Outcome

TypeOK ==
  /\ pc \in [Query -> {"idle", "first", "second", "answered", "notFound", "failed"}]
  /\ asked \in [Query -> Payment \cup {Unknown}]
  /\ status \in [Query -> {"none", "pending"} \cup Outcome]
  /\ shown \in [Query -> Seq(Outcome)]
  /\ payment \in [Payment -> [status : {"pending"} \cup Outcome, version : Nat]]
  /\ attempts \in [Payment -> Seq(Outcome)]

Init ==
  /\ Tables!Init
  /\ pc = [q \in Query |-> "idle"]
  /\ asked = [q \in Query |-> Unknown]
  /\ status = [q \in Query |-> "none"]
  /\ shown = [q \in Query |-> <<>>]

\* The commit of ProcessPaymentHandler.
Processed(p, outcome) ==
  /\ Tables!Settle(p, outcome)
  /\ UNCHANGED <<pc, asked, status, shown>>

Ask(q, id) ==
  /\ pc[q] = "idle"
  /\ pc' = [pc EXCEPT ![q] = "first"]
  /\ asked' = [asked EXCEPT ![q] = id]
  /\ UNCHANGED <<tables, status, shown>>

SelectPayment(q) ==
  /\ status' = [status EXCEPT ![q] = payment[asked[q]].status]
  /\ UNCHANGED shown

SelectAttempts(q) ==
  /\ shown' = [shown EXCEPT ![q] = attempts[asked[q]]]
  /\ UNCHANGED status

\* (variant) the attempts are read before the payment
AttemptsFirst(q, select) ==
  IF select = "first" THEN SelectAttempts(q) ELSE SelectPayment(q)

\* payment_repository.get, then attempt_repository.get_by_payment_id.
Select(q, select) ==
  IF select = "first" THEN SelectPayment(q) ELSE SelectAttempts(q)

\* Each SELECT sees what is committed when it begins; the first may find no payment.
Read(q) ==
  /\ pc[q] \in {"first", "second"}
  /\ UNCHANGED <<tables, asked>>
  /\ \/ /\ asked[q] \in Payment
        /\ Select(q, pc[q])
        /\ pc' = [pc EXCEPT ![q] = IF pc[q] = "first" THEN "second" ELSE "answered"]
     \/ /\ asked[q] \notin Payment
        /\ pc' = [pc EXCEPT ![q] = "notFound"]
        /\ UNCHANGED <<status, shown>>

\* The database fails between any two steps.
Fail(q) ==
  /\ pc[q] \in {"first", "second"}
  /\ pc' = [pc EXCEPT ![q] = "failed"]
  /\ UNCHANGED <<tables, asked, status, shown>>

Next ==
  \/ \E p \in Payment, outcome \in Outcome : Processed(p, outcome)
  \/ \E q \in Query : Read(q) \/ Fail(q) \/ \E id \in Payment \cup {Unknown} : Ask(q, id)

Spec == Init /\ [][Next]_vars

-----------------------------------------------------------------------------
(* What must hold. *)

\* An answer that shows a final status shows the attempt that led to it, though a commit may
\* fall between the two SELECTs.  (One that shows "pending" may show a finished attempt.)
FinalStatusIsExplained ==
  \A q \in Query :
    pc[q] = "answered" /\ status[q] \in Outcome => shown[q] = <<status[q]>>

\* What the first SELECT saw is still so at the second: a final status stays, and its attempt
\* was committed with it.  Inductive together with FinalStatusIsExplained.
FinalStatusStays ==
  /\ \A p \in Payment :
       attempts[p] = IF payment[p].status \in Outcome THEN <<payment[p].status>> ELSE <<>>
  /\ \A q \in Query : pc[q] = "second" =>
       /\ asked[q] \in Payment
       /\ status[q] # "none"
       /\ status[q] \in Outcome => payment[asked[q]].status = status[q]

QueryInv == TypeOK /\ FinalStatusStays /\ FinalStatusIsExplained
=============================================================================
