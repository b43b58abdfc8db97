---------------------------- MODULE PaymentService ----------------------------
(***************************************************************************)
(* What the service promises its clients from end to end (docs/payments.md),*)
(* with no word of outbox, broker, consumer or transactions: an accepted    *)
(* payment gets one outcome for good; every webhook tells it, and only      *)
(* after it is there; whoever asks is shown the outcome with its attempt,   *)
(* or "pending", which may be as old as the question but not older than a   *)
(* webhook.                                                                 *)
(***************************************************************************)
CONSTANTS
  Request,   \* calls of POST; a payment is named by the one that created it
  Key,
  KeyOf,
  Nobody,
  Query,     \* calls of GET
  Unknown

VARIABLES
  payments,  \* the payments that are accepted
  told,      \* told[r]: the payment in the answer to r, or Nobody
  verdict,   \* verdict[p]: "pending" or the outcome of p
  heard,     \* heard[p]: the outcomes the merchant was told
  asked,     \* asked[q]: the payment q asks for, or Unknown
  known,     \* known[q]: what had been heard of it by then
  answer     \* answer[q]: NoAnswer, or the status and the attempts in it

vars == <<payments, told, verdict, heard, asked, known, answer>>

Outcome == {"succeeded", "failed"}

NoAnswer == [status |-> "none", attempts |-> <<>>]

Init ==
  /\ payments = {}
  /\ told = [r \in Request |-> Nobody]
  /\ verdict = [p \in Request |-> "pending"]
  /\ heard = [p \in Request |-> {}]
  /\ asked = [q \in Query |-> Unknown]
  /\ known = [q \in Query |-> {}]
  /\ answer = [q \in Query |-> NoAnswer]

\* A key is bound to one payment; its caller may or may not hear of it.
Accept(r) ==
  /\ \A p \in payments : KeyOf[p] # KeyOf[r]
  /\ payments' = payments \cup {r}
  /\ told' \in {told, [told EXCEPT ![r] = r]}
  /\ UNCHANGED <<verdict, heard, asked, known, answer>>

\* Whoever repeats the key is told the payment that has it.
Tell(r) ==
  /\ told[r] = Nobody
  /\ \E p \in payments : KeyOf[p] = KeyOf[r] /\ told' = [told EXCEPT ![r] = p]
  /\ UNCHANGED <<payments, verdict, heard, asked, known, answer>>

Settle(p, outcome) ==
  /\ p \in payments
  /\ verdict[p] = "pending"
  /\ verdict' = [verdict EXCEPT ![p] = outcome]
  /\ UNCHANGED <<payments, told, heard, asked, known, answer>>

\* As often as it takes.
Hear(p) ==
  /\ p \in payments
  /\ verdict[p] # "pending"
  /\ heard' = [heard EXCEPT ![p] = {verdict[p]}]
  /\ UNCHANGED <<payments, told, verdict, asked, known, answer>>

Ask(q, p) ==
  /\ p \in payments
  /\ asked[q] = Unknown
  /\ asked' = [asked EXCEPT ![q] = p]
  /\ known' = [known EXCEPT ![q] = heard[p]]
  /\ UNCHANGED <<payments, told, verdict, heard, answer>>

\* The attempts are those of now, the status may be one that q was slow to tell.
Answer(q, status) ==
  LET p == asked[q] IN
  /\ p \in payments
  /\ answer[q] = NoAnswer
  /\ \/ status = "pending" /\ known[q] = {}
     \/ status = verdict[p]
  /\ answer' = [answer EXCEPT ![q] =
       [status |-> status,
        attempts |-> IF verdict[p] = "pending" THEN <<>> ELSE <<verdict[p]>>]]
  /\ UNCHANGED <<payments, told, verdict, heard, asked, known>>

Next ==
  \/ \E r \in Request : Accept(r) \/ Tell(r) \/ Hear(r)
  \/ \E p \in Request, outcome \in Outcome : Settle(p, outcome)
  \/ \E q \in Query, p \in Request : Ask(q, p)
  \/ \E q \in Query, status \in {"pending"} \cup Outcome : Answer(q, status)

Spec == Init /\ [][Next]_vars
=============================================================================
