------------------------------- MODULE Pipeline -------------------------------
(***************************************************************************)
(* The service from the POST to the webhook: creation, relay, processing,   *)
(* webhook delivery and queries, each by the contract its own module is     *)
(* shown to keep (IdempotentCreation, AtLeastOnce twice, PaymentLifecycle,  *)
(* PaymentQuery).  What is left to say is where they meet: which steps of   *)
(* two of them are one transaction, and what the broker does in between.    *)
(*                                                                          *)
(*   Bind + Accept | Publish | Settle + Accept, Answer | Publish = Hear     *)
(***************************************************************************)
EXTENDS Naturals, Sequences, FiniteSets

CONSTANTS
  Request,   \* calls of POST /payments; a payment is named by the one that created it
  Key,
  KeyOf,
  Nobody,
  Query,     \* calls of GET /payments/{id}
  Unknown,
  PublishBudget,  \* OUTBOX_MAX_ATTEMPTS
  SendBudget      \* WEBHOOK_RETRY_ATTEMPTS

ASSUME PipelineAssumption ==
  /\ Nobody \notin Request /\ Unknown \notin Request
  /\ PublishBudget \in Nat /\ SendBudget \in Nat

VARIABLES
  payments, announced, told,        \* see IdempotentCreation
  relay, published,                 \* the outbox, see AtLeastOnce
  acked, deadLettered,              \* the publications the consumer has acked, moved to the DLQ
  payment, attempts, deliveries,    \* see PaymentLifecycle
  hook, sent,                       \* the webhooks, see AtLeastOnce
  heard,                            \* heard[p]: the outcomes the merchant was told
  pc, asked, status, shown,         \* see PaymentQuery
  known,     \* known[q]: what had been heard of the payment when q asked for it
  givenUp    \* the payments whose announcement or webhook a relay has dropped

creation == <<payments, announced, told>>
outbox == <<relay, published>>
broker == <<acked, deadLettered>>
tables == <<payment, attempts, deliveries>>
webhooks == <<hook, sent, heard>>
queries == <<pc, asked, status, shown, known>>
vars == <<creation, outbox, broker, tables, webhooks, queries, givenUp>>

Creation == INSTANCE IdempotentCreation
Relay == INSTANCE AtLeastOnce WITH
  Message <- Request, Attempt <- 1..PublishBudget, state <- relay
Tables == INSTANCE PaymentLifecycle WITH Payment <- Request
Hooks == INSTANCE AtLeastOnce WITH
  Message <- Request, Attempt <- 1..SendBudget, state <- hook, published <- sent
Reads == INSTANCE PaymentQuery WITH Payment <- Request

Outcome == Tables!Outcome

Init ==
  /\ Creation!Init /\ Relay!Init /\ Hooks!Init /\ Reads!Init
  /\ acked = [p \in Request |-> {}]
  /\ deadLettered = [p \in Request |-> {}]
  /\ heard = [p \in Request |-> {}]
  /\ known = [q \in Query |-> {}]
  /\ givenUp = {}

-----------------------------------------------------------------------------
(* Creation and relay. *)

\* (variant) the event is stored by a transaction of its own, which may not happen
CreateApart(r) ==
  /\ Creation!Bind(r)
  /\ Relay!Accept(r) \/ UNCHANGED outbox
  /\ UNCHANGED <<broker, tables, webhooks, queries, givenUp>>
\* The payment and its event are stored by one transaction.
Create(r) ==
  /\ Creation!Bind(r)
  /\ Relay!Accept(r)
  /\ UNCHANGED <<broker, tables, webhooks, queries, givenUp>>

Tell(r) ==
  /\ Creation!Tell(r)
  /\ UNCHANGED <<outbox, broker, tables, webhooks, queries, givenUp>>

Publish(p, attempt) ==
  /\ Relay!Publish(p, attempt)
  /\ UNCHANGED <<creation, broker, tables, webhooks, queries, givenUp>>

Dropped(before, after) == {p \in Request : before[p] = "waiting" /\ after[p] = "dropped"}

\* The relay notes what it has published, gives up or forgets.
RelayResolves ==
  /\ Relay!Resolve
  /\ givenUp' = givenUp \cup Dropped(relay, relay')
  /\ UNCHANGED <<creation, broker, tables, webhooks, queries>>

-----------------------------------------------------------------------------
(* The consumer. *)

\* The publications about p in the queues or with a callback.
Queued(p) == published[p] \ (acked[p] \cup deadLettered[p])

\* (variant) the webhook is stored after the commit
ProcessThenTell(p, outcome) ==
  /\ Queued(p) # {}
  /\ Reads!Processed(p, outcome)
  /\ Hooks!Accept(p) \/ UNCHANGED <<hook, sent>>
  /\ UNCHANGED <<creation, outbox, broker, heard, known, givenUp>>
\* (variant) a repeated message settles its payment again, the webhook is not repeated
ProcessAgain(p, outcome) ==
  /\ Queued(p) # {}
  /\ payment' = [payment EXCEPT ![p].status = outcome]
  /\ attempts' = [attempts EXCEPT ![p] = <<outcome>>]
  /\ deliveries' = [deliveries EXCEPT ![p][outcome] = 1]
  /\ Hooks!Accept(p) \/ (hook[p] # "unknown" /\ UNCHANGED <<hook, sent>>)
  /\ UNCHANGED <<creation, outbox, broker, heard, queries, givenUp>>
\* One transaction settles the payment and stores its webhook.
Process(p, outcome) ==
  /\ Queued(p) # {}
  /\ Reads!Processed(p, outcome)
  /\ Hooks!Accept(p)
  /\ UNCHANGED <<creation, outbox, broker, heard, known, givenUp>>

\* (variant) the broker acks at delivery
AckAtOnce(p, attempt) ==
  /\ attempt \in Queued(p)
  /\ acked' = [acked EXCEPT ![p] = @ \cup {attempt}]
  /\ UNCHANGED <<creation, outbox, deadLettered, tables, webhooks, queries, givenUp>>
\* After the handler has returned, this time or an earlier one.
Ack(p, attempt) ==
  /\ attempt \in Queued(p)
  /\ payment[p].status \in Outcome
  /\ acked' = [acked EXCEPT ![p] = @ \cup {attempt}]
  /\ UNCHANGED <<creation, outbox, deadLettered, tables, webhooks, queries, givenUp>>

\* After RABBITMQ_MAX_RETRIES rejections, of a commit whose answer was lost among others.
DeadLetter(p, attempt) ==
  /\ attempt \in Queued(p)
  /\ deadLettered' = [deadLettered EXCEPT ![p] = @ \cup {attempt}]
  /\ UNCHANGED <<creation, outbox, acked, tables, webhooks, queries, givenUp>>

-----------------------------------------------------------------------------
(* The merchant. *)

\* The event_type of the delivery, as it is sent with every attempt.
EventOf(p) == {e \in Outcome : deliveries[p][e] # 0}

Hear(p, attempt) ==
  /\ Hooks!Publish(p, attempt)
  /\ heard' = [heard EXCEPT ![p] = @ \cup EventOf(p)]
  /\ UNCHANGED <<creation, outbox, broker, tables, queries, givenUp>>

WebhooksResolve ==
  /\ Hooks!Resolve
  /\ givenUp' = givenUp \cup Dropped(hook, hook')
  /\ UNCHANGED <<creation, outbox, broker, tables, heard, queries>>

\* Ids come from answers to POST and from webhooks; or they are wrong.
Ids == ({told[r] : r \in Request} \ {Nobody}) \cup {p \in Request : heard[p] # {}} \cup {Unknown}

Ask(q, id) ==
  /\ id \in Ids
  /\ Reads!Ask(q, id)
  /\ known' = [known EXCEPT ![q] = IF id \in Request THEN heard[id] ELSE {}]
  /\ UNCHANGED <<creation, outbox, broker, webhooks, givenUp>>

Read(q) ==
  /\ Reads!Read(q) \/ Reads!Fail(q)
  /\ UNCHANGED <<creation, outbox, broker, webhooks, known, givenUp>>

-----------------------------------------------------------------------------

Consume(p) ==
  \/ \E outcome \in Outcome : Process(p, outcome)
  \/ \E attempt \in 1..PublishBudget : Ack(p, attempt) \/ DeadLetter(p, attempt)

Next ==
  \/ \E r \in Request : Create(r) \/ Tell(r) \/ Consume(r)
  \/ \E p \in Request, attempt \in 1..PublishBudget : Publish(p, attempt)
  \/ \E p \in Request, attempt \in 1..SendBudget : Hear(p, attempt)
  \/ RelayResolves \/ WebhooksResolve
  \/ \E q \in Query : Read(q) \/ \E id \in Request \cup {Unknown} : Ask(q, id)

Spec == Init /\ [][Next]_vars

\* Every message gets a verdict of its relay (EventuallySettled of Outbox and WebhookDelivery),
\* every publication is acked or dead-lettered (EventuallyHandled of PaymentProcessing, which
\* assumes that the broker takes a copy into the DLQ sometime).
Fairness ==
  \A p \in Request :
    /\ WF_vars(Consume(p))
    /\ WF_vars(RelayResolves /\ relay[p] = "waiting" /\ relay'[p] # "waiting")
    /\ WF_vars(WebhooksResolve /\ hook[p] = "waiting" /\ hook'[p] # "waiting")

LiveSpec == Spec /\ Fairness

-----------------------------------------------------------------------------
(* What must hold. *)

\* Wherever the service is in between two transactions, somebody still has the payment: the
\* outbox, the queues or the DLQ until it is settled, then the webhooks; or it was given up for
\* all to see.  A merchant who has heard nothing will.
NothingIsStuck ==
  \A p \in payments :
    \/ p \in givenUp
    \/ payment[p].status = "pending" /\ (relay[p] = "waiting" \/ Queued(p) # {} \/ deadLettered[p] # {})
    \/ payment[p].status \in Outcome /\ (hook[p] = "waiting" \/ heard[p] # {})

\* However often a webhook is repeated and by whom, it tells the one outcome the tables have.
HeardIsTrue == \A p \in Request : heard[p] \subseteq {payment[p].status}

\* Whoever asks after a webhook is answered what the webhook said, with the attempt.
AskedAfterHeard ==
  \A q \in Query : pc[q] = "answered" /\ known[q] # {} =>
    known[q] = {status[q]} /\ shown[q] = <<status[q]>>

FinalStatusIsExplained == Reads!FinalStatusIsExplained

TypeOK ==
  /\ payments \subseteq Request
  /\ told \in [Request -> Request \cup {Nobody}]
  /\ relay \in [Request -> Relay!State] /\ hook \in [Request -> Hooks!State]
  /\ published \in [Request -> SUBSET (1..PublishBudget)]
  /\ acked \in [Request -> SUBSET (1..PublishBudget)]
  /\ deadLettered \in [Request -> SUBSET (1..PublishBudget)]
  /\ sent \in [Request -> SUBSET (1..SendBudget)]
  /\ deliveries \in [Request -> [Outcome -> Nat]]
  /\ heard \in [Request -> SUBSET Outcome] /\ known \in [Query -> SUBSET Outcome]
  /\ givenUp \subseteq Request
  /\ Reads!TypeOK

\* What the parts know of each other: a payment is stored with its announcement and settled
\* with its webhook, only settled payments are acked, a request for a webhook is heard.
PartsAgree ==
  \A p \in Request :
    /\ relay[p] = "unknown" <=> p \notin payments
    /\ published[p] # {} \/ payment[p].status \in Outcome => p \in payments
    /\ payment[p].status = "pending" <=> hook[p] = "unknown"
    /\ acked[p] # {} => payment[p].status \in Outcome
    /\ told[p] # Nobody => told[p] \in payments
    /\ EventOf(p) = {payment[p].status} \cap Outcome
    /\ sent[p] # {} <=> heard[p] # {}

\* A query that has an id from the service asks for a payment there is; one that knows the
\* outcome asks for a payment that has it, and reads it.
QueriesAgree ==
  \A q \in Query :
    /\ asked[q] # Unknown => asked[q] \in payments /\ pc[q] # "idle"
    /\ known[q] # {} =>
         /\ asked[q] \in Request
         /\ known[q] = {payment[asked[q]].status}
         /\ pc[q] \in {"second", "answered"} => known[q] = {status[q]}

\* Inductive.
PipelineInv ==
  /\ TypeOK /\ PartsAgree /\ QueriesAgree /\ Reads!QueryInv
  /\ NothingIsStuck /\ HeardIsTrue /\ AskedAfterHeard

\* A payment that is accepted is settled and its merchant told, unless it was given up or
\* dead-lettered; a broker that refuses every copy into the DLQ is assumed away (Fairness).
EventuallyTold ==
  \A p \in Request :
    p \in payments ~> heard[p] # {} \/ p \in givenUp \/ deadLettered[p] # {}

\* To its clients the service is PaymentService: they see of a query only the whole answer.
Answers ==
  [q \in Query |-> IF pc[q] = "answered" THEN [status |-> status[q], attempts |-> shown[q]]
                   ELSE [status |-> "none", attempts |-> <<>>]]

Service == INSTANCE PaymentService WITH
  verdict <- [p \in Request |-> payment[p].status], answer <- Answers

ServiceSpec == Service!Spec
=============================================================================
