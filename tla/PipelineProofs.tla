---------------------------- MODULE PipelineProofs ----------------------------
(***************************************************************************)
(* PipelineInv is inductive, for any calls, keys, queries and budgets.  A   *)
(* step is of one part, so each lemma below says what one part's step does  *)
(* to what the parts know of each other; OthersUnread and OthersUnheard     *)
(* carry over what a step does not touch.  What the queries are on their    *)
(* own (PaymentQuery) comes first: every step of the service is one of      *)
(* theirs or leaves them alone.  Last, every part keeps its contract where  *)
(* the parts meet, and the whole is PaymentService.                         *)
(***************************************************************************)
EXTENDS Pipeline, TLAPS

\* "succeeded" and "failed", by every name the modules have for them.
LEMMA Outcomes ==
  /\ Outcome = {"succeeded", "failed"}
  /\ Tables!Outcome = Outcome /\ Reads!Outcome = Outcome /\ Reads!Tables!Outcome = Outcome
  /\ Service!Outcome = Outcome
  BY DEF Outcome, Tables!Outcome, Reads!Outcome, Reads!Tables!Outcome, Service!Outcome

-----------------------------------------------------------------------------
(* The queries. *)

\* Before anything is processed or asked.
LEMMA QueryInit == Reads!Init => Reads!QueryInv
  BY DEF Reads!Init, Reads!Tables!Init, Reads!QueryInv, Reads!TypeOK, Reads!FinalStatusStays,
         Reads!FinalStatusIsExplained, Reads!Outcome, Reads!Tables!Outcome

\* A commit settles a payment that was pending: no final status a query has seen changes.
LEMMA QueryProcessed ==
  ASSUME NEW p \in Request, NEW outcome \in Outcome, Reads!QueryInv, Reads!Processed(p, outcome)
  PROVE  Reads!QueryInv'
<1> USE Outcomes DEF Reads!QueryInv, Reads!TypeOK, Reads!Processed, Reads!Tables!Settle
<1>1. Reads!TypeOK'
  OBVIOUS
<1>2. Reads!FinalStatusStays'
  <2>1. /\ payment'[p].status = outcome /\ attempts'[p] = <<outcome>>
        /\ \A r \in Request \ {p} : payment'[r] = payment[r] /\ attempts'[r] = attempts[r]
    OBVIOUS
  <2>2. \A q \in Query : pc[q] = "second" /\ status[q] \in Outcome => asked[q] # p
    BY DEF Reads!FinalStatusStays
  <2> QED
    BY <2>1, <2>2 DEF Reads!FinalStatusStays
<1>3. Reads!FinalStatusIsExplained'
  BY DEF Reads!FinalStatusIsExplained
<1> QED
  BY <1>1, <1>2, <1>3

\* What one step of a query does.
LEMMA ReadEffect ==
  ASSUME NEW q \in Query, Reads!TypeOK, Reads!Read(q) \/ Reads!Fail(q)
  PROVE  /\ UNCHANGED <<tables, asked>>
         /\ \A r \in Query \ {q} :
              pc'[r] = pc[r] /\ status'[r] = status[r] /\ shown'[r] = shown[r]
         /\ \/ /\ asked[q] \in Request /\ pc[q] = "first" /\ pc'[q] = "second"
               /\ status'[q] = payment[asked[q]].status /\ shown' = shown
            \/ /\ asked[q] \in Request /\ pc[q] = "second" /\ pc'[q] = "answered"
               /\ shown'[q] = attempts[asked[q]] /\ status' = status
            \/ /\ pc[q] \in {"first", "second"} /\ pc'[q] \in {"notFound", "failed"}
               /\ status' = status /\ shown' = shown
<1> USE DEF Reads!TypeOK, Reads!Read, Reads!Fail, Reads!Select, Reads!SelectPayment,
            Reads!SelectAttempts, Reads!tables, tables
<1>1. UNCHANGED <<tables, asked>>
  OBVIOUS
<1>2. \A r \in Query \ {q} : pc'[r] = pc[r] /\ status'[r] = status[r] /\ shown'[r] = shown[r]
  OBVIOUS
<1>3. CASE Reads!Read(q)
  BY <1>1, <1>2, <1>3
<1>4. CASE Reads!Fail(q)
  BY <1>1, <1>2, <1>4
<1> QED
  BY <1>3, <1>4

\* The SELECTs, in their order, or a failure.
LEMMA QueryRead ==
  ASSUME NEW q \in Query, Reads!QueryInv, Reads!Read(q) \/ Reads!Fail(q)
  PROVE  Reads!QueryInv'
<1> USE Outcomes, ReadEffect DEF Reads!QueryInv
<1>1. Reads!TypeOK'
  <2> USE DEF Reads!TypeOK, Reads!Read, Reads!Fail, Reads!Select, Reads!SelectPayment,
              Reads!SelectAttempts, Reads!tables
  <2>1. asked[q] \in Request =>
          /\ payment[asked[q]].status \in {"none", "pending"} \cup Outcome
          /\ attempts[asked[q]] \in Seq(Outcome)
    OBVIOUS
  <2>2. status' \in [Query -> {"none", "pending"} \cup Outcome]
    BY <2>1
  <2>3. shown' \in [Query -> Seq(Outcome)]
    BY <2>1
  <2>4. pc' \in [Query -> {"idle", "first", "second", "answered", "notFound", "failed"}]
    OBVIOUS
  <2> QED
    BY <2>2, <2>3, <2>4
<1>2. Reads!FinalStatusStays'
  <2>1. asked[q] \in Request => payment[asked[q]].status \in {"pending"} \cup Outcome
    BY DEF Reads!TypeOK
  <2>2. "none" \notin {"pending"} \cup Outcome
    OBVIOUS
  <2>3. pc'[q] = "second" =>
          asked[q] \in Request /\ status'[q] = payment[asked[q]].status
    OBVIOUS
  <2>4. \A r \in Query \ {q} : pc'[r] = pc[r] /\ status'[r] = status[r]
    OBVIOUS
  <2> QED
    BY <2>1, <2>2, <2>3, <2>4 DEF tables, Reads!FinalStatusStays
<1>3. Reads!FinalStatusIsExplained'
  <2>1. ASSUME pc'[q] = "answered", status'[q] \in Outcome
        PROVE  shown'[q] = <<status'[q]>>
    <3>1. /\ asked[q] \in Request /\ pc[q] = "second"
          /\ shown'[q] = attempts[asked[q]] /\ status' = status
      BY <2>1
    <3>2. payment[asked[q]].status = status[q]
      BY <2>1, <3>1 DEF Reads!FinalStatusStays
    <3>3. attempts[asked[q]] = <<status[q]>>
      BY <2>1, <3>1, <3>2 DEF Reads!FinalStatusStays
    <3> QED
      BY <3>1, <3>3
  <2>2. \A r \in Query \ {q} : pc'[r] = pc[r] /\ status'[r] = status[r] /\ shown'[r] = shown[r]
    OBVIOUS
  <2> QED
    BY <2>1, <2>2 DEF Reads!FinalStatusIsExplained
<1> QED
  BY <1>1, <1>2, <1>3

\* Every step of the queries or of the tables they read keeps their invariant.
LEMMA QueryStep == Reads!QueryInv /\ [Reads!Next]_(Reads!vars) => Reads!QueryInv'
<1> SUFFICES ASSUME Reads!QueryInv, [Reads!Next]_(Reads!vars)
             PROVE  Reads!QueryInv'
  OBVIOUS
<1>1. ASSUME NEW q \in Query, NEW id \in Request \cup {Unknown}, Reads!Ask(q, id)
      PROVE  Reads!QueryInv'
  BY <1>1 DEF Reads!Ask, Reads!QueryInv, Reads!TypeOK, Reads!FinalStatusStays,
              Reads!FinalStatusIsExplained, Reads!tables, Reads!Outcome, Reads!Tables!Outcome
<1>2. CASE UNCHANGED Reads!vars
  BY <1>2 DEF Reads!vars, Reads!QueryInv, Reads!TypeOK, Reads!FinalStatusStays,
              Reads!FinalStatusIsExplained, Reads!tables, Reads!Outcome, Reads!Tables!Outcome
<1> QED
  BY <1>1, <1>2, QueryProcessed, QueryRead, Outcomes DEF Reads!Next

\* The queries, with nothing around them but the tables.
THEOREM QuerySafety == Reads!Spec => []Reads!QueryInv
  BY QueryInit, QueryStep, PTL DEF Reads!Spec

\* GET /payments/{id}: an answer with a final status contains the attempt that led to it.
THEOREM FinalAnswersAreExplained == Reads!Spec => []FinalStatusIsExplained
<1>1. Reads!QueryInv => FinalStatusIsExplained
  BY DEF Reads!QueryInv, FinalStatusIsExplained
<1> QED
  BY <1>1, QuerySafety, PTL

\* A step of the service is a step of the queries, of the tables they read, or neither.
LEMMA ReadsStep == [Next]_vars => [Reads!Next]_(Reads!vars)
<1> SUFFICES ASSUME [Next]_vars
             PROVE  [Reads!Next]_(Reads!vars)
  OBVIOUS
<1> USE DEF Reads!vars, Reads!tables, tables, queries
<1>1. CASE UNCHANGED vars
  BY <1>1 DEF vars
<1>2. ASSUME NEW p \in Request, NEW outcome \in Outcome, Process(p, outcome)
      PROVE  Reads!Next
  BY <1>2, Outcomes DEF Process, Reads!Next
<1>3. ASSUME NEW q \in Query, Read(q) \/ \E id \in Request \cup {Unknown} : Ask(q, id)
      PROVE  Reads!Next
  BY <1>3 DEF Read, Ask, Reads!Next
<1>4. ASSUME NEW r \in Request, Create(r) \/ Tell(r)
      PROVE  UNCHANGED Reads!vars
  BY <1>4 DEF Create, Tell
<1>5. ASSUME NEW p \in Request, NEW attempt, Publish(p, attempt) \/ Ack(p, attempt)
             \/ DeadLetter(p, attempt) \/ Hear(p, attempt)
      PROVE  UNCHANGED Reads!vars
  BY <1>5 DEF Publish, Ack, DeadLetter, Hear
<1>6. ASSUME RelayResolves \/ WebhooksResolve
      PROVE  UNCHANGED Reads!vars
  BY <1>6 DEF RelayResolves, WebhooksResolve
<1> QED
  BY <1>1, <1>2, <1>3, <1>4, <1>5, <1>6 DEF Next, Consume

-----------------------------------------------------------------------------
(* Where the parts meet. *)

\* What the invariant says of the merchant and the queries.
ToldIsTrue == QueriesAgree /\ HeardIsTrue /\ AskedAfterHeard

\* The steps of the creation, the outbox and the broker.
LEMMA OthersUnread ==
  ASSUME ToldIsTrue, payments \subseteq payments', UNCHANGED <<tables, heard, queries>>
  PROVE  ToldIsTrue'
  BY DEF ToldIsTrue, tables, queries, QueriesAgree, HeardIsTrue, AskedAfterHeard

\* Nothing is created, nothing has happened.
LEMMA InitInv == Init => PipelineInv
<1> SUFFICES ASSUME Init
             PROVE  PipelineInv
  OBVIOUS
<1> USE Outcomes DEF Init, Creation!Init, Relay!Init, Hooks!Init, Reads!Init, Reads!Tables!Init
<1>1. Reads!TypeOK
  BY DEF Reads!TypeOK
<1>2. TypeOK
  BY <1>1, PipelineAssumption DEF TypeOK, Relay!State, Hooks!State
<1>3. PartsAgree
  BY DEF PartsAgree, EventOf
<1>4. QueriesAgree /\ NothingIsStuck /\ HeardIsTrue /\ AskedAfterHeard
  BY DEF QueriesAgree, NothingIsStuck, HeardIsTrue, AskedAfterHeard
<1>5. Reads!QueryInv
  BY <1>1 DEF Reads!QueryInv, Reads!FinalStatusStays, Reads!FinalStatusIsExplained
<1> QED
  BY <1>1, <1>2, <1>3, <1>4, <1>5 DEF PipelineInv

\* One transaction puts the payment into the table and its event into the outbox.
LEMMA CreateInv ==
  ASSUME PipelineInv, Reads!QueryInv', NEW r \in Request, Create(r)
  PROVE  PipelineInv'
<1> USE DEF PipelineInv, Reads!QueryInv, Create, Creation!Bind, Relay!Accept, outbox, broker,
            tables, webhooks, queries
<1>1. TypeOK'
  <2>1. told' \in [Request -> Request \cup {Nobody}] /\ payments' \subseteq Request
    BY DEF TypeOK
  <2>2. relay' \in [Request -> Relay!State]
    BY DEF TypeOK, Relay!State
  <2> QED
    BY <2>1, <2>2 DEF TypeOK
<1>2. PartsAgree'
  <2>1. \A s \in Request : told'[s] # Nobody => told'[s] \in payments'
    BY DEF PartsAgree, TypeOK
  <2>2. /\ relay'[r] = "waiting" /\ \A s \in Request \ {r} : relay'[s] = relay[s]
        /\ payments' = payments \cup {r}
    BY DEF TypeOK
  <2>3. UNCHANGED <<published, payment, hook, acked, deliveries, sent, heard>>
    OBVIOUS
  <2> QED
    BY <2>1, <2>2, <2>3 DEF PartsAgree, EventOf
<1>3. NothingIsStuck'
  <2>1. payment[r].status = "pending" /\ relay'[r] = "waiting"
    BY Outcomes DEF PartsAgree, TypeOK, Reads!TypeOK
  <2>2. \A p \in payments : relay'[p] = relay[p]
    BY DEF PartsAgree, TypeOK
  <2> QED
    BY <2>1, <2>2 DEF NothingIsStuck, Queued
<1> QED
  BY <1>1, <1>2, <1>3, OthersUnread DEF ToldIsTrue

\* An answer to a caller.
LEMMA TellInv ==
  ASSUME PipelineInv, Reads!QueryInv', NEW r \in Request, Tell(r)
  PROVE  PipelineInv'
<1> USE DEF PipelineInv, Reads!QueryInv, Tell, Creation!Tell, outbox, broker, tables, webhooks,
            queries
<1>1. TypeOK'
  BY DEF TypeOK, Reads!TypeOK
<1>2. PartsAgree' /\ NothingIsStuck'
  BY DEF PartsAgree, EventOf, NothingIsStuck, Queued
<1> QED
  BY <1>1, <1>2, OthersUnread DEF ToldIsTrue

\* A publication adds to the queues.
LEMMA PublishInv ==
  ASSUME PipelineInv, Reads!QueryInv', NEW p \in Request, NEW attempt \in 1..PublishBudget,
         Publish(p, attempt)
  PROVE  PipelineInv'
<1> USE DEF PipelineInv, Reads!QueryInv, Publish, Relay!Publish, creation, broker, tables,
            webhooks, queries
<1>1. TypeOK'
  <2>1. published' \in [Request -> SUBSET (1..PublishBudget)]
    BY DEF TypeOK
  <2> QED
    BY <2>1 DEF TypeOK, Reads!TypeOK
<1>2. PartsAgree'
  <2>1. /\ relay[p] # "unknown"
        /\ \A r \in Request \ {p} : published'[r] = published[r]
    BY DEF TypeOK
  <2>2. UNCHANGED <<payments, told, relay, payment, hook, acked, deliveries, sent, heard>>
    OBVIOUS
  <2> QED
    BY <2>1, <2>2 DEF PartsAgree, EventOf
<1>3. NothingIsStuck'
  <2>1. \A r \in Request : Queued(r) \subseteq Queued(r)'
    BY DEF Queued, TypeOK
  <2> QED
    BY <2>1 DEF NothingIsStuck, TypeOK
<1> QED
  BY <1>1, <1>2, <1>3, OthersUnread DEF ToldIsTrue

\* A message is noted as published only if it was: it is in the queues or in the DLQ, unless
\* it is acked and the payment settled.
LEMMA RelayResolvesInv ==
  ASSUME PipelineInv, Reads!QueryInv', RelayResolves
  PROVE  PipelineInv'
<1> USE DEF PipelineInv, Reads!QueryInv, RelayResolves, Relay!Resolve, creation, broker, tables,
            webhooks, queries
<1>1. TypeOK'
  BY DEF TypeOK, Reads!TypeOK, Dropped
<1>2. PartsAgree'
  <2>1. \A p \in Request : relay'[p] = "unknown" <=> relay[p] = "unknown"
    BY DEF Relay!MayBecome
  <2> QED
    BY <2>1 DEF PartsAgree, EventOf
<1>3. NothingIsStuck'
  <2> SUFFICES ASSUME NEW p \in payments, p \notin givenUp', payment[p].status = "pending",
                      relay'[p] # "waiting"
               PROVE  Queued(p) # {} \/ deadLettered[p] # {}
    BY DEF NothingIsStuck, Queued
  <2>1. p \in Request /\ p \notin givenUp
    BY DEF TypeOK
  <2>2. acked[p] = {}
    BY <2>1, Outcomes DEF PartsAgree
  <2>3. CASE relay[p] = "waiting"
    <3>1. relay'[p] # "dropped"
      BY <2>1, <2>3 DEF Dropped
    <3>2. published[p] # {}
      BY <2>1, <2>3, <3>1 DEF Relay!MayBecome
    <3> QED
      BY <2>2, <3>2 DEF Queued
  <2>4. CASE relay[p] # "waiting"
    BY <2>1, <2>4, Outcomes DEF NothingIsStuck
  <2> QED
    BY <2>3, <2>4
<1> QED
  BY <1>1, <1>2, <1>3, OthersUnread DEF ToldIsTrue

\* What is acked is settled, so its payment does not need the queues any more.
LEMMA AckInv ==
  ASSUME PipelineInv, Reads!QueryInv', NEW p \in Request, NEW attempt \in 1..PublishBudget,
         Ack(p, attempt)
  PROVE  PipelineInv'
<1> USE DEF PipelineInv, Reads!QueryInv, Ack, creation, outbox, tables, webhooks, queries
<1>1. TypeOK'
  <2>1. acked' \in [Request -> SUBSET (1..PublishBudget)]
    BY DEF TypeOK
  <2> QED
    BY <2>1 DEF TypeOK, Reads!TypeOK
<1>2. PartsAgree'
  <2>1. \A r \in Request \ {p} : acked'[r] = acked[r]
    BY DEF TypeOK
  <2>2. UNCHANGED <<payments, told, relay, published, payment, hook, deliveries, sent, heard>>
    OBVIOUS
  <2> QED
    BY <2>1, <2>2 DEF PartsAgree, EventOf
<1>3. NothingIsStuck'
  <2>1. payment[p].status # "pending"
    BY Outcomes
  <2>2. \A r \in Request \ {p} : Queued(r)' = Queued(r)
    BY DEF Queued, TypeOK
  <2> QED
    BY <2>1, <2>2 DEF NothingIsStuck, TypeOK
<1> QED
  BY <1>1, <1>2, <1>3, OthersUnread DEF ToldIsTrue

\* What leaves the queues for the DLQ is there.
LEMMA DeadLetterInv ==
  ASSUME PipelineInv, Reads!QueryInv', NEW p \in Request, NEW attempt \in 1..PublishBudget,
         DeadLetter(p, attempt)
  PROVE  PipelineInv'
<1> USE DEF PipelineInv, Reads!QueryInv, DeadLetter, creation, outbox, tables, webhooks, queries
<1>1. TypeOK'
  <2>1. deadLettered' \in [Request -> SUBSET (1..PublishBudget)]
    BY DEF TypeOK
  <2> QED
    BY <2>1 DEF TypeOK, Reads!TypeOK
<1>2. PartsAgree'
  BY DEF PartsAgree, EventOf
<1>3. NothingIsStuck'
  <2>1. deadLettered'[p] # {}
    BY DEF TypeOK
  <2>2. \A r \in Request \ {p} : Queued(r)' = Queued(r) /\ deadLettered'[r] = deadLettered[r]
    BY DEF Queued, TypeOK
  <2> QED
    BY <2>1, <2>2 DEF NothingIsStuck, TypeOK
<1> QED
  BY <1>1, <1>2, <1>3, OthersUnread DEF ToldIsTrue

-----------------------------------------------------------------------------

\* One transaction settles a payment that nobody has heard of yet, and stores its webhook.
LEMMA ProcessInv ==
  ASSUME PipelineInv, Reads!QueryInv', NEW p \in Request, NEW outcome \in Outcome,
         Process(p, outcome)
  PROVE  PipelineInv'
<1> USE Outcomes
    DEF PipelineInv, Process, Reads!Processed, Reads!Tables!Settle, Hooks!Accept,
        creation, outbox, broker, queries
<1>1. /\ payment[p].status = "pending"
      /\ payment' = [payment EXCEPT ![p] = [status |-> outcome, version |-> 2]]
      /\ deliveries' = [deliveries EXCEPT ![p] =
           [e \in Outcome |-> IF e = outcome THEN 1 ELSE 0]]
  OBVIOUS
<1>2. payment'[p].status = outcome /\ \A r \in Request \ {p} : payment'[r] = payment[r]
  BY <1>1 DEF TypeOK, Reads!TypeOK
<1>3. hook'[p] = "waiting" /\ \A r \in Request \ {p} : hook'[r] = hook[r]
  BY DEF TypeOK
<1>4. UNCHANGED <<payments, announced, told, relay, published, acked, deadLettered, sent, heard,
                  pc, asked, status, shown, known, givenUp>>
  OBVIOUS
<1>5. TypeOK'
  <2>1. hook' \in [Request -> Hooks!State]
    BY DEF TypeOK, Hooks!State
  <2>2. deliveries' \in [Request -> [Outcome -> Nat]]
    <3>1. [e \in Outcome |-> IF e = outcome THEN 1 ELSE 0] \in [Outcome -> Nat]
      OBVIOUS
    <3> QED
      BY <1>1, <3>1 DEF TypeOK
  <2>3. Reads!TypeOK'
    BY DEF Reads!QueryInv
  <2> QED
    BY <1>4, <2>1, <2>2, <2>3 DEF TypeOK
<1>6. heard[p] = {}
  BY <1>1 DEF HeardIsTrue, TypeOK
<1>7. PartsAgree'
  <2>1. p \in payments
    BY DEF PartsAgree, Queued
  <2>2. EventOf(p)' = {outcome}
    BY <1>1 DEF EventOf, TypeOK
  <2>3. \A r \in Request \ {p} : EventOf(r)' = EventOf(r)
    BY <1>1 DEF EventOf, TypeOK
  <2> SUFFICES ASSUME NEW r \in Request
               PROVE  /\ relay'[r] = "unknown" <=> r \notin payments'
                      /\ published'[r] # {} \/ payment'[r].status \in Outcome => r \in payments'
                      /\ payment'[r].status = "pending" <=> hook'[r] = "unknown"
                      /\ acked'[r] # {} => payment'[r].status \in Outcome
                      /\ told'[r] # Nobody => told'[r] \in payments'
                      /\ EventOf(r)' = {payment'[r].status} \cap Outcome
                      /\ sent'[r] # {} <=> heard'[r] # {}
    BY DEF PartsAgree
  <2>4. CASE r = p
    <3>1. outcome # "pending" /\ {outcome} \cap Outcome = {outcome}
      OBVIOUS
    <3> QED
      BY <1>2, <1>3, <1>4, <2>1, <2>2, <2>4, <3>1 DEF PartsAgree
  <2>5. CASE r # p
    BY <1>2, <1>3, <1>4, <2>3, <2>5 DEF PartsAgree
  <2> QED
    BY <2>4, <2>5
<1>8. NothingIsStuck'
  BY <1>2, <1>3 DEF NothingIsStuck, Queued, TypeOK
<1>9. HeardIsTrue'
  BY <1>2, <1>6 DEF HeardIsTrue
<1>10. QueriesAgree' /\ AskedAfterHeard'
  <2>1. \A q \in Query : known[q] # {} => asked[q] # p
    BY <1>1 DEF QueriesAgree, TypeOK
  <2> QED
    BY <1>2, <2>1 DEF QueriesAgree, AskedAfterHeard
<1> QED
  BY <1>5, <1>7, <1>8, <1>9, <1>10

\* The steps of the webhooks.
LEMMA OthersUnheard ==
  ASSUME PipelineInv, UNCHANGED <<payments, tables, queries>>
  PROVE  QueriesAgree' /\ AskedAfterHeard'
  BY DEF PipelineInv, Reads!QueryInv, tables, queries, QueriesAgree, AskedAfterHeard

\* A request tells the outcome the tables have.
LEMMA HearInv ==
  ASSUME PipelineInv, Reads!QueryInv', NEW p \in Request, NEW attempt \in 1..SendBudget,
         Hear(p, attempt)
  PROVE  PipelineInv'
<1> USE DEF PipelineInv, Reads!QueryInv, Hear, Hooks!Publish, creation, outbox, broker, tables,
            queries
<1>1. payment[p].status \in Outcome /\ EventOf(p) = {payment[p].status}
  <2>1. payment[p].status # "pending" /\ EventOf(p) = {payment[p].status} \cap Outcome
    BY DEF PartsAgree
  <2>2. payment[p].status \in {"pending"} \cup Outcome
    BY Outcomes DEF TypeOK, Reads!TypeOK
  <2> QED
    BY <2>1, <2>2
<1>2. /\ heard'[p] = heard[p] \cup {payment[p].status}
      /\ sent'[p] # {}
      /\ \A r \in Request \ {p} : heard'[r] = heard[r] /\ sent'[r] = sent[r]
  <2>1. /\ heard' = [heard EXCEPT ![p] = @ \cup EventOf(p)]
        /\ sent' = [sent EXCEPT ![p] = @ \cup {attempt}]
    OBVIOUS
  <2>2. heard \in [Request -> SUBSET Outcome] /\ sent \in [Request -> SUBSET (1..SendBudget)]
    BY DEF TypeOK
  <2>3. heard'[p] = heard[p] \cup EventOf(p) /\ sent'[p] = sent[p] \cup {attempt}
    BY <2>1, <2>2
  <2> QED
    BY <1>1, <2>1, <2>2, <2>3
<1>3. TypeOK'
  <2>1. heard' \in [Request -> SUBSET Outcome]
    BY <1>1 DEF TypeOK
  <2>2. sent' \in [Request -> SUBSET (1..SendBudget)]
    BY DEF TypeOK
  <2> QED
    BY <2>1, <2>2 DEF TypeOK, Reads!TypeOK
<1>4. PartsAgree'
  BY <1>2 DEF PartsAgree, EventOf
<1>5. NothingIsStuck'
  BY <1>2 DEF NothingIsStuck, Queued, TypeOK
<1>6. HeardIsTrue'
  BY <1>2 DEF HeardIsTrue
<1> QED
  BY <1>3, <1>4, <1>5, <1>6, OthersUnheard

\* A webhook is noted as delivered only if the merchant got it.
LEMMA WebhooksResolveInv ==
  ASSUME PipelineInv, Reads!QueryInv', WebhooksResolve
  PROVE  PipelineInv'
<1> USE DEF PipelineInv, Reads!QueryInv, WebhooksResolve, Hooks!Resolve, creation, outbox, broker,
            tables, queries
<1>1. TypeOK'
  BY DEF TypeOK, Reads!TypeOK, Dropped
<1>2. PartsAgree'
  <2>1. \A p \in Request : hook'[p] = "unknown" <=> hook[p] = "unknown"
    BY DEF Hooks!MayBecome
  <2> QED
    BY <2>1 DEF PartsAgree, EventOf
<1>3. NothingIsStuck'
  <2> SUFFICES ASSUME NEW p \in payments, p \notin givenUp', payment[p].status \in Outcome,
                      hook'[p] # "waiting"
               PROVE  heard[p] # {}
    BY DEF NothingIsStuck, Queued
  <2>1. p \in Request /\ p \notin givenUp
    BY DEF TypeOK
  <2>2. CASE hook[p] = "waiting"
    <3>1. hook'[p] # "dropped"
      BY <2>1, <2>2 DEF Dropped
    <3>2. sent[p] # {}
      BY <2>1, <2>2, <3>1 DEF Hooks!MayBecome
    <3> QED
      BY <2>1, <3>2 DEF PartsAgree
  <2>3. CASE hook[p] # "waiting"
    BY <2>1, <2>3, Outcomes DEF NothingIsStuck
  <2> QED
    BY <2>2, <2>3
<1>4. HeardIsTrue'
  BY DEF HeardIsTrue
<1> QED
  BY <1>1, <1>2, <1>3, <1>4, OthersUnheard

\* The ids a query may have are those of payments there are, or none.
LEMMA IdsArePayments == PipelineInv => Ids \subseteq payments \cup {Unknown}
<1> SUFFICES ASSUME PipelineInv, NEW id \in Ids, id # Unknown
             PROVE  id \in payments
  OBVIOUS
<1>1. CASE \E r \in Request : told[r] # Nobody /\ id = told[r]
  BY <1>1 DEF PipelineInv, PartsAgree
<1>2. CASE id \in Request /\ heard[id] # {}
  <2>1. payment[id].status \in Outcome
    BY <1>2 DEF PipelineInv, HeardIsTrue, TypeOK
  <2> QED
    BY <1>2, <2>1 DEF PipelineInv, PartsAgree
<1> QED
  BY <1>1, <1>2 DEF Ids

\* A query knows what had been heard when it was made.
LEMMA AskInv ==
  ASSUME PipelineInv, Reads!QueryInv', NEW q \in Query, NEW id \in Request \cup {Unknown},
         Ask(q, id)
  PROVE  PipelineInv'
<1> USE DEF PipelineInv, Ask, Reads!Ask, Reads!tables, creation, outbox, broker, webhooks
<1>1. /\ pc'[q] = "first" /\ asked'[q] = id
      /\ \A r \in Query \ {q} : pc'[r] = pc[r] /\ asked'[r] = asked[r] /\ known'[r] = known[r]
  BY DEF TypeOK, Reads!TypeOK
<1>2. known'[q] # {} => id \in Request /\ known'[q] = {payment[id].status}
  BY DEF TypeOK, HeardIsTrue
<1>3. TypeOK'
  <2>1. known' \in [Query -> SUBSET Outcome]
    BY DEF TypeOK
  <2> QED
    BY <2>1 DEF TypeOK, Reads!QueryInv
<1>4. PartsAgree' /\ NothingIsStuck' /\ HeardIsTrue'
  BY DEF PartsAgree, EventOf, NothingIsStuck, Queued, HeardIsTrue
<1>5. QueriesAgree' /\ AskedAfterHeard'
  BY <1>1, <1>2, IdsArePayments DEF QueriesAgree, AskedAfterHeard
<1> QED
  BY <1>3, <1>4, <1>5

\* What a query reads of a payment it knows the outcome of is that outcome, with its attempt.
LEMMA ReadInv ==
  ASSUME PipelineInv, Reads!QueryInv', NEW q \in Query, Read(q)
  PROVE  PipelineInv'
<1> USE DEF PipelineInv
<1>1. /\ UNCHANGED <<tables, asked>>
      /\ \A r \in Query \ {q} :
           pc'[r] = pc[r] /\ status'[r] = status[r] /\ shown'[r] = shown[r]
      /\ \/ /\ asked[q] \in Request /\ pc[q] = "first" /\ pc'[q] = "second"
            /\ status'[q] = payment[asked[q]].status /\ shown' = shown
         \/ /\ asked[q] \in Request /\ pc[q] = "second" /\ pc'[q] = "answered"
            /\ shown'[q] = attempts[asked[q]] /\ status' = status
         \/ /\ pc[q] \in {"first", "second"} /\ pc'[q] \in {"notFound", "failed"}
            /\ status' = status /\ shown' = shown
  BY ReadEffect DEF Read, TypeOK
<1>2. UNCHANGED <<creation, outbox, broker, webhooks, known, givenUp>>
  BY DEF Read
<1> USE DEF creation, outbox, broker, webhooks, tables
<1>3. TypeOK'
  BY <1>1, <1>2 DEF TypeOK, Reads!QueryInv
<1>4. PartsAgree' /\ NothingIsStuck' /\ HeardIsTrue'
  BY <1>1, <1>2 DEF PartsAgree, EventOf, NothingIsStuck, Queued, HeardIsTrue
<1>5. QueriesAgree'
  BY <1>1, <1>2 DEF QueriesAgree
<1>6. AskedAfterHeard'
  <2>1. asked[q] \in Request /\ payment[asked[q]].status \in Outcome =>
          attempts[asked[q]] = <<payment[asked[q]].status>>
    BY Outcomes DEF Reads!QueryInv, Reads!FinalStatusStays
  <2>2. known[q] # {} => payment[asked[q]].status \in Outcome
    BY DEF QueriesAgree, TypeOK
  <2> QED
    BY <1>1, <1>2, <1>5, <2>1, <2>2 DEF QueriesAgree, AskedAfterHeard
<1> QED
  BY <1>3, <1>4, <1>5, <1>6

-----------------------------------------------------------------------------

\* Every step keeps the invariant.
LEMMA NextInv == PipelineInv /\ [Next]_vars => PipelineInv'
<1> SUFFICES ASSUME PipelineInv, [Next]_vars
             PROVE  PipelineInv'
  OBVIOUS
<1>0. Reads!QueryInv'
  BY QueryStep, ReadsStep DEF PipelineInv
<1>1. CASE UNCHANGED vars
  <2> USE <1>0, <1>1 DEF vars, creation, outbox, broker, tables, webhooks, queries, PipelineInv
  <2>1. TypeOK'
    BY DEF TypeOK, Reads!TypeOK, Reads!Outcome, Reads!Tables!Outcome
  <2>2. PartsAgree' /\ NothingIsStuck'
    BY DEF PartsAgree, EventOf, NothingIsStuck, Queued
  <2> QED
    BY <2>1, <2>2, OthersUnread DEF ToldIsTrue
<1>2. CASE \E r \in Request : Create(r) \/ Tell(r) \/ Consume(r)
  BY <1>0, <1>2, CreateInv, TellInv, ProcessInv, AckInv, DeadLetterInv DEF Consume
<1>3. CASE \E p \in Request, attempt \in 1..PublishBudget : Publish(p, attempt)
  BY <1>0, <1>3, PublishInv
<1>4. CASE \E p \in Request, attempt \in 1..SendBudget : Hear(p, attempt)
  BY <1>0, <1>4, HearInv
<1>5. CASE RelayResolves \/ WebhooksResolve
  BY <1>0, <1>5, RelayResolvesInv, WebhooksResolveInv
<1>6. CASE \E q \in Query : Read(q) \/ \E id \in Request \cup {Unknown} : Ask(q, id)
  BY <1>0, <1>6, ReadInv, AskInv
<1> QED
  BY <1>1, <1>2, <1>3, <1>4, <1>5, <1>6 DEF Next

\* The parts agree in every reachable state of the service.
THEOREM Safety == Spec => []PipelineInv
  BY InitInv, NextInv, PTL DEF Spec

\* From the commit of POST /payments to the webhook, one of the parts holds a payment, or it
\* was given up where it can be seen.
THEOREM NothingGetsStuck == Spec => []NothingIsStuck
  BY Safety, PTL DEF PipelineInv

\* However often a webhook is repeated, it tells the one outcome the tables have.
THEOREM WebhooksAreTrue == Spec => []HeardIsTrue
  BY Safety, PTL DEF PipelineInv

\* GET /payments/{id} after a webhook answers what the webhook said.
THEOREM AnswersFollowWebhooks == Spec => []AskedAfterHeard
  BY Safety, PTL DEF PipelineInv

-----------------------------------------------------------------------------
(* The parts keep their contracts where they meet. *)

\* POST /payments is one transaction of the creation; nothing else touches its tables.
LEMMA CreationStep == [Next]_vars => [Creation!Next]_(Creation!vars)
<1> SUFFICES ASSUME [Next]_vars
             PROVE  [Creation!Next]_(Creation!vars)
  OBVIOUS
<1> USE DEF Creation!vars, creation
<1>1. CASE UNCHANGED vars
  BY <1>1 DEF vars
<1>2. ASSUME NEW r \in Request, Create(r) \/ Tell(r)
      PROVE  Creation!Next
  BY <1>2 DEF Create, Tell, Creation!Next
<1>3. ASSUME NEW p \in Request, Consume(p)
      PROVE  UNCHANGED Creation!vars
  BY <1>3 DEF Consume, Process, Ack, DeadLetter
<1>4. ASSUME NEW p \in Request, NEW attempt, Publish(p, attempt) \/ Hear(p, attempt)
      PROVE  UNCHANGED Creation!vars
  BY <1>4 DEF Publish, Hear
<1>5. ASSUME RelayResolves \/ WebhooksResolve
      PROVE  UNCHANGED Creation!vars
  BY <1>5 DEF RelayResolves, WebhooksResolve
<1>6. ASSUME NEW q \in Query, Read(q) \/ \E id \in Request \cup {Unknown} : Ask(q, id)
      PROVE  UNCHANGED Creation!vars
  BY <1>6 DEF Read, Ask
<1> QED
  BY <1>1, <1>2, <1>3, <1>4, <1>5, <1>6 DEF Next

\* The outbox takes a message with the payment's commit, publishes and resolves.
LEMMA RelayStep == [Next]_vars => [Relay!Next]_(Relay!vars)
<1> SUFFICES ASSUME [Next]_vars
             PROVE  [Relay!Next]_(Relay!vars)
  OBVIOUS
<1> USE DEF Relay!vars, outbox
<1>1. CASE UNCHANGED vars
  BY <1>1 DEF vars
<1>2. ASSUME NEW r \in Request, Create(r)
      PROVE  Relay!Next
  BY <1>2 DEF Create, Relay!Next
<1>3. ASSUME NEW p \in Request, NEW attempt \in 1..PublishBudget, Publish(p, attempt)
      PROVE  Relay!Next
  BY <1>3 DEF Publish, Relay!Next
<1>4. CASE RelayResolves
  BY <1>4 DEF RelayResolves, Relay!Next
<1>5. ASSUME NEW p \in Request, Tell(p) \/ Consume(p) \/ \E attempt \in 1..SendBudget : Hear(p, attempt)
      PROVE  UNCHANGED Relay!vars
  BY <1>5 DEF Tell, Consume, Process, Ack, DeadLetter, Hear
<1>6. CASE WebhooksResolve
  BY <1>6 DEF WebhooksResolve
<1>7. ASSUME NEW q \in Query, Read(q) \/ \E id \in Request \cup {Unknown} : Ask(q, id)
      PROVE  UNCHANGED Relay!vars
  BY <1>7 DEF Read, Ask
<1> QED
  BY <1>1, <1>2, <1>3, <1>4, <1>5, <1>6, <1>7 DEF Next

\* Only the processing writes the tables.
LEMMA TablesStep == [Next]_vars => [Tables!Next]_(Tables!vars)
<1> SUFFICES ASSUME [Next]_vars
             PROVE  [Tables!Next]_(Tables!vars)
  OBVIOUS
<1> USE DEF Tables!vars, tables
<1>1. CASE UNCHANGED vars
  BY <1>1 DEF vars
<1>2. ASSUME NEW p \in Request, NEW outcome \in Outcome, Process(p, outcome)
      PROVE  Tables!Next
  BY <1>2, Outcomes DEF Process, Reads!Processed, Reads!Tables!Settle, Tables!Settle, Tables!Next
<1>3. ASSUME NEW r \in Request, Create(r) \/ Tell(r)
      PROVE  UNCHANGED Tables!vars
  BY <1>3 DEF Create, Tell
<1>4. ASSUME NEW p \in Request, NEW attempt, Publish(p, attempt) \/ Ack(p, attempt)
             \/ DeadLetter(p, attempt) \/ Hear(p, attempt)
      PROVE  UNCHANGED Tables!vars
  BY <1>4 DEF Publish, Ack, DeadLetter, Hear
<1>5. ASSUME RelayResolves \/ WebhooksResolve
      PROVE  UNCHANGED Tables!vars
  BY <1>5 DEF RelayResolves, WebhooksResolve
<1>6. ASSUME NEW q \in Query, Read(q) \/ \E id \in Request \cup {Unknown} : Ask(q, id)
      PROVE  UNCHANGED Tables!vars
  BY <1>6 DEF Read, Ask, Reads!Read, Reads!Fail, Reads!Ask, Reads!tables
<1> QED
  BY <1>1, <1>2, <1>3, <1>4, <1>5, <1>6 DEF Next, Consume

\* A webhook is stored with the commit that settles its payment, sent and resolved.
LEMMA HooksStep == [Next]_vars => [Hooks!Next]_(Hooks!vars)
<1> SUFFICES ASSUME [Next]_vars
             PROVE  [Hooks!Next]_(Hooks!vars)
  OBVIOUS
<1> USE DEF Hooks!vars, webhooks
<1>1. CASE UNCHANGED vars
  BY <1>1 DEF vars
<1>2. ASSUME NEW p \in Request, NEW outcome \in Outcome, Process(p, outcome)
      PROVE  Hooks!Next
  BY <1>2 DEF Process, Hooks!Next
<1>3. ASSUME NEW p \in Request, NEW attempt \in 1..SendBudget, Hear(p, attempt)
      PROVE  Hooks!Next
  BY <1>3 DEF Hear, Hooks!Next
<1>4. CASE WebhooksResolve
  BY <1>4 DEF WebhooksResolve, Hooks!Next
<1>5. ASSUME NEW r \in Request, Create(r) \/ Tell(r)
      PROVE  UNCHANGED Hooks!vars
  BY <1>5 DEF Create, Tell
<1>6. ASSUME NEW p \in Request, NEW attempt, Publish(p, attempt) \/ Ack(p, attempt)
             \/ DeadLetter(p, attempt)
      PROVE  UNCHANGED Hooks!vars
  BY <1>6 DEF Publish, Ack, DeadLetter
<1>7. CASE RelayResolves
  BY <1>7 DEF RelayResolves
<1>8. ASSUME NEW q \in Query, Read(q) \/ \E id \in Request \cup {Unknown} : Ask(q, id)
      PROVE  UNCHANGED Hooks!vars
  BY <1>8 DEF Read, Ask
<1> QED
  BY <1>1, <1>2, <1>3, <1>4, <1>5, <1>6, <1>7, <1>8 DEF Next, Consume

\* However the transactions of the service join the steps of its parts, each part does what its
\* contract says and no more: joining them takes nothing away that a part's own module shows.
THEOREM PartsKeepTheirContracts ==
  Spec => Creation!Spec /\ Relay!Spec /\ Tables!Spec /\ Hooks!Spec /\ Reads!Spec
<1>1. Init => Creation!Init /\ Relay!Init /\ Tables!Init /\ Hooks!Init /\ Reads!Init
  BY Outcomes DEF Init, Reads!Init, Reads!Tables!Init, Tables!Init
<1> QED
  BY <1>1, CreationStep, RelayStep, TablesStep, HooksStep, ReadsStep, PTL
     DEF Spec, Creation!Spec, Relay!Spec, Tables!Spec, Hooks!Spec, Reads!Spec

-----------------------------------------------------------------------------
(* To its clients the service is PaymentService. *)

\* The outcomes of the payments, as the clients may come to know them.
Verdict == [p \in Request |-> payment[p].status]

\* Nothing has been accepted, told or asked.
LEMMA ServiceInit == Init => Service!Init
<1> SUFFICES ASSUME Init
             PROVE  Service!Init
  OBVIOUS
<1> USE DEF Init, Creation!Init, Reads!Init, Reads!Tables!Init
<1>1. Verdict = [p \in Request |-> "pending"]
  BY DEF Verdict
<1>2. Answers = [q \in Query |-> Service!NoAnswer]
  BY DEF Answers, Service!NoAnswer
<1> QED
  BY <1>1, <1>2 DEF Service!Init, Verdict

\* What the clients do not see: publications, acks, the verdicts of the relays, a query's first
\* SELECT and its failures.
LEMMA Unseen ==
  ASSUME UNCHANGED <<payments, told, payment, heard, asked, known, Answers>>
  PROVE  UNCHANGED Service!vars
  BY DEF Service!vars

\* Nobody has the answer to a query before it is complete.
LEMMA AnswersStay ==
  ASSUME UNCHANGED queries
  PROVE  Answers' = Answers
  BY DEF queries, Answers

\* The one transaction of the creation is the moment the payment is accepted.
LEMMA CreateAccepts ==
  ASSUME NEW r \in Request, Create(r)
  PROVE  Service!Accept(r)
<1>1. payment' = payment /\ heard' = heard /\ asked' = asked /\ known' = known
  BY DEF Create, tables, webhooks, queries
<1>2. Answers' = Answers
  BY AnswersStay DEF Create
<1>3. Creation!Bind(r)
  BY DEF Create
<1> QED
  BY <1>1, <1>2, <1>3 DEF Service!Accept, Creation!Bind

\* A repeated call is told the payment that has its key.
LEMMA TellTells ==
  ASSUME NEW r \in Request, Tell(r)
  PROVE  Service!Tell(r)
<1>1. payment' = payment /\ heard' = heard /\ asked' = asked /\ known' = known
  BY DEF Tell, tables, webhooks, queries
<1>2. Answers' = Answers
  BY AnswersStay DEF Tell
<1>3. Creation!Tell(r)
  BY DEF Tell
<1> QED
  BY <1>1, <1>2, <1>3 DEF Service!Tell, Creation!Tell

\* What is in the queues was accepted; the commit of its processing is its one verdict.
LEMMA ProcessSettles ==
  ASSUME PipelineInv, NEW p \in Request, NEW outcome \in Outcome, Process(p, outcome)
  PROVE  Service!Settle(p, outcome)
<1>1. p \in payments
  BY DEF PipelineInv, PartsAgree, Process, Queued
<1>2. /\ payment[p].status = "pending"
      /\ payment' = [payment EXCEPT ![p] = [status |-> outcome, version |-> 2]]
  BY DEF Process, Reads!Processed, Reads!Tables!Settle
<1>3. Verdict' = [Verdict EXCEPT ![p] = outcome]
  BY <1>2 DEF Verdict, PipelineInv, TypeOK, Reads!TypeOK
<1>4. UNCHANGED <<pc, asked, status, shown>> /\ UNCHANGED <<payments, told, heard, known>>
  BY DEF Process, Reads!Processed, creation
<1>5. Answers' = Answers
  BY <1>4 DEF Answers
<1>6. Verdict[p] = "pending"
  BY <1>2 DEF Verdict
<1> QED
  BY <1>1, <1>3, <1>4, <1>5, <1>6 DEF Service!Settle, Verdict

\* A webhook tells the verdict, for the first time or again.
LEMMA HearTells ==
  ASSUME PipelineInv, NEW p \in Request, NEW attempt \in 1..SendBudget, Hear(p, attempt)
  PROVE  Service!Hear(p)
<1> USE DEF PipelineInv
<1>1. payment[p].status \in Outcome /\ EventOf(p) = {payment[p].status}
  <2>1. payment[p].status # "pending" /\ EventOf(p) = {payment[p].status} \cap Outcome
    BY DEF PartsAgree, Hear, Hooks!Publish
  <2>2. payment[p].status \in {"pending"} \cup Outcome
    BY Outcomes DEF TypeOK, Reads!TypeOK
  <2> QED
    BY <2>1, <2>2
<1>2. p \in payments
  BY <1>1 DEF PartsAgree
<1>3. heard[p] \cup EventOf(p) = {payment[p].status}
  BY <1>1 DEF HeardIsTrue
<1>4. heard' = [heard EXCEPT ![p] = {payment[p].status}]
  BY <1>3 DEF Hear
<1>5. UNCHANGED <<payments, told, payment, asked, known>> /\ Answers' = Answers
  BY AnswersStay DEF Hear, creation, tables, queries
<1>6. Verdict[p] = payment[p].status /\ payment[p].status # "pending"
  BY <1>1, Outcomes DEF Verdict
<1> QED
  BY <1>2, <1>4, <1>5, <1>6 DEF Service!Hear, Verdict

\* A question is for a payment there is, or it is not for the service to answer.
LEMMA AskAsks ==
  ASSUME PipelineInv, NEW q \in Query, NEW id \in Request \cup {Unknown}, Ask(q, id)
  PROVE  (Service!Ask(q, id) /\ id \in Request) \/ UNCHANGED Service!vars
<1> USE DEF PipelineInv, Ask, Reads!Ask
<1>1. UNCHANGED <<payments, told, payment, heard>>
  BY DEF Reads!tables, creation, webhooks
<1>2. Answers' = Answers
  BY DEF Answers, TypeOK, Reads!TypeOK
<1>3. asked[q] = Unknown
  BY DEF QueriesAgree
<1>4. CASE id = Unknown
  <2>1. asked' = asked
    BY <1>3, <1>4 DEF TypeOK, Reads!TypeOK
  <2>2. known[q] = {}
    BY <1>3, PipelineAssumption DEF QueriesAgree
  <2>3. known' = known
    BY <1>4, <2>2, PipelineAssumption DEF TypeOK
  <2> QED
    BY <1>1, <1>2, <2>1, <2>3, Unseen
<1>5. CASE id # Unknown
  <2>1. id \in payments /\ id \in Request
    BY <1>5, IdsArePayments
  <2> QED
    BY <1>1, <1>2, <1>3, <2>1 DEF Service!Ask
<1> QED
  BY <1>4, <1>5

\* The second SELECT completes the answer.  Its status may be from before a commit that its
\* attempts are from after, but not from before a webhook the caller has had.
LEMMA ReadAnswers ==
  ASSUME PipelineInv, NEW q \in Query, Read(q)
  PROVE  \/ \E s \in {"pending"} \cup Outcome : Service!Answer(q, s)
         \/ UNCHANGED Service!vars
<1> USE DEF PipelineInv
<1>1. /\ UNCHANGED <<tables, asked>>
      /\ \A r \in Query \ {q} :
           pc'[r] = pc[r] /\ status'[r] = status[r] /\ shown'[r] = shown[r]
      /\ \/ /\ asked[q] \in Request /\ pc[q] = "first" /\ pc'[q] = "second"
            /\ status'[q] = payment[asked[q]].status /\ shown' = shown
         \/ /\ asked[q] \in Request /\ pc[q] = "second" /\ pc'[q] = "answered"
            /\ shown'[q] = attempts[asked[q]] /\ status' = status
         \/ /\ pc[q] \in {"first", "second"} /\ pc'[q] \in {"notFound", "failed"}
            /\ status' = status /\ shown' = shown
  BY ReadEffect DEF Read, TypeOK
<1>2. UNCHANGED <<payments, told, payment, heard, asked, known>>
  BY <1>1 DEF Read, creation, webhooks, tables
<1>3. CASE pc'[q] # "answered"
  <2>1. pc[q] # "answered"
    BY <1>1
  <2>2. Answers' = Answers
    BY <1>1, <1>3, <2>1 DEF Answers
  <2> QED
    BY <1>2, <2>2, Unseen
<1>4. CASE pc'[q] = "answered"
  <2>1. /\ asked[q] \in Request /\ pc[q] = "second"
        /\ shown'[q] = attempts[asked[q]] /\ status' = status
    BY <1>1, <1>4
  <2>2. asked[q] \in payments
    BY <2>1, PipelineAssumption DEF QueriesAgree
  <2>3. Answers[q] = Service!NoAnswer
    BY <2>1 DEF Answers, Service!NoAnswer
  <2>4. /\ status[q] \in {"pending"} \cup Outcome
        /\ status[q] \in Outcome => status[q] = Verdict[asked[q]]
    BY <2>1, Outcomes
       DEF Reads!QueryInv, Reads!TypeOK, Reads!FinalStatusStays, Verdict
  <2>5. status[q] = "pending" => known[q] = {}
    BY <2>1, Outcomes DEF QueriesAgree, TypeOK
  <2>6. attempts[asked[q]] =
          IF Verdict[asked[q]] = "pending" THEN <<>> ELSE <<Verdict[asked[q]]>>
    <3>1. payment[asked[q]].status \in {"pending"} \cup Outcome
      BY <2>1, Outcomes DEF TypeOK, Reads!TypeOK
    <3> QED
      BY <2>1, <3>1, Outcomes DEF Reads!QueryInv, Reads!FinalStatusStays, Verdict
  <2>7. Answers' = [Answers EXCEPT ![q] = [status |-> status[q], attempts |-> attempts[asked[q]]]]
    BY <1>1, <1>4, <2>1 DEF Answers
  <2>8. Service!Answer(q, status[q])
    BY <1>2, <2>2, <2>3, <2>4, <2>5, <2>6, <2>7 DEF Service!Answer, Verdict
  <2> QED
    BY <2>4, <2>8
<1> QED
  BY <1>3, <1>4

\* Every step of the service is one its clients were promised, or one they do not see.
LEMMA ServiceStep == PipelineInv /\ [Next]_vars => [Service!Next]_(Service!vars)
<1> SUFFICES ASSUME PipelineInv, [Next]_vars
             PROVE  [Service!Next]_(Service!vars)
  OBVIOUS
<1>1. CASE UNCHANGED vars
  <2>1. UNCHANGED queries
    BY <1>1 DEF vars
  <2> QED
    BY <1>1, <2>1, AnswersStay, Unseen DEF vars, creation, tables, webhooks, queries
<1>2. ASSUME NEW r \in Request, Create(r) \/ Tell(r)
      PROVE  Service!Next
  BY <1>2, CreateAccepts, TellTells DEF Service!Next
<1>3. ASSUME NEW p \in Request, NEW outcome \in Outcome, Process(p, outcome)
      PROVE  Service!Next
  BY <1>3, ProcessSettles, Outcomes DEF Service!Next
<1>4. ASSUME NEW p \in Request, NEW attempt,
             Publish(p, attempt) \/ Ack(p, attempt) \/ DeadLetter(p, attempt)
      PROVE  UNCHANGED Service!vars
  <2>1. UNCHANGED <<creation, tables, webhooks, queries>>
    BY <1>4 DEF Publish, Ack, DeadLetter
  <2> QED
    BY <2>1, AnswersStay, Unseen DEF creation, tables, webhooks, queries
<1>5. ASSUME RelayResolves \/ WebhooksResolve
      PROVE  UNCHANGED Service!vars
  <2>1. UNCHANGED <<creation, tables, heard, queries>>
    BY <1>5 DEF RelayResolves, WebhooksResolve, webhooks
  <2> QED
    BY <2>1, AnswersStay, Unseen DEF creation, tables, queries
<1>6. ASSUME NEW p \in Request, NEW attempt \in 1..SendBudget, Hear(p, attempt)
      PROVE  Service!Next
  BY <1>6, HearTells DEF Service!Next
<1>7. ASSUME NEW q \in Query, NEW id \in Request \cup {Unknown}, Ask(q, id)
      PROVE  [Service!Next]_(Service!vars)
  BY <1>7, AskAsks DEF Service!Next
<1>8. ASSUME NEW q \in Query, Read(q)
      PROVE  [Service!Next]_(Service!vars)
  BY <1>8, ReadAnswers, Outcomes DEF Service!Next
<1> QED
  BY <1>1, <1>2, <1>3, <1>4, <1>5, <1>6, <1>7, <1>8 DEF Next, Consume

\* End to end: whatever the outbox, the broker, the consumer and the webhooks do in between, an
\* accepted payment gets one verdict, every webhook tells it, and GET shows it with its attempt,
\* or "pending" to whoever asked before a webhook.
THEOREM Refinement == Spec => ServiceSpec
  BY Safety, ServiceInit, ServiceStep, PTL DEF Spec, ServiceSpec, Service!Spec
=============================================================================
