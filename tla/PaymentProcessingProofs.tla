----------------------- MODULE PaymentProcessingProofs -----------------------
(***************************************************************************)
(* Proofs about PaymentProcessing for any payments, messages, callbacks and *)
(* limits.  ProcessingInv is inductive; one lemma per group of actions      *)
(* shows that they keep it.                                                 *)
(***************************************************************************)
EXTENDS PaymentProcessing, TLAPS

BodyKinds ==
  /\ Body \in [Message -> Payment \cup OtherBody] /\ Payment \cap OtherBody = {}
  /\ NoCallback \notin Callback

LEMMA BodiesAreOfAKind == BodyKinds
  BY BodyAssumption, NullAssumption DEF BodyKinds

LEMMA InitIsRight == Init => ProcessingInv
  <1>. USE BodiesAreOfAKind
  <1>1. ASSUME Init PROVE TypeOK
    <2>1. <<>> \in Seq(Outcome)
      OBVIOUS
    <2>. QED
      BY <1>1, <2>1, BoundAssumption DEF Init, TypeOK, Created, Version, Status, Outcome
  <1>2. ASSUME Init PROVE CallbacksAreRight
    BY <1>2 DEF Init, CallbacksAreRight, InCharge
  <1>3. ASSUME Init PROVE ChargesAreExclusive
    BY <1>3 DEF Init, ChargesAreExclusive, InCharge
  <1>4. ASSUME Init PROVE RecordMatchesCharge
    BY <1>4 DEF Init, RecordMatchesCharge, Agrees, Tells, Settled, Created, Outcome
  <1>5. ASSUME Init PROVE AckedIsSettled /\ DlqIsExhausted
    BY <1>5 DEF Init, AckedIsSettled, DlqIsExhausted
  <1>. QED
    BY <1>1, <1>2, <1>3, <1>4, <1>5 DEF ProcessingInv

(***************************************************************************)
(* The broker's own steps and the ends of a callback.                       *)
(***************************************************************************)
LEMMA PublishStep ==
  ASSUME ProcessingInv, NEW m \in Message, Publish(m) \/ RetryExpires(m)
  PROVE  ProcessingInv'
  <1>. USE DEF ProcessingInv, Publish, RetryExpires, tables, locks
  <1>1. TypeOK'
    BY DEF TypeOK
  <1>2. CallbacksAreRight'
    BY DEF CallbacksAreRight, InCharge, PaymentOf, Settled
  <1>3. ChargesAreExclusive'
    BY DEF ChargesAreExclusive, InCharge, PaymentOf
  <1>4. RecordMatchesCharge'
    BY DEF RecordMatchesCharge, Agrees, Tells, Settled
  <1>5. AckedIsSettled' /\ DlqIsExhausted'
    BY DEF AckedIsSettled, DlqIsExhausted, Settled, TypeOK
  <1>. QED
    BY <1>1, <1>2, <1>3, <1>4, <1>5

LEMMA RoutedKinds ==
  ASSUME NEW m \in Message, rejected[m] \in Nat
  PROVE  /\ Routed(m) \in {"received", "toDlq", "acking", "nacking"}
         /\ Routed(m) = "received" => Body[m] \in Payment \cup {"unknown"}
         /\ Routed(m) = "toDlq" => Body[m] = "unreadable" \/ rejected[m] >= MaxRetries
         /\ Routed(m) = "acking" => Body[m] \notin Payment
  <1>1. CASE Body[m] = "unreadable"
    <2>1. Routed(m) = "toDlq"
      BY <1>1 DEF Routed
    <2>. QED
      BY <1>1, <2>1
  <1>2. CASE Body[m] = "foreign"
    <2>1. Routed(m) = "acking"
      BY <1>2 DEF Routed
    <2>2. Body[m] \notin Payment
      BY <1>2, BodiesAreOfAKind DEF BodyKinds, OtherBody
    <2>. QED
      BY <2>1, <2>2
  <1>3. CASE Body[m] \notin {"unreadable", "foreign"} /\ rejected[m] >= MaxRetries
    <2>1. Routed(m) = "toDlq"
      BY <1>3, BoundAssumption DEF Routed
    <2>. QED
      BY <1>3, <2>1
  <1>4. CASE Body[m] = "malformed" /\ ~(rejected[m] >= MaxRetries)
    <2>1. rejected[m] < MaxRetries
      BY <1>4, BoundAssumption
    <2>2. Routed(m) = "nacking"
      BY <1>4, <2>1 DEF Routed
    <2>. QED
      BY <2>2
  <1>5. CASE Body[m] \notin {"unreadable", "foreign", "malformed"} /\ ~(rejected[m] >= MaxRetries)
    <2>1. Routed(m) = "received"
      BY <1>5 DEF Routed
    <2>2. Body[m] \in Payment \cup {"unknown"}
      BY <1>5, BodiesAreOfAKind DEF BodyKinds, OtherBody
    <2>. QED
      BY <2>1, <2>2
  <1>. QED
    BY <1>1, <1>2, <1>3, <1>4, <1>5

LEMMA DeliverStep ==
  ASSUME ProcessingInv, NEW m \in Message, NEW c \in Callback, Deliver(m, c)
  PROVE  ProcessingInv'
  <1>. USE DEF ProcessingInv, Deliver, tables, locks
  <1>0. /\ Routed(m) \in {"received", "toDlq", "acking", "nacking"}
        /\ Routed(m) = "received" => Body[m] \in Payment \cup {"unknown"}
        /\ Routed(m) = "toDlq" => Body[m] = "unreadable" \/ rejected[m] >= MaxRetries
        /\ Routed(m) = "acking" => Body[m] \notin Payment
    BY RoutedKinds DEF TypeOK
  <1>1. TypeOK'
    BY <1>0 DEF TypeOK, Running
  <1>2. CallbacksAreRight'
    BY <1>0 DEF CallbacksAreRight, InCharge, PaymentOf, Settled, TypeOK
  <1>3. ChargesAreExclusive'
    BY <1>0 DEF ChargesAreExclusive, InCharge, PaymentOf, TypeOK
  <1>4. RecordMatchesCharge'
    BY DEF RecordMatchesCharge, Agrees, Tells, Settled
  <1>5. AckedIsSettled' /\ DlqIsExhausted'
    BY DEF AckedIsSettled, DlqIsExhausted, Settled, TypeOK
  <1>. QED
    BY <1>1, <1>2, <1>3, <1>4, <1>5

LEMMA AckStep ==
  ASSUME ProcessingInv, NEW c \in Callback, Ack(c)
  PROVE  ProcessingInv'
  <1>. USE DEF ProcessingInv, Ack, Return, Forget, tables, locks
  <1>0. msg[c] \in Message /\ pc[c] = "acking"
    BY DEF CallbacksAreRight
  <1>1. TypeOK'
    BY <1>0 DEF TypeOK, Running, Created, Version, Status
  <1>2. CallbacksAreRight'
    BY <1>0, BoundAssumption DEF CallbacksAreRight, InCharge, PaymentOf, Settled, TypeOK
  <1>3. ChargesAreExclusive'
    BY <1>0 DEF ChargesAreExclusive, InCharge, PaymentOf, TypeOK
  <1>4. RecordMatchesCharge'
    BY DEF RecordMatchesCharge, Agrees, Tells, Settled
  <1>5. AckedIsSettled'
    BY <1>0 DEF AckedIsSettled, CallbacksAreRight, Settled, TypeOK, PaymentOf
  <1>6. DlqIsExhausted'
    BY <1>0, BoundAssumption DEF DlqIsExhausted, TypeOK
  <1>. QED
    BY <1>1, <1>2, <1>3, <1>4, <1>5, <1>6

LEMMA NackStep ==
  ASSUME ProcessingInv, NEW c \in Callback, Nack(c)
  PROVE  ProcessingInv'
  <1>. USE DEF ProcessingInv, tables, locks
  <1>0. /\ msg[c] \in Message /\ pc[c] = "nacking"
        /\ Return(c) /\ UNCHANGED <<tables, locks, inDlq, lastCharge, crashes>>
    BY DEF CallbacksAreRight, Nack
  <1>1. /\ place' \in [Message -> {"unsent", "queued", "delivered", "retry", "gone"}]
        /\ holder' \in [Message -> Callback \cup {NoCallback}]
        /\ rejected' \in [Message -> Nat]
        /\ \A m \in Message : rejected'[m] >= rejected[m]
        /\ \A m \in Message : place'[m] = "gone" => place[m] = "gone"
    <2>1. CASE holder[msg[c]] = c
      <3>. DEFINE n == msg[c]
      <3>1. /\ place' = [place EXCEPT ![n] = "retry"]
            /\ holder' = [holder EXCEPT ![n] = NoCallback]
            /\ rejected' = [rejected EXCEPT ![n] = OneMore(rejected[n])]
        BY <2>1 DEF Nack
      <3>2. n \in Message
        BY <1>0
      <3>. HIDE DEF n
      <3>3. OneMore(rejected[n]) \in Nat /\ OneMore(rejected[n]) >= rejected[n]
        BY <3>2 DEF OneMore, TypeOK
      <3>. QED
        BY <3>1, <3>2, <3>3 DEF TypeOK
    <2>2. CASE holder[msg[c]] # c
      BY <2>2 DEF Nack, TypeOK
    <2>. QED
      BY <2>1, <2>2
  <1>2. TypeOK'
    BY <1>0, <1>1 DEF Return, Forget, TypeOK, Running, Created, Version, Status
  <1>3. CallbacksAreRight'
    BY <1>0, <1>1, BoundAssumption
    DEF Return, Forget, CallbacksAreRight, InCharge, PaymentOf, Settled, TypeOK
  <1>4. ChargesAreExclusive'
    BY <1>0 DEF Return, Forget, ChargesAreExclusive, InCharge, PaymentOf, TypeOK
  <1>5. RecordMatchesCharge'
    BY <1>0 DEF RecordMatchesCharge, Agrees, Tells, Settled
  <1>6. AckedIsSettled'
    BY <1>0, <1>1 DEF AckedIsSettled, Settled
  <1>7. DlqIsExhausted'
    BY <1>0, <1>1, BoundAssumption DEF DlqIsExhausted, TypeOK
  <1>. QED
    BY <1>2, <1>3, <1>4, <1>5, <1>6, <1>7

LEMMA SendToDlqStep ==
  ASSUME ProcessingInv, NEW c \in Callback, SendToDlq(c)
  PROVE  ProcessingInv'
  <1>. USE DEF ProcessingInv, tables, locks
  <1>0. /\ pc[c] = "toDlq" /\ msg[c] \in Message
        /\ UNCHANGED <<tables, locks, place, holder, rejected, msg, seen, result, lastCharge, crashes>>
        /\ PaymentOf(c) = "unreadable" \/ rejected[msg[c]] >= MaxRetries
    BY DEF SendToDlq, CopyToDlq, CopyFails, broker, CallbacksAreRight
  <1>1. CASE inDlq' = [inDlq EXCEPT ![msg[c]] = TRUE] /\ pc' = [pc EXCEPT ![c] = "acking"]
    <2>1. TypeOK'
      BY <1>0, <1>1 DEF TypeOK, Running
    <2>2. CallbacksAreRight'
      BY <1>0, <1>1 DEF CallbacksAreRight, InCharge, PaymentOf, Settled, TypeOK
    <2>3. ChargesAreExclusive'
      BY <1>0, <1>1 DEF ChargesAreExclusive, InCharge, PaymentOf, TypeOK
    <2>4. RecordMatchesCharge'
      BY <1>0 DEF RecordMatchesCharge, Agrees, Tells, Settled
    <2>5. AckedIsSettled'
      BY <1>0, <1>1 DEF AckedIsSettled, Settled, TypeOK
    <2>6. DlqIsExhausted'
      BY <1>0, <1>1 DEF DlqIsExhausted, TypeOK, PaymentOf
    <2>. QED
      BY <2>1, <2>2, <2>3, <2>4, <2>5, <2>6
  <1>2. CASE inDlq' = inDlq /\ pc' = [pc EXCEPT ![c] = "nacking"]
    <2>1. TypeOK'
      BY <1>0, <1>2 DEF TypeOK, Running
    <2>2. CallbacksAreRight'
      BY <1>0, <1>2 DEF CallbacksAreRight, InCharge, PaymentOf, Settled, TypeOK
    <2>3. ChargesAreExclusive'
      BY <1>0, <1>2 DEF ChargesAreExclusive, InCharge, PaymentOf, TypeOK
    <2>4. RecordMatchesCharge'
      BY <1>0 DEF RecordMatchesCharge, Agrees, Tells, Settled
    <2>5. AckedIsSettled' /\ DlqIsExhausted'
      BY <1>0, <1>2 DEF AckedIsSettled, DlqIsExhausted, Settled, TypeOK
    <2>. QED
      BY <2>1, <2>2, <2>3, <2>4, <2>5
  <1>. QED
    BY <1>1, <1>2 DEF SendToDlq, CopyToDlq, CopyFails, broker

(***************************************************************************)
(* The steps of the handler's transaction.                                  *)
(***************************************************************************)
LEMMA LoadStep ==
  ASSUME ProcessingInv, NEW c \in Callback, Load(c)
  PROVE  ProcessingInv'
  <1>. USE DEF ProcessingInv, tables, locks, broker
  <1>0. /\ pc[c] = "received" /\ msg[c] \in Message /\ PaymentOf(c) \in Payment \cup {"unknown"}
        /\ UNCHANGED <<tables, locks, broker, msg, result, lastCharge, crashes>>
    BY DEF Load, CallbacksAreRight
  <1>1. CASE PaymentOf(c) \in Payment /\ payment[PaymentOf(c)].status = "pending"
    <2>0. payment[PaymentOf(c)] = Created
      BY <1>1 DEF RecordMatchesCharge, Agrees, Tells, Settled, Outcome
    <2>1. seen' = [seen EXCEPT ![c] = Created] /\ pc' = [pc EXCEPT ![c] = "loaded"]
      BY <1>1, <2>0 DEF Load
    <2>2. TypeOK'
      BY <1>0, <2>1 DEF TypeOK, Running, Created, Version, Status
    <2>3. CallbacksAreRight'
      BY <1>0, <1>1, <2>1 DEF CallbacksAreRight, InCharge, PaymentOf, Settled, TypeOK
    <2>4. ChargesAreExclusive'
      BY <1>0, <2>1 DEF ChargesAreExclusive, InCharge, PaymentOf, TypeOK
    <2>5. RecordMatchesCharge' /\ AckedIsSettled' /\ DlqIsExhausted'
      BY <1>0 DEF RecordMatchesCharge, Agrees, Tells, AckedIsSettled, DlqIsExhausted, Settled
    <2>. QED
      BY <2>2, <2>3, <2>4, <2>5
  <1>2. CASE ~(PaymentOf(c) \in Payment /\ payment[PaymentOf(c)].status = "pending")
    <2>1. UNCHANGED seen /\ pc' = [pc EXCEPT ![c] = "acking"]
      BY <1>2 DEF Load
    <2>2. PaymentOf(c) \in Payment => Settled(PaymentOf(c))
      <3>1. PaymentOf(c) \in Payment => payment[PaymentOf(c)] # Created
        BY <1>2 DEF Created
      <3>. QED
        BY <3>1 DEF RecordMatchesCharge, Agrees, Tells
    <2>3. TypeOK'
      BY <1>0, <2>1 DEF TypeOK, Running
    <2>4. CallbacksAreRight'
      BY <1>0, <2>1, <2>2 DEF CallbacksAreRight, InCharge, PaymentOf, Settled, TypeOK
    <2>5. ChargesAreExclusive'
      BY <1>0, <2>1 DEF ChargesAreExclusive, InCharge, PaymentOf, TypeOK
    <2>6. RecordMatchesCharge' /\ AckedIsSettled' /\ DlqIsExhausted'
      BY <1>0 DEF RecordMatchesCharge, Agrees, Tells, AckedIsSettled, DlqIsExhausted, Settled
    <2>. QED
      BY <2>3, <2>4, <2>5, <2>6
  <1>. QED
    BY <1>1, <1>2

\* The row lock decides: who gets it finds the payment as it read it, or settled.
LEMMA BeginProcessingStep ==
  ASSUME ProcessingInv, NEW c \in Callback, BeginProcessing(c)
  PROVE  ProcessingInv'
  <1>. USE DEF ProcessingInv, tables, locks, broker
  <1>0. /\ pc[c] = "loaded" /\ msg[c] \in Message /\ PaymentOf(c) \in Payment /\ seen[c] = Created
        /\ lock[PaymentOf(c)] = NoCallback
        /\ c \notin broken
        /\ UNCHANGED <<tables, broken, broker, msg, seen, result, lastCharge, crashes>>
    BY DEF BeginProcessing, CallbacksAreRight, InCharge, RowIsFree
  <1>1. CASE payment[PaymentOf(c)] = Created
    <2>1. lock' = [lock EXCEPT ![PaymentOf(c)] = c] /\ pc' = [pc EXCEPT ![c] = "claimed"]
      BY <1>0, <1>1 DEF BeginProcessing, CanBegin
    <2>2. TypeOK'
      BY <1>0, <2>1 DEF TypeOK, Running
    <2>3. CallbacksAreRight'
      BY <1>0, <2>1 DEF CallbacksAreRight, InCharge, PaymentOf, Settled, TypeOK
    <2>4. ChargesAreExclusive'
      BY <1>0, <1>1, <2>1, BodiesAreOfAKind
      DEF ChargesAreExclusive, InCharge, PaymentOf, TypeOK, BodyKinds
    <2>5. RecordMatchesCharge' /\ AckedIsSettled' /\ DlqIsExhausted'
      BY <1>0 DEF RecordMatchesCharge, Agrees, Tells, AckedIsSettled, DlqIsExhausted, Settled
    <2>. QED
      BY <2>2, <2>3, <2>4, <2>5
  <1>2. CASE payment[PaymentOf(c)] # Created
    <2>1. UNCHANGED lock /\ pc' = [pc EXCEPT ![c] = "acking"]
      BY <1>0, <1>2 DEF BeginProcessing, CanBegin
    <2>2. Settled(PaymentOf(c))
      BY <1>0, <1>2 DEF RecordMatchesCharge, Agrees, Tells
    <2>3. TypeOK'
      BY <1>0, <2>1 DEF TypeOK, Running
    <2>4. CallbacksAreRight'
      BY <1>0, <2>1, <2>2 DEF CallbacksAreRight, InCharge, PaymentOf, Settled, TypeOK
    <2>5. ChargesAreExclusive'
      BY <1>0, <2>1 DEF ChargesAreExclusive, InCharge, PaymentOf, TypeOK
    <2>6. RecordMatchesCharge' /\ AckedIsSettled' /\ DlqIsExhausted'
      BY <1>0 DEF RecordMatchesCharge, Agrees, Tells, AckedIsSettled, DlqIsExhausted, Settled
    <2>. QED
      BY <2>3, <2>4, <2>5, <2>6
  <1>. QED
    BY <1>1, <1>2

\* Who charges with its lock charges alone among those with theirs; who has lost it leaves
\* an answer that nobody hears.
LEMMA ChargeStep ==
  ASSUME ProcessingInv, NEW c \in Callback, NEW answer \in ChargeResults, Charge(c, answer)
  PROVE  ProcessingInv'
  <1>. USE DEF ProcessingInv, tables, locks, broker
  <1>. DEFINE told == IF c \in broken THEN "unheard" ELSE answer
  <1>0. /\ pc[c] = "claimed" /\ answer \in Outcome
        /\ msg[c] \in Message /\ PaymentOf(c) \in Payment
        /\ c \notin broken => payment[PaymentOf(c)] = Created /\ lock[PaymentOf(c)] = c
    BY FaultAssumption DEF Charge, CallbacksAreRight, ChargesAreExclusive, InCharge, Outcome
  <1>1. /\ result' = [result EXCEPT ![c] = answer]
        /\ lastCharge' = [lastCharge EXCEPT ![PaymentOf(c)] = told]
        /\ pc' = [pc EXCEPT ![c] = "charged"]
        /\ UNCHANGED <<tables, locks, broker, msg, seen, crashes>>
    BY DEF Charge
  <1>2. told \in Outcome \cup {"unheard"} /\ told \in {answer, "unheard"}
    BY <1>0
  <1>3. c \notin broken =>
          \A d \in Callback \ (broken \cup {c}) : InCharge(d) => PaymentOf(d) # PaymentOf(c)
    BY <1>0 DEF ChargesAreExclusive
  <1>4. c \in broken => told = "unheard"
    OBVIOUS
  <1>. HIDE DEF told
  <1>5. TypeOK'
    BY <1>0, <1>1, <1>2 DEF TypeOK, Running
  <1>6. CallbacksAreRight'
    BY <1>0, <1>1, <1>2, <1>3, <1>4 DEF CallbacksAreRight, InCharge, PaymentOf, Settled, TypeOK
  <1>7. ChargesAreExclusive'
    BY <1>0, <1>1 DEF ChargesAreExclusive, InCharge, PaymentOf, TypeOK
  <1>8. RecordMatchesCharge'
    BY <1>0, <1>1, <1>2, <1>4
    DEF RecordMatchesCharge, Agrees, Tells, Settled, Created, Outcome, TypeOK
  <1>9. AckedIsSettled' /\ DlqIsExhausted'
    BY <1>1 DEF AckedIsSettled, DlqIsExhausted, Settled
  <1>. QED
    BY <1>5, <1>6, <1>7, <1>8, <1>9

\* What the commit of c does to the tables, given what c knows and holds.
LEMMA CommitFacts ==
  ASSUME ProcessingInv, NEW c \in Callback, NEW answered \in BOOLEAN, Commit(c, answered),
         NEW p, p = PaymentOf(c), NEW r, r = result[c]
  PROVE  /\ p \in Payment /\ r \in Outcome /\ lastCharge[p] \in {r, "unheard"} /\ msg[c] \in Message
         /\ payment[p] = Created
         /\ payment' = [payment EXCEPT ![p] = [status |-> r, version |-> 2]]
         /\ attempts' = [attempts EXCEPT ![p] = <<r>>]
         /\ deliveries' = [deliveries EXCEPT ![p] = [e \in Outcome |-> IF e = r THEN 1 ELSE 0]]
         /\ lock' = [lock EXCEPT ![p] = NoCallback]
         /\ \A d \in Callback \ (broken \cup {c}) : InCharge(d) => PaymentOf(d) # p
  <1>. USE DEF ProcessingInv
  <1>1. pc[c] = "charged" /\ c \notin broken /\ Record(p, r) /\ lock' = Unlocked(c)
    BY DEF Commit
  <1>2. /\ p \in Payment /\ r \in Outcome /\ lastCharge[p] \in {r, "unheard"} /\ msg[c] \in Message
        /\ lock[p] = c /\ payment[p] = Created
    BY <1>1 DEF CallbacksAreRight, ChargesAreExclusive, InCharge
  <1>3. \A q \in Payment : lock[q] = c <=> q = p
    BY <1>2, BodiesAreOfAKind DEF ChargesAreExclusive, BodyKinds
  <1>4. lock' = [lock EXCEPT ![p] = NoCallback]
    BY <1>1, <1>2, <1>3 DEF Unlocked, TypeOK
  <1>5. attempts[p] = <<>> /\ \A e \in Outcome : deliveries[p][e] = 0
    <2>1. ~Settled(p)
      BY <1>2 DEF Settled, Created, Outcome
    <2>2. Agrees(p)
      BY <1>2 DEF RecordMatchesCharge
    <2>. QED
      BY <2>1, <2>2 DEF Agrees, Tells
  <1>6. payment' = [payment EXCEPT ![p] = [status |-> r, version |-> 2]]
    BY <1>1, <1>2 DEF Record, Finalized, Attempted, Created
  <1>7. attempts' = [attempts EXCEPT ![p] = <<r>>]
    <2>1. Append(<<>>, r) = <<r>>
      OBVIOUS
    <2>2. attempts' = [attempts EXCEPT ![p] = Append(attempts[p], r)]
      BY <1>1 DEF Record, Finalized, Attempted
    <2>. QED
      BY <2>1, <2>2, <1>5
  <1>8. deliveries' = [deliveries EXCEPT ![p] = [e \in Outcome |-> IF e = r THEN 1 ELSE 0]]
    <2>1. deliveries' = [deliveries EXCEPT ![p] = [deliveries[p] EXCEPT ![r] = deliveries[p][r] + 1]]
      BY <1>1 DEF Record, Finalized, Attempted
    <2>2. deliveries[p] \in [Outcome -> Nat]
      BY <1>2 DEF TypeOK
    <2>3. [deliveries[p] EXCEPT ![r] = deliveries[p][r] + 1] = [e \in Outcome |-> IF e = r THEN 1 ELSE 0]
      BY <2>2, <1>2, <1>5
    <2>. QED
      BY <2>1, <2>3
  <1>9. \A d \in Callback \ (broken \cup {c}) : InCharge(d) => PaymentOf(d) # p
    BY <1>2 DEF ChargesAreExclusive
  <1>. QED
    BY <1>2, <1>4, <1>6, <1>7, <1>8, <1>9

LEMMA CommitStep ==
  ASSUME ProcessingInv, NEW c \in Callback, NEW answered \in BOOLEAN, Commit(c, answered)
  PROVE  ProcessingInv'
  <1>. SUFFICES ASSUME NEW p, p = PaymentOf(c), NEW r, r = result[c]
                PROVE  ProcessingInv'
    OBVIOUS
  <1>1. /\ p \in Payment /\ r \in Outcome /\ lastCharge[p] \in {r, "unheard"} /\ msg[c] \in Message
        /\ payment[p] = Created
        /\ payment' = [payment EXCEPT ![p] = [status |-> r, version |-> 2]]
        /\ attempts' = [attempts EXCEPT ![p] = <<r>>]
        /\ deliveries' = [deliveries EXCEPT ![p] = [e \in Outcome |-> IF e = r THEN 1 ELSE 0]]
        /\ lock' = [lock EXCEPT ![p] = NoCallback]
        /\ \A d \in Callback \ (broken \cup {c}) : InCharge(d) => PaymentOf(d) # p
    BY CommitFacts
  <1>2. /\ pc[c] = "charged"
        /\ pc' = [pc EXCEPT ![c] = IF answered THEN "acking" ELSE "nacking"]
        /\ seen' = [seen EXCEPT ![c] = Created] /\ result' = [result EXCEPT ![c] = "none"]
        /\ c \notin broken
        /\ UNCHANGED <<broken, place, holder, rejected, inDlq, msg, lastCharge, crashes>>
    BY DEF Commit, Forget, broker
  <1>3. p = Body[msg[c]]
    BY DEF PaymentOf
  <1>. USE DEF ProcessingInv
  <1>4. TypeOK'
    <2>1. <<r>> \in Seq(Outcome)
      BY <1>1
    <2>2. [e \in Outcome |-> IF e = r THEN 1 ELSE 0] \in [Outcome -> Nat]
      OBVIOUS
    <2>3. [status |-> r, version |-> 2] \in Version
      BY <1>1 DEF Version, Status
    <2>. QED
      BY <1>1, <1>2, <2>1, <2>2, <2>3 DEF TypeOK, Running, Created, Version, Status
  <1>5. RecordMatchesCharge'
    <2>1. ASSUME NEW q \in Payment, q # p PROVE Agrees(q)'
      <3>1. /\ payment'[q] = payment[q] /\ attempts'[q] = attempts[q]
            /\ deliveries'[q] = deliveries[q] /\ lastCharge'[q] = lastCharge[q]
        BY <1>1, <1>2, <2>1 DEF TypeOK
      <3>2. Agrees(q)
        BY <2>1 DEF RecordMatchesCharge
      <3>. QED
        BY <3>1, <3>2 DEF Agrees, Tells, Settled
    <2>2. Agrees(p)'
      <3>1. /\ payment'[p] = [status |-> r, version |-> 2] /\ attempts'[p] = <<r>>
            /\ deliveries'[p] = [e \in Outcome |-> IF e = r THEN 1 ELSE 0]
            /\ lastCharge'[p] \in {r, "unheard"}
        BY <1>1, <1>2 DEF TypeOK
      <3>. QED
        BY <3>1, <1>1 DEF Agrees, Tells, Settled
    <2>. QED
      BY <2>1, <2>2 DEF RecordMatchesCharge
  <1>6. \A q \in Payment : Settled(q) \/ q = p => Settled(q)'
    BY <1>1 DEF Settled, TypeOK
  <1>7. CallbacksAreRight'
    BY <1>1, <1>2, <1>3, <1>6 DEF CallbacksAreRight, InCharge, PaymentOf, TypeOK
  <1>8. ChargesAreExclusive'
    BY <1>1, <1>2, <1>3 DEF ChargesAreExclusive, InCharge, PaymentOf, TypeOK
  <1>9. AckedIsSettled' /\ DlqIsExhausted'
    BY <1>2, <1>6 DEF AckedIsSettled, DlqIsExhausted
  <1>. QED
    BY <1>4, <1>5, <1>7, <1>8, <1>9

(***************************************************************************)
(* Rollbacks, crashes and lost connections.                                 *)
(***************************************************************************)

\* Where the locks of a callback are after its transaction, and whose they can be.
LEMMA UnlockedFacts ==
  ASSUME ProcessingInv, NEW c \in Callback, lock' = Unlocked(c)
  PROVE  /\ lock' \in [Payment -> Callback \cup {NoCallback}]
         /\ \A p \in Payment : lock'[p] = IF lock[p] = c THEN NoCallback ELSE lock[p]
         /\ \A p \in Payment : lock'[p] # c
  BY BodiesAreOfAKind DEF ProcessingInv, Unlocked, TypeOK, BodyKinds

LEMMA RollbackStep ==
  ASSUME ProcessingInv, NEW c \in Callback, ChargeRaises(c) \/ DatabaseFails(c)
  PROVE  ProcessingInv'
  <1>. USE DEF ProcessingInv
  <1>1. /\ pc[c] \in {"received", "loaded", "claimed", "charged"}
        /\ lock' = Unlocked(c) /\ pc' = [pc EXCEPT ![c] = "nacking"]
        /\ broken' = broken \ {c}
        /\ seen' = [seen EXCEPT ![c] = Created] /\ result' = [result EXCEPT ![c] = "none"]
        /\ UNCHANGED <<payment, attempts, deliveries, place, holder, rejected, inDlq>>
        /\ UNCHANGED <<msg, lastCharge, crashes>>
    BY DEF ChargeRaises, DatabaseFails, Rollback, Forget, tables, broker
  <1>3. /\ lock' \in [Payment -> Callback \cup {NoCallback}]
        /\ \A p \in Payment : lock'[p] = IF lock[p] = c THEN NoCallback ELSE lock[p]
        /\ \A p \in Payment : lock'[p] # c
    BY <1>1, UnlockedFacts
  <1>4. TypeOK'
    BY <1>1, <1>3 DEF TypeOK, Running, Created, Version, Status
  <1>5. CallbacksAreRight'
    BY <1>1 DEF CallbacksAreRight, InCharge, PaymentOf, Settled, TypeOK
  <1>6. ChargesAreExclusive'
    BY <1>1, <1>3, BodiesAreOfAKind
    DEF ChargesAreExclusive, InCharge, PaymentOf, TypeOK, BodyKinds
  <1>7. RecordMatchesCharge'
    BY <1>1 DEF RecordMatchesCharge, Agrees, Tells, Settled
  <1>8. AckedIsSettled' /\ DlqIsExhausted'
    BY <1>1 DEF AckedIsSettled, DlqIsExhausted, Settled
  <1>. QED
    BY <1>4, <1>5, <1>6, <1>7, <1>8

\* The lock goes, the callback does not know: it is no longer one of those that can commit.
LEMMA LoseDatabaseStep ==
  ASSUME ProcessingInv, NEW c \in Callback, LoseDatabase(c)
  PROVE  ProcessingInv'
  <1>. USE DEF ProcessingInv
  <1>1. /\ InCharge(c) /\ lock' = Unlocked(c) /\ broken' = broken \cup {c}
        /\ UNCHANGED <<payment, attempts, deliveries, place, holder, rejected, inDlq>>
        /\ UNCHANGED <<pc, msg, seen, result, lastCharge, crashes>>
    BY DEF LoseDatabase, tables, broker
  <1>2. /\ lock' \in [Payment -> Callback \cup {NoCallback}]
        /\ \A p \in Payment : lock'[p] = IF lock[p] = c THEN NoCallback ELSE lock[p]
        /\ \A p \in Payment : lock'[p] # c
    BY <1>1, UnlockedFacts
  <1>3. TypeOK'
    BY <1>1, <1>2 DEF TypeOK
  <1>4. CallbacksAreRight'
    BY <1>1 DEF CallbacksAreRight, InCharge, PaymentOf, Settled
  <1>5. ChargesAreExclusive'
    BY <1>1, <1>2 DEF ChargesAreExclusive, InCharge, PaymentOf
  <1>6. RecordMatchesCharge' /\ AckedIsSettled' /\ DlqIsExhausted'
    BY <1>1 DEF RecordMatchesCharge, Agrees, Tells, AckedIsSettled, DlqIsExhausted, Settled
  <1>. QED
    BY <1>3, <1>4, <1>5, <1>6

LEMMA RequeueFacts ==
  ASSUME ProcessingInv, NEW c \in Callback, Requeue(c)
  PROVE  /\ place' \in [Message -> {"unsent", "queued", "delivered", "retry", "gone"}]
         /\ holder' \in [Message -> Callback \cup {NoCallback}]
         /\ \A m \in Message : place'[m] = "gone" => place[m] = "gone"
  BY DEF ProcessingInv, Requeue, TypeOK

LEMMA CrashStep ==
  ASSUME ProcessingInv, NEW c \in Callback, Crash(c)
  PROVE  ProcessingInv'
  <1>. USE DEF ProcessingInv
  <1>1. /\ lock' = Unlocked(c) /\ Requeue(c)
        /\ pc' = [pc EXCEPT ![c] = "free"] /\ msg' = [msg EXCEPT ![c] = NoMessage]
        /\ seen' = [seen EXCEPT ![c] = Created] /\ result' = [result EXCEPT ![c] = "none"]
        /\ broken' = broken \ {c} /\ crashes' \in 0..MaxCrashes
        /\ UNCHANGED <<payment, attempts, deliveries, rejected, inDlq, lastCharge>>
    BY BoundAssumption DEF Crash, Return, Forget, tables, TypeOK
  <1>3. /\ lock' \in [Payment -> Callback \cup {NoCallback}]
        /\ \A p \in Payment : lock'[p] = IF lock[p] = c THEN NoCallback ELSE lock[p]
        /\ \A p \in Payment : lock'[p] # c
    BY <1>1, UnlockedFacts
  <1>4. /\ place' \in [Message -> {"unsent", "queued", "delivered", "retry", "gone"}]
        /\ holder' \in [Message -> Callback \cup {NoCallback}]
        /\ \A m \in Message : place'[m] = "gone" => place[m] = "gone"
    BY <1>1, RequeueFacts
  <1>5. TypeOK'
    BY <1>1, <1>3, <1>4 DEF TypeOK, Running, Created, Version, Status
  <1>6. CallbacksAreRight'
    BY <1>1 DEF CallbacksAreRight, InCharge, PaymentOf, Settled, TypeOK
  <1>7. ChargesAreExclusive'
    BY <1>1, <1>3, BodiesAreOfAKind
    DEF ChargesAreExclusive, InCharge, PaymentOf, TypeOK, BodyKinds
  <1>8. RecordMatchesCharge'
    BY <1>1 DEF RecordMatchesCharge, Agrees, Tells, Settled
  <1>9. AckedIsSettled' /\ DlqIsExhausted'
    BY <1>1, <1>4 DEF AckedIsSettled, DlqIsExhausted, Settled
  <1>. QED
    BY <1>5, <1>6, <1>7, <1>8, <1>9

LEMMA LoseConnectionStep ==
  ASSUME ProcessingInv, NEW c \in Callback, LoseConnection(c)
  PROVE  ProcessingInv'
  <1>. USE DEF ProcessingInv
  <1>1. /\ crashes' \in 0..MaxCrashes /\ Requeue(c)
        /\ UNCHANGED <<payment, attempts, deliveries, lock, broken, rejected, inDlq>>
        /\ UNCHANGED <<pc, msg, seen, result, lastCharge>>
    BY BoundAssumption DEF LoseConnection, tables, locks, TypeOK
  <1>2. /\ place' \in [Message -> {"unsent", "queued", "delivered", "retry", "gone"}]
        /\ holder' \in [Message -> Callback \cup {NoCallback}]
        /\ \A m \in Message : place'[m] = "gone" => place[m] = "gone"
    BY <1>1, RequeueFacts
  <1>3. TypeOK'
    BY <1>1, <1>2 DEF TypeOK
  <1>4. CallbacksAreRight' /\ ChargesAreExclusive'
    BY <1>1 DEF CallbacksAreRight, ChargesAreExclusive, InCharge, PaymentOf, Settled
  <1>5. RecordMatchesCharge'
    BY <1>1 DEF RecordMatchesCharge, Agrees, Tells, Settled
  <1>6. AckedIsSettled' /\ DlqIsExhausted'
    BY <1>1, <1>2 DEF AckedIsSettled, DlqIsExhausted, Settled
  <1>. QED
    BY <1>3, <1>4, <1>5, <1>6

LEMMA StutterStep ==
  ASSUME ProcessingInv, UNCHANGED vars
  PROVE  ProcessingInv'
  <1>. USE DEF ProcessingInv, vars, tables, locks, broker
  <1>1. TypeOK'
    BY DEF TypeOK
  <1>2. CallbacksAreRight' /\ ChargesAreExclusive'
    BY DEF CallbacksAreRight, ChargesAreExclusive, InCharge, PaymentOf, Settled
  <1>3. RecordMatchesCharge' /\ AckedIsSettled' /\ DlqIsExhausted'
    BY DEF RecordMatchesCharge, Agrees, Tells, AckedIsSettled, DlqIsExhausted, Settled
  <1>. QED
    BY <1>1, <1>2, <1>3

LEMMA InvStep == ProcessingInv /\ [Next]_vars => ProcessingInv'
  <1>. SUFFICES ASSUME ProcessingInv, [Next]_vars PROVE ProcessingInv'
    OBVIOUS
  <1>1. CASE UNCHANGED vars
    BY <1>1, StutterStep
  <1>2. ASSUME NEW m \in Message, Publish(m) \/ RetryExpires(m) PROVE ProcessingInv'
    BY <1>2, PublishStep
  <1>3. ASSUME NEW m \in Message, NEW c \in Callback, Deliver(m, c) PROVE ProcessingInv'
    BY <1>3, DeliverStep
  <1>4. ASSUME NEW c \in Callback,
               \/ Ack(c) \/ Nack(c) \/ SendToDlq(c) \/ Load(c) \/ BeginProcessing(c)
               \/ ChargeRaises(c) \/ DatabaseFails(c) \/ LoseDatabase(c)
               \/ Crash(c) \/ LoseConnection(c)
        PROVE  ProcessingInv'
    BY <1>4, AckStep, NackStep, SendToDlqStep, LoadStep, BeginProcessingStep, RollbackStep,
       LoseDatabaseStep, CrashStep, LoseConnectionStep
  <1>5. ASSUME NEW c \in Callback, NEW answer \in ChargeResults, Charge(c, answer)
        PROVE  ProcessingInv'
    BY <1>5, ChargeStep
  <1>6. ASSUME NEW c \in Callback, NEW answered \in BOOLEAN, Commit(c, answered)
        PROVE  ProcessingInv'
    BY <1>6, CommitStep
  <1>. QED
    BY <1>1, <1>2, <1>3, <1>4, <1>5, <1>6 DEF Next

(***************************************************************************)
(* The theorems.                                                            *)
(***************************************************************************)

\* The inductive invariant holds in every reachable state.
THEOREM Safety == Spec => []ProcessingInv
  <1>. QED
    BY InitIsRight, InvStep, PTL DEF Spec

\* Every reachable state is well typed.
THEOREM TypeCorrect == Spec => []TypeOK
  <1>1. ProcessingInv => TypeOK
    BY DEF ProcessingInv
  <1>. QED
    BY <1>1, Safety, PTL

\* begin_processing and its row lock: of the callbacks whose transaction stands no two charge
\* one payment at once, and none charges a settled payment, whatever is redelivered, rolled
\* back or disconnected.  A callback whose database connection broke under its call is not
\* among them: its lock is gone, and it may be charging beside the next one.
THEOREM ChargesExcluded == Spec => []ChargesAreExclusive
  <1>1. ProcessingInv => ChargesAreExclusive
    BY DEF ProcessingInv
  <1>. QED
    BY <1>1, Safety, PTL

\* The commit of ProcessPaymentHandler: status, attempt and webhook agree in every committed
\* state, and they are the gateway's last answer unless that one went to a callback which had
\* lost its transaction under the call.
THEOREM TablesAgree == Spec => []RecordMatchesCharge
  <1>1. ProcessingInv => RecordMatchesCharge
    BY DEF ProcessingInv
  <1>. QED
    BY <1>1, Safety, PTL

\* The acks of PaymentConsumerHandler: no message about a payment is lost unsettled.
THEOREM NothingLost == Spec => []AckedIsSettled
  <1>1. ProcessingInv => AckedIsSettled
    BY DEF ProcessingInv
  <1>. QED
    BY <1>1, Safety, PTL

\* _rejected_count: the DLQ takes a readable message only after RABBITMQ_MAX_RETRIES.
THEOREM DlqIsEarned == Spec => []DlqIsExhausted
  <1>1. ProcessingInv => DlqIsExhausted
    BY DEF ProcessingInv
  <1>. QED
    BY <1>1, Safety, PTL

\* A commit is one step of the lifecycle; nothing else touches the tables.
LEMMA LifecycleStep ==
  ASSUME ProcessingInv, [Next]_vars
  PROVE  [Lifecycle!Next]_Lifecycle!vars
  <1>1. ASSUME NEW c \in Callback, NEW answered \in BOOLEAN, Commit(c, answered)
        PROVE  Lifecycle!Next
    <2>. SUFFICES ASSUME NEW p, p = PaymentOf(c), NEW r, r = result[c]
                  PROVE  Lifecycle!Next
      OBVIOUS
    <2>1. /\ p \in Payment /\ r \in Outcome /\ payment[p] = Created
          /\ payment' = [payment EXCEPT ![p] = [status |-> r, version |-> 2]]
          /\ attempts' = [attempts EXCEPT ![p] = <<r>>]
          /\ deliveries' = [deliveries EXCEPT ![p] = [e \in Outcome |-> IF e = r THEN 1 ELSE 0]]
      BY <1>1, CommitFacts
    <2>2. Lifecycle!Settle(p, r)
      BY <2>1 DEF Lifecycle!Settle, Lifecycle!Outcome, Outcome, Created
    <2>. QED
      BY <2>1, <2>2 DEF Lifecycle!Next, Lifecycle!Outcome, Outcome
  <1>2. CASE UNCHANGED tables
    BY <1>2 DEF tables, Lifecycle!vars
  <1>3. CASE UNCHANGED vars
    BY <1>2, <1>3 DEF vars
  <1>4. ASSUME NEW m \in Message, Publish(m) \/ RetryExpires(m) PROVE UNCHANGED tables
    BY <1>4 DEF Publish, RetryExpires, tables, locks
  <1>5. ASSUME NEW m \in Message, NEW c \in Callback, Deliver(m, c) PROVE UNCHANGED tables
    BY <1>5 DEF Deliver, tables
  <1>6. ASSUME NEW c \in Callback,
               \/ Ack(c) \/ Nack(c) \/ SendToDlq(c) \/ Load(c) \/ BeginProcessing(c)
               \/ ChargeRaises(c) \/ DatabaseFails(c) \/ LoseDatabase(c)
               \/ Crash(c) \/ LoseConnection(c)
        PROVE  UNCHANGED tables
    <2>1. CASE Ack(c) \/ Nack(c) \/ SendToDlq(c)
      BY <2>1 DEF Ack, Nack, SendToDlq, CopyToDlq, CopyFails, tables
    <2>2. CASE Load(c) \/ BeginProcessing(c)
      BY <2>2 DEF Load, BeginProcessing, tables
    <2>3. CASE ChargeRaises(c) \/ DatabaseFails(c) \/ LoseDatabase(c)
      BY <2>3 DEF ChargeRaises, DatabaseFails, Rollback, LoseDatabase, tables
    <2>4. CASE Crash(c) \/ LoseConnection(c)
      BY <2>4 DEF Crash, LoseConnection, tables
    <2>. QED
      BY <1>6, <2>1, <2>2, <2>3, <2>4
  <1>7. ASSUME NEW c \in Callback, NEW answer \in ChargeResults, Charge(c, answer)
        PROVE  UNCHANGED tables
    BY <1>7 DEF Charge, tables
  <1>. QED
    BY <1>1, <1>2, <1>3, <1>4, <1>5, <1>6, <1>7 DEF Next

\* The whole processing, with its retries, rollbacks and crashes, implements the lifecycle the
\* readers of the tables count on: one visible step from pending to a final status.
THEOREM LifecycleRefinement == Spec => LifecycleSpec
  <1>1. Init => Lifecycle!Init
    BY DEF Init, Lifecycle!Init, Lifecycle!Outcome, Outcome, Created
  <1>2. ProcessingInv /\ [Next]_vars => [Lifecycle!Next]_Lifecycle!vars
    BY LifecycleStep
  <1>. QED
    BY <1>1, <1>2, Safety, PTL DEF Spec, LifecycleSpec, Lifecycle!Spec
=============================================================================
