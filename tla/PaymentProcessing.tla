-------------------------- MODULE PaymentProcessing --------------------------
(***************************************************************************)
(* From a PaymentCreated message in RabbitMQ to a settled payment:          *)
(* PaymentConsumerHandler (infrastructure/broker/consumer.py), the queues   *)
(* it is wired to (broker.py) and ProcessPaymentHandler with its one long   *)
(* transaction (application/handlers/process_payment.py).                   *)
(*                                                                          *)
(* Every delivery runs a callback of its own; many run at once, in one or   *)
(* several processes.  A callback goes through                              *)
(*                                                                          *)
(*   received -> loaded -> claimed -> charged -> acking | nacking -> free   *)
(*                                                                          *)
(* and from "claimed" to its end the transaction holds the row lock of the  *)
(* payment, which the UPDATE of begin_processing took.  What the transaction *)
(* has written is visible to nobody else before COMMIT, so the tables below *)
(* hold committed rows only.                                                *)
(***************************************************************************)
EXTENDS Integers, Sequences

CONSTANTS
  Payment,        \* the payments the API has created
  Message,        \* broker messages; the outbox may send several for one payment
  Body,           \* what a message says: a payment, or one of OtherBody
  Callback,       \* callbacks that may run at the same time
  MaxRetries,     \* RABBITMQ_MAX_RETRIES
  ChargeResults,  \* how a call of the gateway may end
  Faults,         \* what may go wrong beside it: "database", "answer", "publish"
  MaxCrashes,     \* bound: crashes and lost connections in a run
  NoCallback, NoMessage

\* "unknown" names a payment that does not exist, "malformed" has no aggregate_id.
OtherBody == {"unreadable", "foreign", "malformed", "unknown"}

ASSUME BodyAssumption ==
  Body \in [Message -> Payment \cup OtherBody] /\ Payment \cap OtherBody = {}
ASSUME NullAssumption == NoCallback \notin Callback /\ NoMessage \notin Message
ASSUME BoundAssumption == MaxRetries \in Nat /\ MaxCrashes \in Nat
ASSUME FaultAssumption ==
  /\ ChargeResults \subseteq {"succeeded", "failed", "raised"}
  /\ Faults \subseteq {"database", "answer", "publish"}

VARIABLES
  payment,     \* payment[p]: status and version
  attempts,    \* attempts[p]: the statuses of its payment_attempts, by attempt_number
  deliveries,  \* deliveries[p][e]: how many webhook_deliveries carry event e
  lock,        \* lock[p]: the callback whose transaction has locked the row
  broken,      \* the callbacks whose database connection is gone, which they do not know yet
  place,       \* place[m]: where the broker keeps message m
  holder,      \* holder[m]: the callback it is delivered to and not yet acked by
  rejected,    \* rejected[m]: the sum _rejected_count takes from x-death
  inDlq,       \* inDlq[m]: a copy is in payments.dlq
  pc, msg,     \* pc[c], msg[c]: where callback c is, and its message
  seen,        \* seen[c]: status and version of the payment as c read them
  result,      \* result[c]: what the gateway answered c
  lastCharge,  \* lastCharge[p]: what the gateway last answered for p; "unheard" if the callback
               \* that asked had no transaction left to record it in (ghost)
  crashes

tables == <<payment, attempts, deliveries>>
broker == <<place, holder, rejected, inDlq>>
locks == <<lock, broken>>
vars == <<tables, locks, broker, pc, msg, seen, result, lastCharge, crashes>>

Outcome == {"succeeded", "failed"}
Status == {"pending", "processing"} \cup Outcome
Version == [status : Status, version : Nat]
Running == {"received", "loaded", "claimed", "charged", "toDlq", "acking", "nacking"}

TypeOK ==
  /\ payment \in [Payment -> Version]
  /\ attempts \in [Payment -> Seq(Outcome)]
  /\ deliveries \in [Payment -> [Outcome -> Nat]]
  /\ lock \in [Payment -> Callback \cup {NoCallback}]
  /\ place \in [Message -> {"unsent", "queued", "delivered", "retry", "gone"}]
  /\ holder \in [Message -> Callback \cup {NoCallback}]
  /\ rejected \in [Message -> Nat]
  /\ inDlq \in [Message -> BOOLEAN]
  /\ broken \subseteq Callback
  /\ pc \in [Callback -> Running \cup {"free"}]
  /\ msg \in [Callback -> Message \cup {NoMessage}]
  /\ seen \in [Callback -> Version]
  /\ result \in [Callback -> Outcome \cup {"none"}]
  /\ lastCharge \in [Payment -> Outcome \cup {"none", "unheard"}]
  /\ crashes \in 0..MaxCrashes

Created == [status |-> "pending", version |-> 0]

Init ==
  /\ payment = [p \in Payment |-> Created]
  /\ attempts = [p \in Payment |-> <<>>]
  /\ deliveries = [p \in Payment |-> [e \in Outcome |-> 0]]
  /\ lock = [p \in Payment |-> NoCallback]
  /\ place = [m \in Message |-> "unsent"]
  /\ holder = [m \in Message |-> NoCallback]
  /\ rejected = [m \in Message |-> 0]
  /\ inDlq = [m \in Message |-> FALSE]
  /\ broken = {}
  /\ pc = [c \in Callback |-> "free"]
  /\ msg = [c \in Callback |-> NoMessage]
  /\ seen = [c \in Callback |-> Created]
  /\ result = [c \in Callback |-> "none"]
  /\ lastCharge = [p \in Payment |-> "none"]
  /\ crashes = 0

-----------------------------------------------------------------------------
(* The broker. *)

\* The outbox worker publishes; every publication is a message of its own.
Publish(m) ==
  /\ place[m] = "unsent"
  /\ place' = [place EXCEPT ![m] = "queued"]
  /\ UNCHANGED <<tables, locks, holder, rejected, inDlq, pc, msg, seen, result, lastCharge, crashes>>

\* (variant) the limit is off by one
RoutedOneEarly(m) ==
  CASE Body[m] = "unreadable" -> "toDlq"
    [] Body[m] = "foreign" -> "acking"
    [] Body[m] \notin {"unreadable", "foreign"} /\ rejected[m] + 1 >= MaxRetries -> "toDlq"
    [] Body[m] = "malformed" /\ rejected[m] + 1 < MaxRetries -> "nacking"
    [] OTHER -> "received"

\* _route: what the callback does with the message before any business logic.
Routed(m) ==
  CASE Body[m] = "unreadable" -> "toDlq"
    [] Body[m] = "foreign" -> "acking"
    [] Body[m] \notin {"unreadable", "foreign"} /\ rejected[m] >= MaxRetries -> "toDlq"
    [] Body[m] = "malformed" /\ rejected[m] < MaxRetries -> "nacking"
    [] OTHER -> "received"

Deliver(m, c) ==
  /\ place[m] = "queued" /\ pc[c] = "free"
  /\ place' = [place EXCEPT ![m] = "delivered"]
  /\ holder' = [holder EXCEPT ![m] = c]
  /\ pc' = [pc EXCEPT ![c] = Routed(m)]
  /\ msg' = [msg EXCEPT ![c] = m]
  /\ UNCHANGED <<tables, locks, rejected, inDlq, seen, result, lastCharge, crashes>>

\* payments.retry: after its TTL a message is dead-lettered back to payments.new.
RetryExpires(m) ==
  /\ place[m] = "retry"
  /\ place' = [place EXCEPT ![m] = "queued"]
  /\ UNCHANGED <<tables, locks, holder, rejected, inDlq, pc, msg, seen, result, lastCharge, crashes>>

\* ProcessPaymentHandler.handle ends; what it read and what the gateway answered are forgotten.
Forget(c) ==
  /\ seen' = [seen EXCEPT ![c] = Created]
  /\ result' = [result EXCEPT ![c] = "none"]

\* The callback ends.
Return(c) ==
  /\ pc' = [pc EXCEPT ![c] = "free"]
  /\ msg' = [msg EXCEPT ![c] = NoMessage]
  /\ Forget(c)

\* An ack or a nack on a connection that was lost settles nothing.
Ack(c) ==
  /\ pc[c] = "acking"
  /\ IF holder[msg[c]] = c
     THEN /\ place' = [place EXCEPT ![msg[c]] = "gone"]
          /\ holder' = [holder EXCEPT ![msg[c]] = NoCallback]
     ELSE UNCHANGED <<place, holder>>
  /\ Return(c)
  /\ UNCHANGED <<tables, locks, rejected, inDlq, lastCharge, crashes>>

\* The sum over x-death has no end; it is compared with MaxRetries and nothing else, so that
\* here it stays there.
OneMore(count) == IF count < MaxRetries THEN count + 1 ELSE count

\* nack(requeue=False): the dead-letter exchange moves the message to payments.retry.
Nack(c) ==
  /\ pc[c] = "nacking"
  /\ IF holder[msg[c]] = c
     THEN /\ place' = [place EXCEPT ![msg[c]] = "retry"]
          /\ holder' = [holder EXCEPT ![msg[c]] = NoCallback]
          /\ rejected' = [rejected EXCEPT ![msg[c]] = OneMore(@)]
     ELSE UNCHANGED <<place, holder, rejected>>
  /\ Return(c)
  /\ UNCHANGED <<tables, locks, inDlq, lastCharge, crashes>>

\* _send_to_dlq publishes a copy; the message itself is acked afterwards.
CopyToDlq(c) ==
  /\ pc[c] = "toDlq"
  /\ inDlq' = [inDlq EXCEPT ![msg[c]] = TRUE]
  /\ pc' = [pc EXCEPT ![c] = "acking"]
  /\ UNCHANGED <<tables, locks, place, holder, rejected, msg, seen, result, lastCharge, crashes>>

\* The publication raises: handle nacks, the message comes back and is tried again, as often
\* as this happens.
CopyFails(c) ==
  /\ pc[c] = "toDlq"
  /\ "publish" \in Faults
  /\ pc' = [pc EXCEPT ![c] = "nacking"]
  /\ UNCHANGED <<tables, locks, broker, msg, seen, result, lastCharge, crashes>>

SendToDlq(c) == CopyToDlq(c) \/ CopyFails(c)

-----------------------------------------------------------------------------
(* ProcessPaymentHandler.handle, in the transaction of @transactional. *)

PaymentOf(c) == Body[msg[c]]

\* Between the claim and the end of the transaction.
InCharge(c) == pc[c] \in {"claimed", "charged"}

\* payment_repository.get and the returns NOT_FOUND, ALREADY_TERMINAL, NOT_PENDING: an
\* empty commit, then the ack.
Load(c) ==
  /\ pc[c] = "received"
  /\ IF PaymentOf(c) \in Payment /\ payment[PaymentOf(c)].status = "pending"
     THEN /\ seen' = [seen EXCEPT ![c] = payment[PaymentOf(c)]]
          /\ pc' = [pc EXCEPT ![c] = "loaded"]
     ELSE /\ pc' = [pc EXCEPT ![c] = "acking"]
          /\ UNCHANGED seen
  /\ UNCHANGED <<tables, locks, broker, msg, result, lastCharge, crashes>>

\* (variant) the UPDATE compares nothing but the id
CanBeginUnguarded(c) == TRUE
\* The WHERE of begin_processing, read anew once the row lock is granted.
CanBegin(c) == payment[PaymentOf(c)] = seen[c]

\* (variant) the claim takes no lock that lasts until the commit
RowIsReadOnly(c) == TRUE
RowIsFree(c) == lock[PaymentOf(c)] = NoCallback

\* (variant) a locked row is taken for a lost race instead of waited for
BeginProcessingNoWait(c) ==
  /\ pc[c] = "loaded"
  /\ IF CanBegin(c) /\ RowIsFree(c)
     THEN /\ lock' = [lock EXCEPT ![PaymentOf(c)] = c]
          /\ pc' = [pc EXCEPT ![c] = "claimed"]
     ELSE /\ pc' = [pc EXCEPT ![c] = "acking"]
          /\ UNCHANGED lock
  /\ UNCHANGED <<tables, broken, broker, msg, seen, result, lastCharge, crashes>>

\* begin_processing waits for the row lock, then claims or answers CLAIM_CONFLICT; the new
\* PaymentAttempt is added in the same transaction.
BeginProcessing(c) ==
  /\ pc[c] = "loaded"
  /\ RowIsFree(c)
  /\ IF CanBegin(c)
     THEN /\ lock' = [lock EXCEPT ![PaymentOf(c)] = c]
          /\ pc' = [pc EXCEPT ![c] = "claimed"]
     ELSE /\ pc' = [pc EXCEPT ![c] = "acking"]
          /\ UNCHANGED lock
  /\ UNCHANGED <<tables, broken, broker, msg, seen, result, lastCharge, crashes>>

\* (variant) the session is not closed
UnlockedNever(c) == lock
\* The session is rolled back and closed: the locks of the transaction go with it.
Unlocked(c) == [p \in Payment |-> IF lock[p] = c THEN NoCallback ELSE lock[p]]

\* (variant) the exception is swallowed and the message acked
RollbackAcked(c) ==
  /\ lock' = Unlocked(c)
  /\ broken' = broken \ {c}
  /\ pc' = [pc EXCEPT ![c] = "acking"]
  /\ Forget(c)
  /\ UNCHANGED <<tables, broker, msg>>

Rollback(c) ==
  /\ lock' = Unlocked(c)
  /\ broken' = broken \ {c}
  /\ pc' = [pc EXCEPT ![c] = "nacking"]
  /\ Forget(c)
  /\ UNCHANGED <<tables, broker, msg>>

\* gateway.charge, inside the open transaction; it makes no statement, so that a callback
\* whose connection is gone calls the gateway and hears it all the same.
Charge(c, answer) ==
  /\ pc[c] = "claimed"
  /\ answer # "raised"
  /\ result' = [result EXCEPT ![c] = answer]
  /\ lastCharge' = [lastCharge EXCEPT ![PaymentOf(c)] = IF c \in broken THEN "unheard" ELSE answer]
  /\ pc' = [pc EXCEPT ![c] = "charged"]
  /\ UNCHANGED <<tables, locks, broker, msg, seen, crashes>>

\* The gateway raises after the provider may have acted: nothing catches it before the
\* transaction is rolled back.
ChargeRaises(c) ==
  /\ pc[c] = "claimed"
  /\ "raised" \in ChargeResults
  /\ Rollback(c)
  /\ UNCHANGED <<lastCharge, crashes>>

\* mark_processing and mark_succeeded | mark_failed, as the two UPDATEs repeat them: each
\* transition adds one to the version.
Finalized(v, outcome) == [status |-> outcome, version |-> v.version + 2]

\* begin_attempt takes the next number; succeed_attempt | fail_attempt ends the same attempt.
Attempted(earlier, outcome) == Append(earlier, outcome)

\* (variant) no delivery after a decline
RecordWithoutDelivery(p, outcome) ==
  /\ payment' = [payment EXCEPT ![p] = Finalized(@, outcome)]
  /\ attempts' = [attempts EXCEPT ![p] = Attempted(@, outcome)]
  /\ deliveries' = IF outcome = "failed" THEN deliveries
                   ELSE [deliveries EXCEPT ![p][outcome] = @ + 1]

\* What one commit makes visible: the payment's transitions, its attempt, the new delivery.
Record(p, outcome) ==
  /\ payment' = [payment EXCEPT ![p] = Finalized(@, outcome)]
  /\ attempts' = [attempts EXCEPT ![p] = Attempted(@, outcome)]
  /\ deliveries' = [deliveries EXCEPT ![p][outcome] = @ + 1]

\* mark_succeeded | mark_failed, the attempt's UPDATE, the delivery's INSERT, COMMIT.  The
\* answer to the commit may be lost: the handler raises though everything is stored.
Commit(c, answered) ==
  /\ pc[c] = "charged" /\ c \notin broken
  /\ answered \/ "answer" \in Faults
  /\ Record(PaymentOf(c), result[c])
  /\ lock' = Unlocked(c)
  /\ pc' = [pc EXCEPT ![c] = IF answered THEN "acking" ELSE "nacking"]
  /\ Forget(c)
  /\ UNCHANGED <<broken, broker, msg, lastCharge, crashes>>

\* No connection from the pool, a statement or the commit fails: rollback and nack.  This is
\* also how a callback learns that its connection is gone.
DatabaseFails(c) ==
  /\ "database" \in Faults
  /\ pc[c] \in {"received", "loaded", "claimed", "charged"}
  /\ Rollback(c)
  /\ UNCHANGED <<lastCharge, crashes>>

\* The connection breaks between two statements, as while the gateway works.  The server ends
\* the transaction, and with it the row lock, at once; the callback goes on until its next
\* statement.  (Before the claim there is no lock to lose: the next statement just fails.)
LoseDatabase(c) ==
  /\ "database" \in Faults
  /\ InCharge(c) /\ c \notin broken
  /\ lock' = Unlocked(c)
  /\ broken' = broken \cup {c}
  /\ UNCHANGED <<tables, broker, pc, msg, seen, result, lastCharge, crashes>>

-----------------------------------------------------------------------------
(* Crashes. *)

\* The broker requeues what was not acked; no rejection is counted.
Requeue(c) ==
  /\ place' = [m \in Message |-> IF holder[m] = c THEN "queued" ELSE place[m]]
  /\ holder' = [m \in Message |-> IF holder[m] = c THEN NoCallback ELSE holder[m]]

Crash(c) ==
  /\ pc[c] # "free" /\ crashes < MaxCrashes
  /\ crashes' = crashes + 1
  /\ Requeue(c)
  /\ lock' = Unlocked(c)
  /\ broken' = broken \ {c}
  /\ Return(c)
  /\ UNCHANGED <<tables, rejected, inDlq, lastCharge>>

\* The process lives and its callback runs on, while the message goes to another one.
LoseConnection(c) ==
  /\ pc[c] # "free" /\ holder[msg[c]] = c /\ crashes < MaxCrashes
  /\ crashes' = crashes + 1
  /\ Requeue(c)
  /\ UNCHANGED <<tables, locks, rejected, inDlq, pc, msg, seen, result, lastCharge>>

Next ==
  \/ \E m \in Message : Publish(m) \/ RetryExpires(m) \/ \E c \in Callback : Deliver(m, c)
  \/ \E c \in Callback :
       \/ Ack(c) \/ Nack(c) \/ SendToDlq(c) \/ Load(c) \/ BeginProcessing(c)
       \/ \E answer \in ChargeResults : Charge(c, answer)
       \/ ChargeRaises(c)
       \/ \E answered \in BOOLEAN : Commit(c, answered)
       \/ DatabaseFails(c) \/ LoseDatabase(c) \/ Crash(c) \/ LoseConnection(c)

Spec == Init /\ [][Next]_vars

\* A running callback goes on to its end (every await has a timeout or the database's
\* answer; without a connection the next statement fails), the broker delivers what is queued
\* and moves what has waited its TTL, and the processes are restarted, so that some callback is
\* free again.
Step(c) ==
  \/ Ack(c) \/ Nack(c) \/ SendToDlq(c) \/ Load(c) \/ BeginProcessing(c) \/ ChargeRaises(c)
  \/ \E answer \in ChargeResults : Charge(c, answer)
  \/ \E answered \in BOOLEAN : Commit(c, answered)
  \/ c \in broken /\ DatabaseFails(c)

\* Nothing in the code bounds how often the copy into the DLQ fails.  It is assumed that the
\* broker, asked again and again, takes one.
DlqIsTaken == SF_vars(\E c \in Callback : CopyToDlq(c))

Fairness ==
  /\ \A c \in Callback : WF_vars(Step(c))
  /\ \A m \in Message : WF_vars(RetryExpires(m)) /\ SF_vars(\E c \in Callback : Deliver(m, c))
  /\ DlqIsTaken

LiveSpec == Spec /\ Fairness

-----------------------------------------------------------------------------
(* What must hold. *)

Settled(p) == payment[p].status \in Outcome

\* begin_processing: of the callbacks whose transaction stands one at most calls the gateway
\* for a payment, and none for a settled one, however often its message is delivered; the row
\* lock belongs to that callback.  A callback whose connection broke under its call has lost
\* its lock: it may be charging beside the next one, and that is all the lock can promise.
ChargesAreExclusive ==
  /\ \A c \in Callback \ broken : InCharge(c) =>
       /\ msg[c] \in Message /\ PaymentOf(c) \in Payment
       /\ lock[PaymentOf(c)] = c
       /\ payment[PaymentOf(c)] = Created
  /\ \A p \in Payment : lock[p] # NoCallback =>
       InCharge(lock[p]) /\ lock[p] \notin broken /\ PaymentOf(lock[p]) = p

Tells(p, outcome) ==
  /\ payment[p] = [status |-> outcome, version |-> 2]
  /\ attempts[p] = <<outcome>>
  /\ \A e \in Outcome : deliveries[p][e] = IF e = outcome THEN 1 ELSE 0

Agrees(p) ==
  IF Settled(p)
  THEN /\ Tells(p, payment[p].status)
       /\ lastCharge[p] \in {payment[p].status, "unheard"}
  ELSE /\ payment[p] = Created
       /\ attempts[p] = <<>>
       /\ \A e \in Outcome : deliveries[p][e] = 0

\* Final status, attempt and webhook agree, and there is one of each; and they are the last
\* answer of the gateway (a charge that was answered but rolled back is overwritten by the one
\* recorded), unless that last answer went to a callback whose transaction had broken under
\* the call: the provider may then have another result than every table, and nothing in the
\* code would notice.
RecordMatchesCharge == \A p \in Payment : Agrees(p)

\* CLAIM_CONFLICT and ALREADY_TERMINAL are acked: a message about a payment leaves the queues
\* only when its payment is settled or a copy is in the DLQ.
AckedIsSettled ==
  \A m \in Message :
    Body[m] \in Payment /\ place[m] = "gone" => Settled(Body[m]) \/ inDlq[m]

\* _rejected_count: a readable message is given up only after MaxRetries rejections; crashes
\* and lost connections do not count.
DlqIsExhausted ==
  \A m \in Message : inDlq[m] => Body[m] = "unreadable" \/ rejected[m] >= MaxRetries

\* What a callback knows is true wherever its transaction or its message stands: the payment
\* it claims is as it read it, the answer it can still record is the last one the gateway gave
\* (but to callbacks without a transaction), what it acks is settled or in the DLQ, what it
\* sends there has used up its retries.
CallbacksAreRight ==
  \A c \in Callback :
    /\ pc[c] # "free" => msg[c] \in Message
    /\ c \in broken => InCharge(c)
    /\ pc[c] \in {"received", "loaded"} \/ InCharge(c) => PaymentOf(c) \in Payment \cup {"unknown"}
    /\ pc[c] = "loaded" \/ InCharge(c) => PaymentOf(c) \in Payment /\ seen[c] = Created
    /\ pc[c] = "charged" => result[c] \in Outcome
    /\ pc[c] = "charged" /\ c \notin broken => lastCharge[PaymentOf(c)] \in {result[c], "unheard"}
    /\ pc[c] = "toDlq" => PaymentOf(c) = "unreadable" \/ rejected[msg[c]] >= MaxRetries
    /\ pc[c] = "acking" /\ PaymentOf(c) \in Payment => Settled(PaymentOf(c)) \/ inDlq[msg[c]]

\* The invariants together are inductive: CallbacksAreRight carries from one step of a callback
\* to its next what the tables and the queues are left with.
ProcessingInv ==
  /\ TypeOK
  /\ CallbacksAreRight
  /\ ChargesAreExclusive
  /\ RecordMatchesCharge
  /\ AckedIsSettled
  /\ DlqIsExhausted

\* The tables follow the lifecycle the readers count on.
Lifecycle == INSTANCE PaymentLifecycle

LifecycleSpec == Lifecycle!Spec

\* A message that was sent is settled at last, acked directly or by way of the DLQ, whatever
\* the gateway and the connections do: no step before the DLQ has to succeed, as rejections
\* are counted.  The last one has to, and is assumed to (DlqIsTaken).
EventuallyHandled == \A m \in Message : place[m] = "queued" ~> place[m] = "gone"
=============================================================================
