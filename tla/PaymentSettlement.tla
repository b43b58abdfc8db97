-------------------------- MODULE PaymentSettlement --------------------------
(***************************************************************************)
(* ProcessPaymentHandler.handle statement by statement, for one payment and *)
(* as many calls as the broker makes deliveries: the aggregate in memory    *)
(* (aggregates/payment.py, entities/attempt.py) beside the rows its         *)
(* transaction writes and the rows that are committed.                      *)
(*                                                                          *)
(*   received -> claiming -> claimed -> charging -> finalizing -> updating  *)
(*            -> committing -> ended                                        *)
(*                                                                          *)
(* No constraint of the tables keeps a payment from having two attempts     *)
(* with one number, or two webhooks: it all rests on the claim, on versions *)
(* counted twice (in the object and in SQL), and on what the session has    *)
(* flushed before an UPDATE looks for it.                                   *)
(***************************************************************************)
EXTENDS Integers, Sequences, FiniteSets

CONSTANTS
  Handler,     \* the calls of handle; a redelivered message is another call
  NoHandler,
  ThePayment

ASSUME NullAssumption == NoHandler \notin Handler

VARIABLES
  row, attempts, deliveries,  \* committed: the payment, payment_attempts, webhook_deliveries
  lock,      \* the call whose transaction has locked the payment's row
  pc,        \* pc[h]: the statement call h makes next
  object,    \* object[h]: its aggregate
  expected,  \* expected[h]: status and version it put aside before a transition
  session,   \* session[h]: what its transaction has written, and what is still to be flushed
  outcome    \* outcome[h]: what it returns, or why it raises

tables == <<row, attempts, deliveries>>
vars == <<tables, lock, pc, object, expected, session, outcome>>

Outcome == {"succeeded", "failed"}
Status == {"pending", "processing"} \cup Outcome
Version == [status : Status, version : Nat]
Attempt == [id : Handler, number : Nat, status : Status \cup {"created"}]
Delivery == [id : Handler, event : Outcome]

Created == [status |-> "pending", version |-> 0]
Opened ==
  [connected |-> TRUE, row |-> Created, flushed |-> {}, unflushed |-> {}, webhooks |-> {}]

Init ==
  /\ row = Created /\ attempts = {} /\ deliveries = {}
  /\ lock = NoHandler
  /\ pc = [h \in Handler |-> "received"]
  /\ object = [h \in Handler |-> [status |-> "pending", version |-> 0, attempts |-> {}]]
  /\ expected = [h \in Handler |-> Created]
  /\ session = [h \in Handler |-> Opened]
  /\ outcome = [h \in Handler |-> "none"]

-----------------------------------------------------------------------------
(* The aggregate. *)

\* to_domain: the attempts come later.
Loaded(r) == [status |-> r.status, version |-> r.version, attempts |-> {}]

\* Payment._VALID_TRANSITIONS, PaymentAttempt._VALID_TRANSITIONS.
Transitions ==
  [pending |-> {"processing"}, processing |-> Outcome, succeeded |-> {}, failed |-> {}]
AttemptTransitions ==
  [created |-> {"processing"}, processing |-> Outcome, succeeded |-> {}, failed |-> {}]

MayBecome(o, target) == target \in Transitions[o.status]

\* mark_processing, mark_succeeded, mark_failed.
Marked(o, target) == [status |-> target, version |-> o.version + 1, attempts |-> o.attempts]

\* (variant) counted from 0
NumberOfKnown(known) == Cardinality(known)
\* begin_attempt: PaymentAttempt.create and start; the number follows those of the attempts known.
NextNumber(known) ==
  1 + CHOOSE n \in {0} \cup {a.number : a \in known} : \A a \in known : a.number <= n
NewAttempt(h, known) == [id |-> h, number |-> NextNumber(known), status |-> "created"]
Started(a) == [a EXCEPT !.status = "processing"]

\* succeed_attempt | fail_attempt on the attempt begun last.
MayEnd(o, h, result) ==
  /\ o.status = "processing"
  /\ \E a \in o.attempts : a.id = h
  /\ \A a \in o.attempts : a.id = h => result \in AttemptTransitions[a.status]
Ended(known, h, result) ==
  {IF a.id = h THEN [a EXCEPT !.status = result] ELSE a : a \in known}
AttemptEnded(o, h, result) == [o EXCEPT !.attempts = Ended(o.attempts, h, result)]

-----------------------------------------------------------------------------
(* The transaction. *)

\* What a statement of h sees of the payment: its own writes, or what is committed.
Seen(h) == IF lock = h THEN session[h].row ELSE row

\* (variant) the UPDATE leaves the version to the object
UpdatedStatusOnly(r, status) == [r EXCEPT !.status = status]
\* SET status = ..., version = version + 1
Updated(r, status) == [status |-> status, version |-> r.version + 1]

\* (variant) the session is left open when the handler raises
UnlockedAtCommitOnly(h) == lock
Unlocked(h) == IF lock = h THEN NoHandler ELSE lock

\* A statement of the session sends first what has been added to it.
Flushed(h) ==
  [session[h] EXCEPT !.flushed = @ \cup session[h].unflushed, !.unflushed = {}]

\* An exception passes __aexit__: rollback, close; the consumer nacks.
Raise(h, why) ==
  /\ pc' = [pc EXCEPT ![h] = "ended"]
  /\ outcome' = [outcome EXCEPT ![h] = why]
  /\ lock' = Unlocked(h)
  /\ UNCHANGED <<tables, object, expected, session>>

\* The handler returns; @transactional goes on to commit.
ReturnEarly(h, what) ==
  /\ pc' = [pc EXCEPT ![h] = "committing"]
  /\ outcome' = [outcome EXCEPT ![h] = what]
  /\ UNCHANGED <<tables, lock, object, expected, session>>

\* payment_repository.get, the early returns, and mark_processing on the object.
Get(h) ==
  /\ pc[h] = "received"
  /\ IF row.status = "pending"
     THEN /\ expected' = [expected EXCEPT ![h] = row]
          /\ object' = [object EXCEPT ![h] = Marked(Loaded(row), "processing")]
          /\ pc' = [pc EXCEPT ![h] = "claiming"]
          /\ UNCHANGED <<tables, lock, session, outcome>>
     ELSE ReturnEarly(h, IF row.status \in Outcome THEN "already_terminal" ELSE "not_pending")

\* (variant) the WHERE names only the id
MatchesById(h) == TRUE
\* WHERE id AND status AND version
Matches(h) == Seen(h) = expected[h]

Claim(h) ==
  /\ lock' = h
  /\ session' = [session EXCEPT ![h].row = Updated(row, "processing")]
  /\ pc' = [pc EXCEPT ![h] = "claimed"]
  /\ UNCHANGED <<tables, object, expected, outcome>>

\* begin_processing: the UPDATE waits for the row lock and then reads the row anew.
BeginProcessing(h) ==
  /\ pc[h] = "claiming" /\ session[h].connected
  /\ lock = NoHandler
  /\ IF Matches(h) THEN Claim(h) ELSE ReturnEarly(h, "claim_conflict")

\* get_by_payment_id, hydrate_attempts, begin_attempt; add leaves the row in the session.
BeginAttempt(h) ==
  /\ pc[h] = "claimed" /\ session[h].connected
  /\ LET known == attempts \cup session[h].flushed
         begun == Started(NewAttempt(h, known))
     IN IF object[h].status = "processing"
        THEN /\ object' = [object EXCEPT ![h].attempts = known \cup {begun}]
             /\ session' = [session EXCEPT ![h].unflushed = @ \cup {begun}]
             /\ pc' = [pc EXCEPT ![h] = "charging"]
             /\ UNCHANGED <<tables, lock, expected, outcome>>
        ELSE Raise(h, "invalid")

\* gateway.charge answers (a connection to the database is not needed for it); the attempt and
\* the payment are marked in memory.
Charge(h, result) ==
  /\ pc[h] = "charging"
  /\ IF MayEnd(object[h], h, result) /\ MayBecome(object[h], result)
     THEN /\ expected' = [expected EXCEPT
               ![h] = [status |-> object[h].status, version |-> object[h].version]]
          /\ object' = [object EXCEPT
               ![h] = Marked(AttemptEnded(object[h], h, result), result)]
          /\ pc' = [pc EXCEPT ![h] = "finalizing"]
          /\ UNCHANGED <<tables, lock, session, outcome>>
     ELSE Raise(h, "invalid")

\* mark_succeeded | mark_failed of the repository; no row found is the RuntimeError.
Finalize(h) ==
  /\ pc[h] = "finalizing" /\ session[h].connected
  /\ IF Matches(h)
     THEN /\ session' = [session EXCEPT
               ![h] = [Flushed(h) EXCEPT !.row = Updated(session[h].row, object[h].status)]]
          /\ pc' = [pc EXCEPT ![h] = "updating"]
          /\ UNCHANGED <<tables, lock, object, expected, outcome>>
     ELSE Raise(h, "conflict")

\* attempt_repository.update by id, WebhookDelivery.create and add, the return.
UpdateAttempt(h) ==
  /\ pc[h] = "updating" /\ session[h].connected
  /\ session' = [session EXCEPT
       ![h] = [Flushed(h) EXCEPT
                 !.flushed = Ended(Flushed(h).flushed, h, object[h].status),
                 !.webhooks = {[id |-> h, event |-> object[h].status]}]]
  /\ outcome' = [outcome EXCEPT ![h] = object[h].status]
  /\ pc' = [pc EXCEPT ![h] = "committing"]
  /\ UNCHANGED <<tables, lock, object, expected>>

\* uow.commit: the last flush and COMMIT, whose answer may be lost.
Commit(h, answered) ==
  /\ pc[h] = "committing" /\ session[h].connected
  /\ row' = Seen(h)
  /\ attempts' = attempts \cup session[h].flushed \cup session[h].unflushed
  /\ deliveries' = deliveries \cup session[h].webhooks
  /\ lock' = IF lock = h THEN NoHandler ELSE lock
  /\ pc' = [pc EXCEPT ![h] = "ended"]
  /\ outcome' = [outcome EXCEPT ![h] = IF answered THEN @ ELSE "raised"]
  /\ UNCHANGED <<object, expected, session>>

-----------------------------------------------------------------------------
(* Failures. *)

\* A statement, the pool or the gateway fails, or the process dies.
Fail(h) == pc[h] # "ended" /\ Raise(h, "raised")

\* The server ends the transaction; the call hears of it at its next statement, which may be
\* seconds later if it is charging.
LoseConnection(h) ==
  /\ pc[h] \notin {"received", "ended"} /\ session[h].connected
  /\ session' = [session EXCEPT ![h].connected = FALSE]
  /\ lock' = IF lock = h THEN NoHandler ELSE lock
  /\ UNCHANGED <<tables, pc, object, expected, outcome>>

\* A call goes on as long as it need not wait for the lock of another one.
Step(h) ==
  \/ Get(h) \/ BeginProcessing(h) \/ BeginAttempt(h) \/ Finalize(h) \/ UpdateAttempt(h)
  \/ \E result \in Outcome : Charge(h, result)
  \/ \E answered \in BOOLEAN : Commit(h, answered)
  \/ ~session[h].connected /\ Fail(h)

Next == \E h \in Handler : Step(h) \/ Fail(h) \/ LoseConnection(h)

Spec == Init /\ [][Next]_vars

LiveSpec == Spec /\ \A h \in Handler : WF_vars(Step(h))

-----------------------------------------------------------------------------
(* What must hold. *)

\* The object and the UPDATEs count versions and statuses alike, so that no call that has
\* claimed the payment ends with "Version conflict" or InvalidStateTransition.
NeverRefused == \A h \in Handler : outcome[h] \notin {"conflict", "invalid", "not_pending"}

\* The consumer acks whatever handle returns, CLAIM_CONFLICT and NOT_PENDING too: the payment
\* has to be settled by then, and as the call says if it says how.
ReturnedIsSettled ==
  \A h \in Handler : pc[h] = "ended" /\ outcome[h] # "raised" =>
    /\ row.status \in Outcome
    /\ outcome[h] \in Outcome => row.status = outcome[h]

Fresh == row = Created /\ attempts = {} /\ deliveries = {}
SettledBy(h, result) ==
  /\ row = [status |-> result, version |-> 2]
  /\ attempts = {[id |-> h, number |-> 1, status |-> result]}
  /\ deliveries = {[id |-> h, event |-> result]}

\* The three tables are always from one call: its outcome, its one attempt, ended and numbered
\* 1, its one webhook.  A second charge whose transaction is lost leaves nothing.
TablesAreOneCalls == Fresh \/ \E h \in Handler, result \in Outcome : SettledBy(h, result)

\* The transaction is h's to commit: it has claimed the payment and still has its connection.
Owns(h) ==
  /\ session[h].connected
  /\ \/ pc[h] \in {"claimed", "charging", "finalizing", "updating"}
     \/ pc[h] = "committing" /\ outcome[h] \in Outcome

\* h's session at some point: the payment's row, the attempt sent and unsent, the webhook.
Wrote(h, r, flushed, unflushed, webhooks) ==
  /\ session[h].row = r /\ session[h].webhooks = webhooks
  /\ session[h].flushed = flushed /\ session[h].unflushed = unflushed
Attempted(h, status) == {[id |-> h, number |-> 1, status |-> status]}
Is(h, status, version, known) ==
  object[h].status = status /\ object[h].version = version /\ object[h].attempts = known
Versioned(status, version) == [status |-> status, version |-> version]

\* What a call holds in memory before each statement: the object one transition ahead of the
\* row it has written, the attempt's row one transition behind its object.
CallIsRight(h) ==
  /\ pc[h] \in {"received", "claiming"} => Wrote(h, Created, {}, {}, {})
  /\ pc[h] = "claiming" => expected[h] = Created
  /\ pc[h] \in {"claiming", "claimed"} => Is(h, "processing", 1, {})
  /\ pc[h] = "claimed" => Wrote(h, Versioned("processing", 1), {}, {}, {})
  /\ pc[h] = "charging" => Is(h, "processing", 1, Attempted(h, "processing"))
  /\ pc[h] \in {"charging", "finalizing"} =>
       Wrote(h, Versioned("processing", 1), {}, Attempted(h, "processing"), {})
  /\ pc[h] = "finalizing" => expected[h] = Versioned("processing", 1)
  /\ pc[h] \in {"finalizing", "updating"} =>
       object[h].status \in Outcome /\ Is(h, object[h].status, 2, Attempted(h, object[h].status))
  /\ pc[h] = "updating" =>
       Wrote(h, Versioned(object[h].status, 2), Attempted(h, "processing"), {}, {})
  /\ pc[h] \notin {"committing", "ended"} => outcome[h] = "none"
  /\ pc[h] = "committing" =>
       \/ /\ outcome[h] \in Outcome
          /\ Wrote(h, Versioned(outcome[h], 2), Attempted(h, outcome[h]), {},
                   {[id |-> h, event |-> outcome[h]]})
       \/ /\ outcome[h] \in {"already_terminal", "claim_conflict"}
          /\ Wrote(h, Created, {}, {}, {}) /\ row.status \in Outcome

TypeOK ==
  /\ lock \in Handler \cup {NoHandler}
  /\ pc \in [Handler -> {"received", "claiming", "claimed", "charging", "finalizing",
                         "updating", "committing", "ended"}]
  /\ object \in [Handler -> [status : Status, version : Nat, attempts : SUBSET Attempt]]
  /\ expected \in [Handler -> Version]
  /\ session \in [Handler ->
       [connected : BOOLEAN, row : Version, flushed : SUBSET Attempt,
        unflushed : SUBSET Attempt, webhooks : SUBSET Delivery]]
  /\ outcome \in [Handler -> Outcome \cup
       {"none", "already_terminal", "not_pending", "claim_conflict", "conflict", "invalid", "raised"}]

\* Inductive: the lock belongs to the call that may commit, nothing is committed beside it, and
\* every call is right about where it stands.
SettlementInv ==
  /\ TypeOK
  /\ TablesAreOneCalls
  /\ \A h \in Handler : lock = h <=> Owns(h)
  /\ lock # NoHandler => Fresh
  /\ \A h \in Handler : CallIsRight(h)
  /\ NeverRefused
  /\ ReturnedIsSettled

\* Every call ends: the wait for a row lock is a wait for a call that itself waits for nobody.
EveryCallEnds == \A h \in Handler : <>(pc[h] = "ended")

\* Readers of the tables see the lifecycle.
Lifecycle == INSTANCE PaymentLifecycle WITH
  Payment <- {ThePayment},
  payment <- [p \in {ThePayment} |-> row],
  attempts <- [p \in {ThePayment} |->
    [n \in 1..Cardinality(attempts) |-> (CHOOSE a \in attempts : a.number = n).status]],
  deliveries <- [p \in {ThePayment} |->
    [e \in Outcome |-> Cardinality({d \in deliveries : d.event = e})]]

LifecycleSpec == Lifecycle!Spec
=============================================================================
