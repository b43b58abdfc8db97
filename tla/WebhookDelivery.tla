--------------------------- MODULE WebhookDelivery ---------------------------
(***************************************************************************)
(* The delivery of webhooks: the table webhook_deliveries, the poll loop of *)
(* WebhookWorker and DeliverDueWebhooksHandler with the one transaction it  *)
(* runs a batch in (application/handlers/deliver_webhooks.py).              *)
(*                                                                          *)
(*   Claim    claim_due: SELECT ... FOR UPDATE SKIP LOCKED                  *)
(*   Send     one POST per delivery, in parallel, the row locks held        *)
(*   Commit   _record for every delivery, COMMIT                            *)
(*                                                                          *)
(* Unlike the outbox there is no lease and no owner in the row: the UPDATE  *)
(* of a delivery compares its id only, and the row lock alone keeps one     *)
(* worker from writing over another.  Until COMMIT the transaction has      *)
(* changed nothing that others can see, so that a batch that ends otherwise *)
(* leaves the table as it was and its requests made.                        *)
(*                                                                          *)
(* A delivery number stands for its place in the order of created_at.  A    *)
(* claim, or the reading of the payments after it, that fails is a step     *)
(* that does nothing.                                                       *)
(***************************************************************************)
EXTENDS Integers, FiniteSets

CONSTANTS
  Delivery,      \* webhook deliveries, numbered in the order of created_at
  Worker,        \* processes that run a WebhookWorker
  MaxAttempts,   \* WEBHOOK_RETRY_ATTEMPTS
  BatchSize,     \* the batch_size the handler is given
  SendOutcomes,  \* what a request may end in
  Raises,        \* deliveries whose request raises what WebhookClient.send does not catch
  MaxFaults,     \* bound: stops and lost database connections in a run
  NoWorker

ASSUME DeliveryAssumption == Delivery \subseteq Nat /\ Raises \subseteq Delivery
ASSUME WorkerAssumption == NoWorker \notin Worker
ASSUME LimitAssumption ==
  MaxAttempts \in Nat \ {0} /\ BatchSize \in Nat \ {0} /\ MaxFaults \in Nat
\* "unheard": the receiver accepted, the worker saw a timeout or a broken connection.
ASSUME OutcomeAssumption == SendOutcomes \subseteq {"accepted", "rejected", "unheard"}

VARIABLES
  delivery,  \* delivery[d]: status, attempt, and whether next_retry_at has come
  lock,      \* lock[d]: the worker whose transaction has locked the row
  result,    \* result[w][d]: how far worker w is with delivery d of its batch
  snapshot,  \* snapshot[w][d]: the attempt of the object w holds, 0 outside its batch
  connected, \* connected[w]: the database connection of w's batch is still there
  stray,     \* <<w, d, a>>: a request of an abandoned batch of w, still under way
  tried,     \* tried[d]: the attempts a request was made for (ghost)
  accepted,  \* accepted[d]: the attempts the receiver answered with 2xx (ghost)
  faults

vars == <<delivery, lock, result, snapshot, connected, stray, tried, accepted, faults>>

TypeOK ==
  /\ delivery \in [Delivery -> [status : {"absent", "pending", "success", "failed"},
                                attempt : 1..MaxAttempts, due : BOOLEAN]]
  /\ lock \in [Delivery -> Worker \cup {NoWorker}]
  /\ result \in [Worker -> [Delivery -> {"none", "todo", "ok", "failed"}]]
  /\ snapshot \in [Worker -> [Delivery -> 0..MaxAttempts]]
  /\ connected \in [Worker -> BOOLEAN]
  /\ stray \subseteq Worker \X Delivery \X (1..MaxAttempts)
  /\ tried \in [Delivery -> SUBSET (1..MaxAttempts)]
  /\ accepted \in [Delivery -> SUBSET (1..MaxAttempts)]
  /\ faults \in 0..MaxFaults

NoBatch == [d \in Delivery |-> "none"]
NoSnapshot == [d \in Delivery |-> 0]

Init ==
  /\ delivery = [d \in Delivery |-> [status |-> "absent", attempt |-> 1, due |-> TRUE]]
  /\ lock = [d \in Delivery |-> NoWorker]
  /\ result = [w \in Worker |-> NoBatch]
  /\ snapshot = [w \in Worker |-> NoSnapshot]
  /\ connected = [w \in Worker |-> TRUE]
  /\ stray = {}
  /\ tried = [d \in Delivery |-> {}]
  /\ accepted = [d \in Delivery |-> {}]
  /\ faults = 0

Batch(w) == {d \in Delivery : result[w][d] # "none"}
Todo(w) == {d \in Delivery : result[w][d] = "todo"}

-----------------------------------------------------------------------------
(* A definition marked (variant) is no part of the specification: it holds  *)
(* a plausible mistake in the definition after it.                          *)

\* The transaction that settles a payment adds its delivery: attempt 1, due at once.
Create(d) ==
  /\ delivery[d].status = "absent"
  /\ delivery' = [delivery EXCEPT ![d].status = "pending"]
  /\ UNCHANGED <<lock, result, snapshot, connected, stray, tried, accepted, faults>>

FirstOf(S) == {d \in S : Cardinality({e \in S : e < d}) < BatchSize}

\* (variant) a plain SELECT
ClaimableLocked(d) == delivery[d].status = "pending" /\ delivery[d].due

Claimable(d) == delivery[d].status = "pending" /\ delivery[d].due /\ lock[d] = NoWorker

Claim(w) ==
  LET batch == FirstOf({d \in Delivery : Claimable(d)}) IN
  /\ Batch(w) = {} /\ batch # {}
  /\ lock' = [d \in Delivery |-> IF d \in batch THEN w ELSE lock[d]]
  /\ result' = [result EXCEPT ![w] = [d \in Delivery |-> IF d \in batch THEN "todo" ELSE "none"]]
  /\ snapshot' = [snapshot EXCEPT ![w] = [d \in Delivery |->
                                            IF d \in batch THEN delivery[d].attempt ELSE 0]]
  /\ UNCHANGED <<delivery, connected, stray, tried, accepted, faults>>

\* The receiver sees a request for attempt a of delivery d.
Request(d, a, outcome) ==
  /\ tried' = [tried EXCEPT ![d] = @ \cup {a}]
  /\ accepted' = IF outcome = "rejected" THEN accepted
                 ELSE [accepted EXCEPT ![d] = @ \cup {a}]

\* (variant) a timeout is taken for an answer
HeardAnyway(outcome) == outcome \in {"accepted", "rejected"}
\* result.ok: a 2xx the client has read.
Heard(outcome) == outcome = "accepted"

\* WebhookClient.send; an httpx.HTTPError is an answer that is not ok.
Send(w, d, outcome) ==
  /\ result[w][d] = "todo" /\ d \notin Raises
  /\ result' = [result EXCEPT ![w][d] = IF Heard(outcome) THEN "ok" ELSE "failed"]
  /\ Request(d, snapshot[w][d], outcome)
  /\ UNCHANGED <<delivery, lock, snapshot, connected, stray, faults>>

\* (variant) the session is not closed
UnlockedNever(w) == lock
Unlocked(w) == [d \in Delivery |-> IF lock[d] = w THEN NoWorker ELSE lock[d]]

EndBatch(w) ==
  /\ lock' = Unlocked(w)
  /\ result' = [result EXCEPT ![w] = NoBatch]
  /\ snapshot' = [snapshot EXCEPT ![w] = NoSnapshot]
  /\ connected' = [connected EXCEPT ![w] = TRUE]

\* A request raises through asyncio.gather: the transaction is rolled back and run() polls
\* on, while gather leaves the other requests of the batch running.
SendRaises(w, d) ==
  /\ d \in Raises \cap Todo(w)
  /\ stray' = stray \cup {<<w, e, snapshot[w][e]>> : e \in Todo(w) \ Raises}
  /\ EndBatch(w)
  /\ UNCHANGED <<delivery, tried, accepted, faults>>

\* (bound: a set, so that two abandoned requests for the same attempt are one)
StraySend(w, d, a, outcome) ==
  /\ <<w, d, a>> \in stray
  /\ stray' = stray \ {<<w, d, a>>}
  /\ Request(d, a, outcome)
  /\ UNCHANGED <<delivery, lock, result, snapshot, connected, faults>>

\* (variants) the limit off by one; the attempt not counted
RecordedOneShort(w, d) ==
  CASE result[w][d] = "ok" ->
         [status |-> "success", attempt |-> snapshot[w][d], due |-> TRUE]
    [] result[w][d] = "failed" /\ snapshot[w][d] + 1 < MaxAttempts ->
         [status |-> "pending", attempt |-> snapshot[w][d] + 1, due |-> FALSE]
    [] result[w][d] = "failed" /\ snapshot[w][d] + 1 >= MaxAttempts ->
         [status |-> "failed", attempt |-> snapshot[w][d], due |-> TRUE]
    [] OTHER -> delivery[d]
RecordedUncounted(w, d) ==
  CASE result[w][d] = "ok" ->
         [status |-> "success", attempt |-> snapshot[w][d], due |-> TRUE]
    [] result[w][d] = "failed" ->
         [status |-> "pending", attempt |-> snapshot[w][d], due |-> FALSE]
    [] OTHER -> delivery[d]

\* _record writes what it makes of the object it holds: mark_success, or record_failure
\* with its retry under the next number or its end.
Recorded(w, d) ==
  CASE result[w][d] = "ok" ->
         [status |-> "success", attempt |-> snapshot[w][d], due |-> TRUE]
    [] result[w][d] = "failed" /\ snapshot[w][d] < MaxAttempts ->
         [status |-> "pending", attempt |-> snapshot[w][d] + 1, due |-> FALSE]
    [] result[w][d] = "failed" /\ snapshot[w][d] >= MaxAttempts ->
         [status |-> "failed", attempt |-> snapshot[w][d], due |-> TRUE]
    [] OTHER -> delivery[d]

AllSent(w) == Batch(w) # {} /\ Todo(w) = {}

\* Each UPDATE needs the connection the batch was claimed on: asyncpg's session is gone with it.
\* Whether run() hears the answer to the COMMIT makes no difference: it polls on.
Commit(w) ==
  /\ AllSent(w) /\ connected[w]
  /\ delivery' = [d \in Delivery |-> Recorded(w, d)]
  /\ EndBatch(w)
  /\ UNCHANGED <<stray, tried, accepted, faults>>

\* An UPDATE or the COMMIT fails, as it must when the connection was lost.
RollBack(w) ==
  /\ AllSent(w)
  /\ EndBatch(w)
  /\ UNCHANGED <<delivery, stray, tried, accepted, faults>>

\* The database ends the transaction and its locks; the requests go on unaware.
LoseConnection(w) ==
  /\ Batch(w) # {} /\ connected[w] /\ faults < MaxFaults
  /\ lock' = Unlocked(w)
  /\ connected' = [connected EXCEPT ![w] = FALSE]
  /\ faults' = faults + 1
  /\ UNCHANGED <<delivery, result, snapshot, stray, tried, accepted>>

\* A crash, or the cancellation at shutdown, and the start of a process in its place.
Restart(w) ==
  /\ Batch(w) # {} /\ faults < MaxFaults
  /\ EndBatch(w)
  /\ stray' = {s \in stray : s[1] # w}
  /\ faults' = faults + 1
  /\ UNCHANGED <<delivery, tried, accepted>>

BecomesDue(d) ==
  /\ ~delivery[d].due
  /\ delivery' = [delivery EXCEPT ![d].due = TRUE]
  /\ UNCHANGED <<lock, result, snapshot, connected, stray, tried, accepted, faults>>

Next ==
  \/ \E d \in Delivery : Create(d) \/ BecomesDue(d)
  \/ \E w \in Worker :
       Claim(w) \/ Commit(w) \/ RollBack(w) \/ LoseConnection(w) \/ Restart(w)
  \/ \E w \in Worker, d \in Delivery : SendRaises(w, d)
  \/ \E w \in Worker, d \in Delivery, outcome \in SendOutcomes :
       \/ Send(w, d, outcome)
       \/ \E a \in 1..MaxAttempts : StraySend(w, d, a, outcome)

Spec == Init /\ [][Next]_vars

\* The loop polls on whatever a batch ended in, every request ends by its timeout, time
\* passes, and the database does not fail at every commit.
Fairness ==
  /\ \A w \in Worker :
       /\ WF_vars(Claim(w)) /\ WF_vars(RollBack(w)) /\ SF_vars(Commit(w))
       /\ \A d \in Delivery :
            /\ WF_vars(\E outcome \in SendOutcomes : Send(w, d, outcome))
            /\ WF_vars(SendRaises(w, d))
  /\ \A d \in Delivery : WF_vars(BecomesDue(d))

LiveSpec == Spec /\ Fairness

-----------------------------------------------------------------------------
(* What must hold. *)

\* claim_due and the unguarded UPDATE of update(): what a worker is about to write over is
\* what it has read, whoever else worked on the delivery since.  A worker whose connection
\* is gone may hold a stale object, and cannot commit it.
ObjectsAreCurrent ==
  \A w \in Worker : connected[w] =>
    \A d \in Batch(w) :
      delivery[d].status = "pending" /\ delivery[d].attempt = snapshot[w][d]

\* mark_success, record_failure: a success was answered with 2xx, for the very attempt in the
\* row; a failure comes after all the attempts of the policy; a crash, a rollback or a
\* request of an abandoned batch uses up none.
VerdictIsTrue ==
  \A d \in Delivery :
    /\ accepted[d] \subseteq tried[d]
    /\ tried[d] \subseteq 1..delivery[d].attempt
    /\ 1..(delivery[d].attempt - 1) \subseteq tried[d]
    /\ delivery[d].status = "success" => delivery[d].attempt \in accepted[d]
    /\ delivery[d].status = "failed" => tried[d] = 1..MaxAttempts

\* FOR UPDATE: while its connection lasts a worker has locked its batch and nothing else.
LocksAreBatches ==
  \A w \in Worker :
    /\ \A d \in Delivery :
         /\ lock[d] = w <=> connected[w] /\ result[w][d] # "none"
         /\ snapshot[w][d] = 0 <=> result[w][d] = "none"
    /\ ~connected[w] => Batch(w) # {}

\* A request is made, and reported, for an attempt the row has come to: a worker without its
\* connection and an abandoned request lag behind the row, and are never ahead of it.
RequestsAreKnown ==
  /\ \A w \in Worker, d \in Delivery : result[w][d] # "none" =>
       /\ delivery[d].status # "absent" /\ snapshot[w][d] \in 1..delivery[d].attempt
       /\ result[w][d] = "ok" => snapshot[w][d] \in accepted[d]
       /\ result[w][d] = "failed" => snapshot[w][d] \in tried[d]
  /\ \A w \in Worker, d \in Delivery, a \in 1..MaxAttempts : <<w, d, a>> \in stray =>
       delivery[d].status # "absent" /\ a <= delivery[d].attempt

\* The invariants together are inductive: LocksAreBatches keeps two connected workers apart,
\* which keeps ObjectsAreCurrent, and RequestsAreKnown makes what is recorded true.
DeliveryInv ==
  /\ TypeOK
  /\ LocksAreBatches
  /\ ObjectsAreCurrent
  /\ RequestsAreKnown
  /\ VerdictIsTrue

\* The table keeps the promise the outbox keeps, with the receiver in the broker's place:
\* verdicts are final, and a delivery called done has reached its receiver.
StateOf(status) ==
  CASE status = "absent" -> "unknown"
    [] status = "pending" -> "waiting"
    [] status = "success" -> "done"
    [] status = "failed" -> "dropped"

Contract == INSTANCE AtLeastOnce
  WITH Message <- Delivery,
       Attempt <- 1..MaxAttempts,
       state <- [d \in Delivery |-> StateOf(delivery[d].status)],
       published <- accepted

ContractSpec == Contract!Spec

\* run(), record_failure: every delivery comes to its verdict, whatever rollbacks and
\* restarts undo on the way.
EventuallySettled ==
  \A d \in Delivery :
    delivery[d].status = "pending" ~> delivery[d].status \in {"success", "failed"}

\* deliver_webhooks.py:53-55: one URL that is slow or unavailable does not block the batch.
OneUrlBlocksNoOther ==
  \A d \in Delivery \ Raises :
    delivery[d].status = "pending" ~> delivery[d].status \in {"success", "failed"}
=============================================================================
