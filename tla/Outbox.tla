------------------------------- MODULE Outbox -------------------------------
(***************************************************************************)
(* The transactional outbox: the table outbox_messages and the processes    *)
(* that drain it into RabbitMQ (infrastructure/outbox/worker.py over        *)
(* infrastructure/repositories/outbox.py).                                  *)
(*                                                                          *)
(* A worker cycle is two short database transactions with the publications  *)
(* between them, outside any transaction:                                   *)
(*                                                                          *)
(*   ClaimBatch    release_expired_claims + claim_batch + commit            *)
(*   PublishOne    one broker.publish of the batch, under a timeout         *)
(*   MarkResults   mark_processed / mark_publish_failure for all + commit   *)
(*                                                                          *)
(* Several workers run the cycle at once, each can stop at any point, and   *)
(* a lease can run out under a worker that is merely slow.                  *)
(*                                                                          *)
(* Time is abstracted to what the SQL compares: a lease is fresh or expired *)
(* (claimed_at < cutoff), a row is due or not (next_retry_at), a terminal   *)
(* row is aged or not (finished_at < cutoff).  A message number stands for  *)
(* its place in the order (created_at, id) that claim_batch sorts by.       *)
(***************************************************************************)
EXTENDS Integers, FiniteSets

CONSTANTS
  Message,          \* outbox messages, numbered in the order of (created_at, id)
  Worker,           \* OutboxWorker objects: every process start is a new one
  Reliable,         \* the workers that no crash or shutdown ends
  MaxAttempts,      \* OUTBOX_MAX_ATTEMPTS as each worker's settings give it
  BatchSize,        \* OUTBOX_BATCH_SIZE
  PublishOutcomes,  \* what a publication may end in
  Answers,          \* whether a worker hears that its claim was committed
  NoWorker          \* claimed_by IS NULL

ASSUME MessageAssumption == Message \subseteq Nat
ASSUME WorkerAssumption == Reliable \subseteq Worker /\ NoWorker \notin Worker
ASSUME LimitAssumption ==
  /\ MaxAttempts \in [Worker -> Nat \ {0}]
  /\ BatchSize \in Nat \ {0}
ASSUME OutcomeAssumption == PublishOutcomes \subseteq {"delivered", "refused", "unconfirmed"}
ASSUME AnswerAssumption == Answers \subseteq BOOLEAN

VARIABLES
  row,        \* row[m]: the columns of message m in outbox_messages
  process,    \* process[w]: "off", "idle", "publishing" or "stopped"
  result,     \* result[w][m]: how far worker w is with message m of its batch
  snapshot,   \* snapshot[w][m]: m.attempts as RETURNING gave it to w, 0 outside its batch
  published   \* published[m]: the attempts whose publication reached the broker

vars == <<row, process, result, snapshot, published>>

RowStatus == {"absent", "pending", "processing", "processed", "dead", "purged"}
Row == [status : RowStatus,
        attempts : Nat,
        claimed_by : Worker \cup {NoWorker},
        lease : {"none", "fresh", "expired"},
        due : BOOLEAN,
        aged : BOOLEAN]

TypeOK ==
  /\ row \in [Message -> Row]
  /\ process \in [Worker -> {"off", "idle", "publishing", "stopped"}]
  /\ result \in [Worker -> [Message -> {"none", "todo", "published", "failed"}]]
  /\ snapshot \in [Worker -> [Message -> Nat]]
  /\ published \in [Message -> SUBSET Nat]

NoBatch == [m \in Message |-> "none"]
NoSnapshot == [m \in Message |-> 0]

Init ==
  /\ row = [m \in Message |-> [status |-> "absent", attempts |-> 0, claimed_by |-> NoWorker,
                               lease |-> "none", due |-> TRUE, aged |-> FALSE]]
  /\ process = [w \in Worker |-> "off"]
  /\ result = [w \in Worker |-> NoBatch]
  /\ snapshot = [w \in Worker |-> NoSnapshot]
  /\ published = [m \in Message |-> {}]

-----------------------------------------------------------------------------
(* The statements of the repository, each as what it makes of one row.  A   *)
(* definition marked (variant) is no part of the specification: it holds a  *)
(* plausible mistake in the definition after it, for checking that the      *)
(* properties below would notice.                                           *)

Killed(r) == [r EXCEPT !.status = "dead", !.claimed_by = NoWorker, !.lease = "none",
                       !.due = TRUE, !.aged = FALSE]

\* (variant) the expired lease is never taken back
ReleaseForgotten(r, max) == r

ReleaseExpired(r, max) ==
  IF r.status = "processing" /\ r.lease = "expired"
  THEN IF r.attempts >= max
       THEN Killed(r)
       ELSE [r EXCEPT !.status = "pending", !.claimed_by = NoWorker, !.lease = "none"]
  ELSE r

\* The statement asks for processed_at IS NULL besides, which a pending row always has:
\* processed_at is written together with the status "processed" only.
Claimable(r, max) == r.status = "pending" /\ r.attempts < max /\ r.due

\* (variant) the attempt is not counted
ClaimedUncounted(r, w) ==
  [r EXCEPT !.status = "processing", !.claimed_by = w, !.lease = "fresh"]

Claimed(r, w) ==
  [r EXCEPT !.status = "processing", !.claimed_by = w, !.lease = "fresh",
            !.attempts = r.attempts + 1]

OwnedBy(r, w) == r.status = "processing" /\ r.claimed_by = w

\* (variants) claimed_by is not compared; the lease is left in place
MarkProcessedByAnyone(r, w) ==
  IF r.status = "processing"
  THEN [r EXCEPT !.status = "processed", !.claimed_by = NoWorker, !.lease = "none",
                 !.aged = FALSE]
  ELSE r
MarkProcessedLeaseKept(r, w) ==
  IF OwnedBy(r, w) THEN [r EXCEPT !.status = "processed", !.aged = FALSE] ELSE r

MarkProcessed(r, w) ==
  IF OwnedBy(r, w)
  THEN [r EXCEPT !.status = "processed", !.claimed_by = NoWorker, !.lease = "none",
                 !.aged = FALSE]
  ELSE r

\* (variants) no guard; the limit off by one
MarkFailureUnguarded(r, w, max, soon) ==
  IF r.attempts >= max
  THEN Killed(r)
  ELSE [r EXCEPT !.status = "pending", !.claimed_by = NoWorker, !.lease = "none",
                 !.due = soon]
MarkFailureOneShort(r, w, max, soon) ==
  IF OwnedBy(r, w)
  THEN IF r.attempts + 1 >= max
       THEN Killed(r)
       ELSE [r EXCEPT !.status = "pending", !.claimed_by = NoWorker, !.lease = "none",
                      !.due = soon]
  ELSE r

\* soon: the caller's next_retry_at does not lie ahead, because it is NULL (the caller's
\* verdict from its snapshot of attempts) or has passed while the batch was published.
MarkPublishFailure(r, w, max, soon) ==
  IF OwnedBy(r, w)
  THEN IF r.attempts >= max
       THEN Killed(r)
       ELSE [r EXCEPT !.status = "pending", !.claimed_by = NoWorker, !.lease = "none",
                      !.due = soon]
  ELSE r

ReapExhausted(r, max) ==
  IF r.status = "pending" /\ r.attempts >= max THEN Killed(r) ELSE r

PurgeProcessed(r) ==
  IF r.status \in {"processed", "dead"} /\ r.aged
  THEN [r EXCEPT !.status = "purged", !.aged = FALSE]
  ELSE r

-----------------------------------------------------------------------------
(* collect_events: the row is added by the transaction that inserts the payment. *)
CollectEvents(m) ==
  /\ row[m].status = "absent"
  /\ row' = [row EXCEPT ![m].status = "pending"]
  /\ UNCHANGED <<process, result, snapshot, published>>

\* A new process, with a worker_id of its own.
Start(w) ==
  /\ process[w] = "off"
  /\ process' = [process EXCEPT ![w] = "idle"]
  /\ UNCHANGED <<row, result, snapshot, published>>

FirstOf(S) == {m \in S : Cardinality({n \in S : n < m}) < BatchSize}

\* A row some other transaction has locked is skipped (SKIP LOCKED): another worker that
\* is between two of its own steps may be inside one.
MayBeLocked(w) ==
  IF \E v \in Worker \ {w} : process[v] \in {"idle", "publishing"} THEN Message ELSE {}

Released(w) == [m \in Message |-> ReleaseExpired(row[m], MaxAttempts[w])]
Batch(w, skipped) ==
  FirstOf({m \in Message \ skipped : Claimable(Released(w)[m], MaxAttempts[w])})

\* Step 1 of the cycle, one transaction.  When the answer to the commit is lost the worker
\* knows no batch and sleeps, yet the rows carry its lease.  An empty batch ends the cycle.
ClaimBatch(w, skipped, answered) ==
  LET batch == Batch(w, skipped) IN
  /\ process[w] = "idle"
  /\ row' = [m \in Message |-> IF m \in batch
                               THEN Claimed(Released(w)[m], w)
                               ELSE Released(w)[m]]
  /\ IF answered /\ batch # {}
     THEN /\ process' = [process EXCEPT ![w] = "publishing"]
          /\ result' = [result EXCEPT ![w] = [m \in Message |->
                                                IF m \in batch THEN "todo" ELSE "none"]]
          /\ snapshot' = [snapshot EXCEPT ![w] = [m \in Message |->
                                                IF m \in batch THEN row'[m].attempts ELSE 0]]
     ELSE UNCHANGED <<process, result, snapshot>>
  /\ UNCHANGED published

\* Step 2, once per message of the batch, in any order.  "unconfirmed": the broker took the
\* message but the publisher saw a timeout or a lost connection.
PublishOne(w, m, outcome) ==
  /\ process[w] = "publishing"
  /\ result[w][m] = "todo"
  /\ result' = [result EXCEPT ![w][m] = IF outcome = "delivered" THEN "published" ELSE "failed"]
  /\ published' = IF outcome = "refused"
                  THEN published
                  ELSE [published EXCEPT ![m] = @ \cup {snapshot[w][m]}]
  /\ UNCHANGED <<row, process, snapshot>>

BatchDone(w) == process[w] = "publishing" /\ \A m \in Message : result[w][m] # "todo"

EndCycle(w) ==
  /\ process' = [process EXCEPT ![w] = "idle"]
  /\ result' = [result EXCEPT ![w] = NoBatch]
  /\ snapshot' = [snapshot EXCEPT ![w] = NoSnapshot]
  /\ UNCHANGED published

\* The back-off counts from the start of the cycle, before the claim: the next_retry_at of
\* the messages in late has passed when it is written.
Marked(w, m, late) ==
  CASE result[w][m] = "published" -> MarkProcessed(row[m], w)
    [] result[w][m] = "failed" ->
         MarkPublishFailure(row[m], w, MaxAttempts[w],
                            snapshot[w][m] >= MaxAttempts[w] \/ m \in late)
    [] OTHER -> row[m]

\* Step 3, one transaction for the whole batch.
MarkResults(w, late) ==
  /\ BatchDone(w)
  /\ row' = [m \in Message |-> Marked(w, m, late)]
  /\ EndCycle(w)

\* Step 3 fails (lost connection, deadlock with a release): nothing is marked, run() logs
\* the exception and the worker polls on; its rows wait for the lease to run out.
MarkFails(w) ==
  /\ BatchDone(w)
  /\ UNCHANGED row
  /\ EndCycle(w)

\* Every OUTBOX_PURGE_INTERVAL cycles, one transaction.  The interval is left open.
Purge(w) ==
  /\ process[w] = "idle"
  /\ row' = [m \in Message |-> PurgeProcessed(ReapExhausted(row[m], MaxAttempts[w]))]
  /\ UNCHANGED <<process, result, snapshot, published>>

\* A crash, or the cancellation at shutdown: what the process knew of its batch is gone.
Stop(w) ==
  /\ w \notin Reliable
  /\ process[w] \in {"idle", "publishing"}
  /\ process' = [process EXCEPT ![w] = "stopped"]
  /\ result' = [result EXCEPT ![w] = NoBatch]
  /\ snapshot' = [snapshot EXCEPT ![w] = NoSnapshot]
  /\ UNCHANGED <<row, published>>

\* The passing of time.  A lease may run out under a live worker too.
LeaseExpires(m) ==
  /\ row[m].lease = "fresh"
  /\ row' = [row EXCEPT ![m].lease = "expired"]
  /\ UNCHANGED <<process, result, snapshot, published>>

BecomesDue(m) ==
  /\ ~row[m].due
  /\ row' = [row EXCEPT ![m].due = TRUE]
  /\ UNCHANGED <<process, result, snapshot, published>>

Ages(m) ==
  /\ row[m].status \in {"processed", "dead"} /\ ~row[m].aged
  /\ row' = [row EXCEPT ![m].aged = TRUE]
  /\ UNCHANGED <<process, result, snapshot, published>>

Next ==
  \/ \E m \in Message : CollectEvents(m) \/ LeaseExpires(m) \/ BecomesDue(m) \/ Ages(m)
  \/ \E w \in Worker : Start(w) \/ Stop(w) \/ MarkFails(w) \/ Purge(w)
  \/ \E w \in Worker : \E late \in SUBSET Message : MarkResults(w, late)
  \/ \E w \in Worker : \E skipped \in SUBSET MayBeLocked(w), answered \in Answers :
       ClaimBatch(w, skipped, answered)
  \/ \E w \in Worker, m \in Message, outcome \in PublishOutcomes : PublishOne(w, m, outcome)

Spec == Init /\ [][Next]_vars

\* The scheduling the code gives: the service restarts its worker, the poll loop comes back
\* for ever and not every poll finds its rows locked or loses its answer, each publication
\* ends by its timeout, time passes.
Fairness ==
  /\ \A w \in Worker :
       /\ WF_vars(Start(w))
       /\ WF_vars(ClaimBatch(w, {}, TRUE))
       /\ \A m \in Message : WF_vars(\E outcome \in PublishOutcomes : PublishOne(w, m, outcome))
       /\ WF_vars((\E late \in SUBSET Message : MarkResults(w, late)) \/ MarkFails(w))
       /\ WF_vars(Purge(w))
  /\ \A m \in Message : WF_vars(LeaseExpires(m)) /\ WF_vars(BecomesDue(m))

LiveSpec == Spec /\ Fairness

-----------------------------------------------------------------------------
(* What must hold. *)

\* Two workers may both be busy with a message, one of them with a lease that ran out, but
\* never on the same attempt: claim_batch hands every value of attempts to one worker.
OneClaimPerAttempt ==
  \A m \in Message : \A v, w \in Worker :
    v # w /\ result[v][m] # "none" /\ result[w][m] # "none" => snapshot[v][m] # snapshot[w][m]

\* mark_processed: a row says processed only if the broker was given the message.
ProcessedWasPublished == \A m \in Message : row[m].status = "processed" => published[m] # {}

\* release_expired_claims, mark_publish_failure, reap_exhausted: a message is given up only
\* when the budget of some worker is used up, whichever of the three gives it up.
DeadIsExhausted ==
  \A m \in Message :
    row[m].status = "dead" => \E w \in Worker : row[m].attempts >= MaxAttempts[w]

\* claim_batch, release_expired_claims: the claims of all workers together, those of crashed
\* and stalled ones included, stay within the largest OUTBOX_MAX_ATTEMPTS.
AttemptsWithinBudget ==
  \A m \in Message :
    row[m].attempts > 0 => \E w \in Worker : row[m].attempts <= MaxAttempts[w]

\* claimed_by and claimed_at live and die with status = processing, and the worker a row is
\* leased to, if it is at work on it, knows the attempt it works for.
LeaseMatchesBatch ==
  \A m \in Message :
    /\ (row[m].status = "processing") <=> (row[m].claimed_by # NoWorker)
    /\ (row[m].status = "processing") <=> (row[m].lease # "none")
    /\ \A w \in Worker :
         row[m].claimed_by = w /\ result[w][m] # "none" => snapshot[w][m] = row[m].attempts

\* The ghosts tell the truth: what reached the broker was claimed, an attempt still to be
\* made was not made, one reported published was.
PublishedWasClaimed ==
  \A m \in Message :
    /\ published[m] \subseteq 1..row[m].attempts
    /\ row[m].status = "absent" => row[m].attempts = 0
    /\ \A w \in Worker :
         /\ result[w][m] # "none" => snapshot[w][m] \in 1..row[m].attempts
         /\ result[w][m] = "todo" => snapshot[w][m] \notin published[m]
         /\ result[w][m] = "published" => snapshot[w][m] \in published[m]

\* A batch lives from its claim to the end of its cycle or of its process.
OnlyPublishersHoldBatches ==
  \A w \in Worker : process[w] # "publishing" => result[w] = NoBatch

\* The invariants together are inductive: a new claim is numbered above all older ones
\* (PublishedWasClaimed), which keeps OneClaimPerAttempt and LeaseMatchesBatch; a row is
\* marked processed by an owner that has published (ProcessedWasPublished).
OutboxInv ==
  /\ TypeOK
  /\ OnlyPublishersHoldBatches
  /\ PublishedWasClaimed
  /\ OneClaimPerAttempt
  /\ LeaseMatchesBatch
  /\ ProcessedWasPublished
  /\ DeadIsExhausted
  /\ AttemptsWithinBudget

\* The guard status = processing AND claimed_by = me: a row under lease is settled as
\* processed only by its owner, for the attempt the lease was taken for, and while the lease
\* is fresh nobody but the owner takes the row away.
SettledByOwner(m) ==
  row[m].status = "processing" /\ row'[m] # row[m] =>
    LET w == row[m].claimed_by IN
    /\ row'[m].status = "processed" =>
         result[w][m] = "published" /\ snapshot[w][m] = row[m].attempts
    /\ row[m].lease = "fresh" /\ row'[m].lease = "none" => BatchDone(w)

OnlyOwnerSettles == [][\A m \in Message : SettledByOwner(m)]_vars

\* The relay implements its contract.
StateOf(r) ==
  CASE r.status = "absent" -> "unknown"
    [] r.status \in {"pending", "processing"} -> "waiting"
    [] r.status = "processed" -> "done"
    [] r.status = "dead" -> "dropped"
    [] r.status = "purged" -> "forgotten"

Contract == INSTANCE AtLeastOnce
  WITH state <- [m \in Message |-> StateOf(row[m])],
       Attempt <- UNION {1..MaxAttempts[w] : w \in Worker}

ContractSpec == Contract!Spec

\* at-least-once, run(): whatever crashes and stalls, every stored message gets a verdict.
EventuallySettled ==
  \A m \in Message :
    row[m].status = "pending" ~> row[m].status \in {"processed", "dead", "purged"}

\* docs/payments.md:284-285: a message is not lost when the worker is stopped while it
\* publishes; it will be delivered after the restart.
StoppingLosesNothing ==
  \A m \in Message :
    row[m].status = "dead" => published[m] # {} \/ \E w \in Worker : result[w][m] # "none"
=============================================================================
