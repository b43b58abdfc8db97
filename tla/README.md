# A specification of the payment service

The repository is an asynchronous payment service: an HTTP API that stores payments, an
outbox that announces them in RabbitMQ, a consumer that charges them through a gateway,
and a worker that tells the merchant by webhook. The Python package is
`src/src/app/payments` (paths below are relative to it unless they start with `src/`).
This directory holds TLA+ modules for its concurrent core, TLC configurations that check
them on small instances, and TLAPS proofs of their safety properties.

    tlc -config MCOutbox.cfg MCOutbox          # one of the runs of the table below
    tlapm OutboxProofs.tla                     # the proofs

## 1. The system

    POST /payments        outbox_messages        payments.new           payments, attempts,
    CreatePaymentHandler ----------------> OutboxWorker -----> consumer ----> webhook_deliveries
      one transaction          SQL          (N processes)  AMQP  |  ^            |
                                                            nack |  | TTL        v
                                                          payments.retry     WebhookWorker --> merchant
                                                          payments.dlq

Everything between the components is durable: two tables used as queues, and the queues of
the broker. Every arrow can be repeated (a process dies after it acted and before it noted
that it did), so each component has to be correct under repetition, and under several
workers at once, since SKIP LOCKED, leases and version checks are there for that.

| Component | State | Operations | Hard behaviour | What makes it correct |
| --- | --- | --- | --- | --- |
| Payment creation (`application/handlers/create_payment.py`) | `payments`, `outbox_messages` | `try_insert`, read of the winner, `collect_events` | same key posted at once, commit whose answer is lost | one payment per key, exactly one outbox row per payment, every caller of a key gets the same payment |
| Outbox relay (`infrastructure/outbox/worker.py`, `repositories/outbox.py`) | `outbox_messages`: status, attempts, claimed_by, claimed_at, next_retry_at, finished_at; the batch in a worker's memory | release, claim, publish, mark, reap, purge | leases that run out under live workers, stops between claim and mark, lost answers, unequal settings | an attempt is one worker's; verdicts are true; attempts stay within the budget; every message gets a verdict |
| Queues and consumer (`infrastructure/broker`) | `payments.new`, `.retry`, `.dlq`; x-death | route, ack, nack, DLQ | redelivery, zombie callbacks, a publication into the DLQ that fails, without limit | no message leaves unsettled; the DLQ only after MaxRetries |
| Processing (`application/handlers/process_payment.py`) | `payments` (status, version), `payment_attempts`, `webhook_deliveries`; row locks | load, claim, charge, finalize, commit | the charge runs inside an open transaction; rollback after it; two callbacks for one payment | one charge at a time by transactions that stand, none after the settlement; status, attempt, webhook and the gateway agree |
| Webhook delivery (`application/handlers/deliver_webhooks.py`, `infrastructure/webhook`) | `webhook_deliveries`: status, attempt, next_retry_at; row locks; requests under way | claim, send, record, commit | a batch sent under locks that die with the connection; an unguarded UPDATE; one request that raises | nobody writes over another; verdicts are true and final; rollbacks use up no attempt |
| Aggregates (`domain/aggregates`, `domain/entities`) | an object per call: status, version, attempts | transitions, `begin_attempt`, `succeed_attempt`, `fail_attempt` | versions are counted in the object and in SQL; rows flushed late; no constraint on attempts or deliveries | no call that has claimed a payment is refused later; the committed rows are those of one call |
| Unit of work, `@transactional` (`src/src/runtime/persistence`) | a session and its connection | enter, flush, commit, rollback, exit | exceptions, lost answers, connections that break unnoticed | all or nothing; every connection and lock comes back |
| Worker process (`src/src/runtime/bootstrap/worker_main.py`) | callbacks and two loops on one pool; the topology of the broker | start, declare, cancel, exit | consumes before the retry queue is declared; waits for connections and locks; stops during start-up | no message is dropped; no circular wait; webhooks go on |
| Blue-green deployment (`src/.github/workflows/master.yml`) | two containers, network alias, nginx backend | detect, start, wait, switch, stop | failure between two steps or swallowed by `\|\| true`, both colours running, overlapping runs | the public entry leads to a running container, but for the switch and what disturbs a run |
| Payment query (`application/handlers/get_payment.py`) | none | two SELECTs | a commit between them | a final status is shown with the attempt that led to it |
| The service as a whole | all tables and queues | transactions that two components share | an event or a webhook stored apart from its cause, a repetition at any arrow | a payment is always somebody's to move on; webhooks and queries tell one outcome |
| The rest: mappers, DI, module loader, i18n, logging, metrics, health, migrations | | | none that spans steps | |

`PROJECT.json` lists the hazards one by one, with the line where each bites and the
properties that would notice.

## 2. The modules

| Module | What it is |
| --- | --- |
| `Outbox` | the table, the worker's cycle, its failures, its properties |
| `AtLeastOnce` | the contract of a relay in three actions; `Outbox` and `WebhookDelivery` implement it |
| `PaymentProcessing` | the broker's queues, the consumer and the processing transaction |
| `PaymentLifecycle` | what readers of the tables may see of a payment; `PaymentProcessing` implements it |
| `PaymentSettlement` | the handler statement by statement: the aggregate beside the rows of its transaction; implements `PaymentLifecycle` too |
| `WebhookDelivery` | the webhook table and worker |
| `PaymentCreation` | concurrent POST requests, their transactions and the unique index |
| `IdempotentCreation` | what clients and the outbox may see of creation, in two actions; `PaymentCreation` implements it |
| `PaymentQuery` | GET requests beside the commits that `PaymentLifecycle` allows |
| `WorkerProcess` | worker processes: start and stop, the pool, the declarations in the broker |
| `Pipeline` | the service from POST to webhook, composed of `IdempotentCreation`, `AtLeastOnce` (twice), `PaymentLifecycle` and `PaymentQuery` |
| `PaymentService` | what clients see of the whole: accepted, told, settled, heard, asked, answered; `Pipeline` implements it |
| `BlueGreenDeploy` | the deployment script, command by command, on one host |
| `MC<module>` | instances for TLC |
| `<module>Proofs` | theorems about the module and their proofs; those about `PaymentQuery` are in `PipelineProofs` |

A definition whose comment says *(variant)* is no part of any specification: it writes down
a plausible mistake (a dropped guard, a limit off by one), and putting it in the place of
the definition after it shows that a property notices.

### Outbox

A row is the columns the statements compare. The definitions from `Killed` to
`PurgeProcessed` are the UPDATEs and the DELETE of `repositories/outbox.py`, each as a
function from a row to a row; the actions are the transactions of `outbox/worker.py` and the
publications between them.

* `ClaimBatch` is step 1, one transaction: both statements of `release_expired_claims`, then
  `claim_batch`. `FirstOf` is ORDER BY and LIMIT, `skipped` is SKIP LOCKED: rows that the
  transaction of another live worker may hold at that moment. If the answer to the commit is
  lost, the rows are leased to a worker that does not know it.
* `PublishOne` is `_publish_one`, once per message in any order (a semaphore bounds how many
  run at once, which makes no difference to what can happen). Outcome "unconfirmed": the
  broker has the message and the worker sees a timeout.
* `MarkResults` is step 3, one transaction; `MarkFails` is its failure. `snapshot` is the
  value of `attempts` the worker was given by RETURNING, which `_next_retry_at` decides by;
  the database decides by the column. `late` is the set of messages whose `next_retry_at`
  has passed by the time it is written, since it counts from the start of the cycle.
* `Purge` is `_purge_processed`. It may come at any time a worker is idle, which covers every
  OUTBOX_PURGE_INTERVAL.
* `Stop` ends a process at any point. A restart is another element of `Worker`: its
  `worker_id` is new.
* Time is three bits per row: the lease is fresh or expired, the row is due, a terminal row
  is aged. `LeaseExpires` may strike a live worker: nothing bounds how long a batch takes
  to publish (50 messages, 10 at once, 5 s each with the defaults, but a process can be
  suspended).

`published` is a ghost: the attempts that reached the broker.

### PaymentProcessing

A callback is one invocation of the subscriber with its transaction. A message is one
publication, so a duplicate by the outbox is another `Message` with the same `Body`. The
bodies that differ in what `_route` does are "unreadable" (to the DLQ at once), "foreign"
(acked), "malformed" (raises at every delivery), "unknown" (no such payment), or a payment. The
run has payments only; the theorems hold for any assignment of bodies.

* `lock` is the PostgreSQL row lock taken by the UPDATE of `begin_processing` and held to the
  end of the transaction. A second UPDATE waits for it, then reads the row anew (READ
  COMMITTED): `RowIsFree` is the wait, `CanBegin` the WHERE.
* Because nobody sees uncommitted rows, the tables change in one action, `Commit`. The status
  "processing" is therefore never visible, and the handler's NOT_PENDING is unreachable; nor
  can the version check of `mark_succeeded` fail, since the lock is held (`Version conflict
  finalizing` is unreachable). Both are visible in `RecordMatchesCharge`.
* `Commit(c, FALSE)`: the commit is done, its answer lost; the callback nacks.
* `DatabaseFails`: no connection (pool of 30, 30 s), a statement timeout (30 s, which a wait
  for a lock can meet), or a failing commit.
* `LoseDatabase`: the connection breaks between two statements, as while the gateway works. The
  server drops the row lock at once; the callback does not know (`broken`), goes on charging, and
  fails at its next statement. Meanwhile another callback may claim and charge. So
  `ChargesAreExclusive` speaks of the callbacks whose transaction stands, and `RecordMatchesCharge`
  of a last answer that somebody could record: if the last answer went to a callback without a
  transaction ("unheard"), the provider may have another result than every table. The tables
  still agree with each other; `PaymentSettlement` looks at the same failure statement by statement.
* `CopyFails`: the publication into the DLQ raises, the message is nacked and comes back, as often
  as this happens. `OneMore` lets the sum over x-death stay at MaxRetries, since the code only
  compares the two (`>=`).
* `LoseConnection`: the broker gives the message to another callback while the old one runs
  on; what the old one acks afterwards settles nothing. `MaxCrashes` bounds it and `Crash`.
* Settled payments are final here: the API changes none.

`lastCharge` is a ghost: what the gateway said last, or "unheard".

### PaymentSettlement

`PaymentProcessing` takes the handler's transaction for one step; this module takes it apart,
one await of `ProcessPaymentHandler.handle` per action, for one payment and any number of calls.

* `object` is the aggregate with its transitions and attempts, `expected` the status and version
  a caller puts aside before a transition, `session` what the transaction has written: `row`,
  and attempts that are `flushed` or still `unflushed` (added to the session, sent before its
  next statement). The committed tables are `row`, `attempts`, `deliveries`.
* `BeginProcessing` waits for the lock and compares what it then finds with `expected`. The
  object has already counted its version up; `Updated` counts the row's. `Finalize` compares the
  two again; `UpdateAttempt` finds the attempt by id because `Finalize` has flushed it.
* `LoseConnection` ends the transaction in the server. A call that is charging goes on until its
  next statement, so that a second one may claim the payment and charge beside it: two charges,
  of which one is recorded. `TablesAreOneCalls` says that the tables never mix the two.
* `Fail` is an exception at any point, or the death of the process.

What the model makes plain about the code: `hydrate_attempts` never finds an attempt, as a
payment that can be claimed has none committed, so that the number is always 1; nothing in
the schema keeps two attempts with one number or two webhooks apart, the claim alone does; the
`claim_conflict` return is reached only after another call has settled the payment, which is
why it is right to ack it; the events the aggregate collects (started, succeeded, failed) are
taken by nobody.

### WebhookDelivery

A batch is one transaction, from `claim_due` over the requests to the commit. `lock` is
again the row lock; `snapshot` is the attempt in the object the worker holds, which `update`
writes back comparing nothing but the id. `LoseConnection` drops the locks while the worker
goes on sending (`connected` is false); it finds out at its next statement, so that it can
only `RollBack`.

`SendRaises` is an exception other than `httpx.HTTPError` in `WebhookClient.send`. It passes
through `asyncio.gather`, which leaves the other requests running: they become `stray`.
`Raises` is the set of deliveries whose request always raises, as that of a URL httpx
refuses does: creation checks only that a URL starts with http:// or https://.

`tried` and `accepted` are ghosts: the attempts requests were made for, and those the
receiver answered with 2xx.

### PaymentCreation

A request is one call of the endpoint; a client that tries again makes another request with
the same key. Each call makes up its own payment id, so a payment is named by the request
that inserted it.

* `tuples` are the entries of the unique index, those of open transactions included:
  ON CONFLICT DO NOTHING waits for such a transaction to end (`IsDecided`) and then inserts
  or reports the conflict. `committed` is the part everybody sees.
* `GetByIdempotencyKey` is the SELECT after a conflict. Its snapshot is taken after the wait
  (READ COMMITTED), which is why it finds the payment; if it did not, IdempotencyConflict
  would be raised (`ConflictIsFound` says it never is). The bodies are not compared: a second
  body with the same key gets the first payment, in the model as in the code.
* `staged` is the outbox row in the session, added by `collect_events` only if the INSERT was
  the handler's own; `Commit` stores both. `Commit(r, FALSE)`: everything is stored and the
  client hears an error.
* `LoseConnection` rolls the transaction back while the handler goes on ("broken"), so that
  another request may win before the first notices. `Crash` is the death of the process.

### PaymentQuery

Each of the two SELECTs sees what is committed when it begins. The tables move as
`PaymentLifecycle` allows, which `PaymentProcessing` and `PaymentSettlement` are shown to
implement. It is checked inside `Pipeline`, which takes its tables from there. An answer
"pending" may already show a finished attempt; an answer with a final status never lacks it.

### WorkerProcess

`phase[p]` follows `main`: engine, broker, the three awaits of `declare_topology`, then the two
loops. `at[p][r]` is what a task does with its connection; what it does inside its transaction
is the matter of the other modules.

* `StartBroker` declares the main queue and consumes from then on; the retry queue, the DLQ and
  the binding come later, and the process may die before. `topology` is in the broker and
  stays. `NothingDropped` holds nevertheless, because whoever publishes has declared it all.
* `Checkout` is the first statement of a unit of work, `PoolTimeout` the end of waiting for a
  connection. A callback that waits too long rejects its message, which counts towards
  RABBITMQ_MAX_RETRIES: a pool that is too small can bring a payment into the DLQ.
* `Claim` waits for the row lock with a connection in hand; who has the lock has a connection too
  (`LockersRun`), so that the wait is never for oneself. The publications of an outbox batch
  hold no connection, the requests of a webhook batch do.
* `Stop` is the cancellation of `main` followed by `broker.stop`, `Exit` the end of the running
  callbacks or of graceful_timeout; `Crash` a kill. In the containers Python is PID 1 and installs
  no handler for SIGTERM, so that a stop of the container ends as `Crash`; both are modelled.

* `SendFails` is a publication into the DLQ that raises; the message is then rejected as after any
  other exception. Database connections that break under a charge are left to `PaymentProcessing`.

### Pipeline

The components in one specification, each by its contract: `Creation`, `Relay`, `Tables`, `Hooks`
and `Reads` are instances of the abstract modules, and a transaction that concerns two of them is
the conjunction of a step of each (`Create` = `Bind` and `Accept`; `Process` = `Settle` and
`Accept`). New are the broker (`acked`, `deadLettered`), the merchant (`heard`) and `givenUp`, a
ghost for what a relay has dropped. `DeadLetter` may come at any time: how it is earned is
`DlqIsExhausted` of `PaymentProcessing`, and a commit whose answer was lost may bring a settled
payment there. Ids for queries come from answers and from webhooks (`Ids`), so that a row is read
only after its payment was accepted: the default row of one that was not is never seen.

To its clients this is `PaymentService`, which knows no outbox, broker, consumer or transaction.
Six steps are seen: `Create` is Accept, `Tell` is Tell, `Process` is Settle, `Hear` is Hear, `Ask`
for an existing payment is Ask, and the second SELECT is Answer; every other step is a stutter. An
answer is the status of the first SELECT with the attempts of the second (`Answers`); the contract
says how far the two may lie apart. "pending" may come with a finished attempt, a final
status always comes with its attempt, and "pending" never comes after a webhook.

### BlueGreenDeploy

`pc[d]` is the next command of one run of the script in `.github/workflows/master.yml`.
Under `set -e` a failing command ends the run where it stands, unless `|| true` follows or it
is not the last of an && list: `nginx -t && nginx -s reload` therefore ends the script if the
reload fails, but not if the test does.

* Detection looks for blue first and for running containers, healthy or not.
* `DisconnectActive` takes away the only network of the old container: with it go the
  published port nginx sends to, and the way to the database. nginx is switched two commands
  later.
* `Failures` are named one by one ("unhealthy", "unready", "config", "reload", "cut", and
  "swallowed"), so that a run can show what one of them alone leads to. "swallowed" is the failure
  of any command that `|| true` follows: `StopAndRemove` of the target (206-207, 219-220), the two
  network commands (233, 236), the stop of the old container (250). The run goes on, or ends, as if
  the command had succeeded, and a container runs on, or is left stopped.
* What a run leaves decides what the next one finds. `End` notes in the ghost `disturbed` the two
  ends the script has no provision for: one within the switch ("switch"), and one that leaves a
  blue container running beside a serving green ("leftover", by `Misleading`), which the next
  detection takes for the active one. So are overlaps and a snippet nginx refused. The properties
  of the script hold as long as `disturbed` is empty. Every other end is no disturbance: before
  the switch by any failure, after a rollback of which one command or both failed, after a success
  whose old green container was not stopped.
* `Overlap`: the workflow has no concurrency group, so two pushes can run the script at once.
* Not modelled: images, migrations, the worker's service, and containers that stop by
  themselves.

## 3. The runs

| Run | Instance | What it shows |
| --- | --- | --- |
| `outbox` | 2 workers, one of them never stopped, 2 messages, batch of 2, limit 2 | exclusive claims, dead only when exhausted, the inductive invariant (true verdicts, budget), fencing, refinement of `AtLeastOnce`; every message gets a verdict |
| `outbox_stop` | 3 workers, a broker that takes everything | violation, see below |
| `payment` | 1 payment announced twice, 3 callbacks, MaxRetries 1, 1 crash | exclusive charges (of callbacks whose transaction stands), agreement of the tables with each other and the gateway (but for "unheard" answers), acked is settled, DLQ, the inductive invariant, refinement of `PaymentLifecycle`; every message is acked or dead-lettered in the end (if the broker takes the copy sometime). Connections to the database break unnoticed, DLQ publications fail without limit |
| `settlement` | 3 calls for one payment, every failure at every await | no claimed payment is refused, the inductive invariant (tables of one call, returned is settled), refinement of `PaymentLifecycle`; every call ends |
| `webhook` | 3 deliveries, one raises, 2 workers, batch of 2, limit 2, 2 faults | no stale object is committed, true verdicts, the inductive invariant (disjoint batches), refinement of `AtLeastOnce` |
| `webhook_live` | 2 deliveries, 2 workers, batch of 1, 1 fault | every delivery gets a verdict |
| `webhook_poison` | 2 deliveries, one raises, 1 worker, no fault | violation, see below |
| `creation` | 3 requests with one key, a refused one with it, one with another key; lost connections and answers, crashes | one payment per key, no IdempotencyConflict, the inductive invariant (one announcement per payment, answers that are stored), refinement of `IdempotentCreation`; every request that reaches the database ends |
| `process` | 1 process with its restarts, 2 callbacks and 2 loops on 2 connections, 1 payment announced twice, MaxRetries 1, 2 stops, crashes or pool timeouts | nothing dropped, the inductive invariant (connections, locks, messages); every message ends (if the broker takes the copy into the DLQ sometime), webhooks go on; no deadlock |
| `pipeline` | 2 POSTs with one key, 1 query, 2 attempts to publish, 1 to send | nobody loses a payment, queries agree with webhooks, the inductive invariant, refinement of `PaymentService` (final statuses come with their attempt); an accepted payment is told, given up or dead-lettered |
| `deploy` | 3 deployments at any time, every failure, swallowed ones included | undisturbed by an overlap, an end within the switch, a blue container left beside a serving green, or a refused configuration: the detected colour is the serving one, service outside the switch, the inductive invariant (each command finds what it relies on, success means served), service after every end; in any case every run ends |
| `deploy_config` | 2 deployments, nginx may refuse its configuration | violation, see below |

CHECK_DEADLOCK is off where the system comes to rest: all messages purged and all workers
stopped, all messages acked, all deliveries settled, all requests answered, all deployments
over. In `outbox` and `process` it is on: a loop that is not stopped always has a next cycle.

**Bounds.** Two messages are needed for a batch of mixed results; two workers for one that
holds an expired lease and one that took the message over, in both directions; a limit of 2
for a retry and an end. Unequal limits (a deployment changes OUTBOX_MAX_ATTEMPTS while the
old process runs) and more workers are left to the proofs, which hold for all of them. One
payment suffices for the processing because callbacks of different payments share no row
and no lock; three callbacks for a zombie, its successor and a duplicate. Three equal
requests are one that holds the key, one that waits, and one that comes after both; the
refused request and the other key show that neither is affected. Statement timeouts are left
out of that run: they would end every wait by themselves, and a timeout reaches no state that
a lost connection, noticed at the next statement, does not reach. Three deployments meet a
first colour, a rollback or another failure, and a successor that has to find its way among what
they left; any two of them may overlap. Three calls of the
handler are one that charges, one that waits for its lock and one that comes after both; more
faults or a longer life reach no new combination, as each call makes its statements once. Two
connections are fewer than the four tasks, so that the pool is used up and somebody waits; the
two messages of one payment make callbacks wait for each other's lock besides. Several worker
processes, which differ from one with its successors in that callbacks of two pools meet at one
row, are left to the proofs. Two POSTs and two publications suffice in `pipeline`, as different
payments meet nowhere but in the answers to a key; a second attempt at a webhook repeats the first
(`HeardIsTrue` is proved for any number). Symmetry is over the workers of `webhook`, which has no
liveness property.

**Fairness.** The outbox loop polls for ever, each publication ends by
RABBITMQ_PUBLISH_TIMEOUT, the service restarts its worker, time passes: weak fairness of
`Start`, of a claim that finds nothing locked and hears its answer, of each publication, of
the marking or its failure, of the purge, of the clock. No fairness is asked of the success
of a publication or a marking, as attempts bound how often they fail. In the consumer a
callback proceeds to its end, and a message that is queued again and again is delivered
sometime (strong, since free callbacks come and go); no success is asked for before the DLQ, as the
rejections are counted and compared with the limit. The last step is another matter: nothing
bounds how often the publication into the DLQ fails, and if it fails for ever the message goes
round for ever. So it is assumed that a broker that is asked again and again takes a copy
(`DlqIsTaken`, strong fairness of `CopyToDlq`; of `SendToDlq` in `process`). `EventuallyHandled` and
`EveryMessageEnds`, and `EventuallyTold` through them, hold under this assumption only. A callback
whose connection is gone fails at its next statement. A call of the handler makes its next statement unless it has to wait for
a lock, and then some other call has it (`settlement`). In `process` the container restarts its
process, and a connection that is given back again and again comes to each task that waits for
one (strong; the pool hands them out in the order of waiting); charges may still fail. In
`pipeline` fairness is what the runs of the parts have shown: every message gets a verdict of
its relay, every publication is acked or dead-lettered. In the webhook worker a rollback counts no attempt, so that
strong fairness of `Commit` is needed: a database that lets the worker come to its commit
again and again does not refuse it every time. A creation handler proceeds to its end: the
statement that waits for a key waits for a transaction that itself waits for nobody
(the run has no "database" failures, so that no timeout ends the wait instead). Each
command of a deployment ends, the wait for health after sixty looks; no container is
assumed to become healthy.

### Where code and documents disagree

* `outbox_stop`. `docs/payments.md:284-285` promises that a message survives the stop of the
  worker during publication and is delivered after the restart. Attempts are counted at the
  claim; two stops (five with the default limit) make the row dead unpublished.
* `webhook_poison`. `deliver_webhooks.py:53-55` says one unavailable URL does not block the
  batch. An exception that is not `httpx.HTTPError` rolls all of it back, every time.
* `deploy_config`. `nginx -t && nginx -s reload` does not end the script if the test fails: it
  goes on to stop the old colour and reports DEPLOY SUCCESS, with nginx still sending to it.

More are visible in the models, though no run is spent on them. `domain/gateway.py:23-26` lets the
gateway raise "so that the caller can record the attempt and retry": the caller retries, but the
rollback takes the attempt's row, so that an attempt is recorded only if the gateway answered. A publication that
outlasts its back-off (5 s against 1 s with the defaults) is due again at once, as the delay
counts from the start of the cycle (`late` in `MarkResults`). `README.md:56` of the sources
speaks of a rotation without downtime, but the old container loses its network before
nginx is switched away from it: this is the exception in `ServedOutsideSwitch`. A failing
`stop ... || true` is swallowed: at line 250 of `master.yml` the script reports DEPLOY SUCCESS with
both colours running, at 219 its rollback leaves the new one running. So does a run that is
cut short once the new container is up. If it is green that is left beside a serving blue, the next
detection is right and removes it; if it is blue beside a serving green, the next run takes
blue for the active one and removes the green one that serves. This is why `ActiveIsServing` and the
others except "leftover". Two runs at once may do the same to each other ("overlap"; no
property of this project says otherwise). A connection to the database that breaks while the
gateway works lets two callbacks charge one payment, and the provider's last answer need not be
the one that is recorded (`broken`, "unheard"); only the provider's own use of the idempotency key,
which `charge` passes on, could help.

## 4. What is proved

The theorems hold for any finite or infinite set of messages and workers, any limits (also
unequal ones), any batch size, any of the failures: the assumptions are only those the
modules state by name (message numbers are naturals, limits are positive, `NoWorker` is no
worker, and so on).

Each module of proofs has the same line: an invariant that is inductive, one lemma per action
that it is kept, and theorems that read the properties off it. The invariant is checked by
the run of its component as well, so that it is known to be true before it is proved.

* **`OutboxProofs`** (`Safety`, `ClaimsAreExclusive`, `ProcessedIsTrue`, `BudgetIsKept`,
  `Refinement`, `Fencing`, `TypeCorrect`). The SQL statements are functions of one row, and
  what each keeps is proved once, row by row (`RowTypes`, `StatementsLoosen`,
  `StatementsResolve`, `StatementsRespectLease`); an action then applies them to all rows.
  `OneClaimPerAttempt` is not inductive: a new claim has to be numbered above every attempt a
  worker still remembers, which is `PublishedWasClaimed`, and the owner a row names has to
  remember the row's own attempt, which is `LeaseMatchesBatch`; with it the guard
  `claimed_by = me` makes `ProcessedWasPublished` true, since the owner has published.
  `Refinement` maps pending and processing to "waiting" and shows every transaction to be a
  step of `AtLeastOnce` or a stutter. `Fencing` is the action property: a leased row is marked
  processed by nobody but its owner, and only the owner takes away a lease that is fresh.
* **`PaymentProcessingProofs`** (`Safety`, `ChargesExcluded`, `TablesAgree`, `NothingLost`,
  `DlqIsEarned`, `LifecycleRefinement`, `TypeCorrect`). What makes the properties inductive is
  `CallbacksAreRight`: what a callback has learnt before an await is still true after it. The
  payment it loaded was as created, the answer it is about to record is the last one the
  gateway gave (nobody else whose transaction stands can be charging, by `ChargesAreExclusive`,
  and what the others hear is "unheard"), what it is about to ack is settled. A connection that
  breaks (`LoseDatabaseStep`) takes the callback out of all this with its lock; from then on it can
  only fail. So `Safety`, `ChargesExcluded` and `TablesAgree` carry the proviso of their
  properties and no other. `CommitFacts` says what the commit does to the tables given all that; it carries
  both `TablesAgree` and the refinement.
* **`WebhookDeliveryProofs`** (`Safety`, `NothingOverwritten`, `VerdictsAreTrue`,
  `Refinement`). `LocksAreBatches` says that a worker with its connection has locked its batch
  and nothing else, so that the batches of two such workers are disjoint: the reason why an
  UPDATE by id alone overwrites nothing. `RequestsAreKnown` bounds workers without a
  connection and abandoned requests by the attempt in the row: they lag behind, so that their
  requests never make a verdict false. In the refinement a repeated request is a stutter.
* **`PaymentCreationProofs`** (`Safety`, `KeysAreUnique`, `AnnouncedOnce`, `NoConflict`,
  `Refinement`). `OnePaymentPerKey` speaks of open transactions as well, and needs
  `HandlersAreRight`: a tuple that is not committed belongs to a handler about to commit, with
  its event staged; a handler that was refused refers to a payment that is committed and so
  stays. One lemma, `RollbackInv`, serves the three ways a transaction can end badly. A
  commit is a step `Bind` or `Tell` of the contract, or a stutter if its answer is lost
  and nothing was inserted.
* **`PaymentSettlementProofs`** (`Safety`, `NothingRefused`, `AnswersAreTrue`, `TablesAgree`,
  `LifecycleRefinement`). `CallIsRight` says for each place in the handler what object, session
  and put-aside version are; the two counts agree because both are told there. `Owns` is what
  a lost connection takes away: the lock belongs to the call that can still commit, and nothing
  is committed beside it. Each lemma shows the call that moves right, and `OthersAreRight` the rest.
* **`WorkerProcessProofs`** (`Safety`, `TopologySuffices`, `ConnectionsComeBack`,
  `NoCircularWait`), for any number of processes and any pool. `NothingDropped` rests on
  `TopologyIsReady`: a message outside the outbox was published by a process that had declared
  everything. `ConnectionsAreHeld` identifies the connections that are out with the tasks inside
  a unit of work, `LockersRun` the locks with the callbacks that charge; `MessagesAreHeld` and
  `TasksHaveProcess` are there so that a crash takes what belongs to its process and no more.
* **`PipelineProofs`**, for any requests, keys, queries and budgets. First the queries with
  nothing around them but the tables (`QuerySafety`, `FinalAnswersAreExplained`): all that is needed
  of the tables is that a final status stays and is committed with its attempt
  (`FinalStatusStays`). Then the whole (`Safety`, `NothingGetsStuck`, `WebhooksAreTrue`,
  `AnswersFollowWebhooks`): `PartsAgree` is what the parts know of each other, `QueriesAgree` what
  a query that knows the outcome will read. There is a lemma for each step, and two for what a step
  of another part leaves alone; the invariant of the queries is not proved again, since every
  step is one of theirs or leaves them alone (`ReadsStep`). `PartsKeepTheirContracts` says so for
  all five: joined in shared transactions, each part still does what its contract says and no more.
  `Refinement` maps the whole to `PaymentService`. It needs the invariant throughout: what is
  in the queues was accepted (`ProcessSettles`), what a webhook tells is the one verdict
  (`HearTells`), whoever asks asks for an accepted payment (`IdsArePayments`), and an answer
  "pending" is not given to who has had a webhook (`ReadAnswers`).
* **`BlueGreenDeployProofs`** (`Safety`, `DetectionIsRight`, `ServiceGoesOn`, `SuccessIsReal`,
  `SerialDeploys`), for any number of deployments and any set of failures. `DeployInv` says, as long as
  nothing has disturbed the script, what each command may rely on: `RunIsRight` relates the colours
  a run has noted, the snippet, what nginx has loaded and both containers at every place of the
  script, `RestIsRight` does so between runs, and `OneAtATime` is what makes the first last until
  the next command. `FailureLeaves` serves all the ways a run can fail: the other colour is
  left alone, so that what served goes on, and the end is either harmless or noted (`EndNotes`). All of
  it, and each of the first four theorems, says nothing of a host that is disturbed (an overlap, an
  end within the switch, blue left beside a serving green, a refused snippet), where two
  runs or two colours may be in any relation. `SerialDeploys` is what the workflow would gain by a concurrency
  group: if runs do not overlap and nothing fails but the health of a new container, no
  run ever disturbs the next one, and every "DEPLOY SUCCESS" is true without a proviso. It needs
  `Tidy`: where no command fails, nothing of the other colour is left when a run ends.

**Only model-checked**: the liveness properties (they need ENABLED and fairness), and the three
violations. Every invariant and action property the passing runs check, and every refinement, is
also a theorem. The proofs say nothing about time: leases and delays are the bits
above. That each part keeps the contract `Pipeline` takes it by is proved in the module of the
part, and that the contracts survive being joined in `Pipeline`. That two detailed modules
joined in one transaction keep both contracts is argued from the code (one session, one commit),
not proved.

## 5. What is not modelled

* Payloads, signatures, mapping, amounts: no property here tells them apart.
* The semaphore of the publisher and the prefetch of the consumer: they only delay steps.
* Loss of messages inside RabbitMQ (its queues and messages are taken to be durable), loss
  of committed rows inside PostgreSQL.
* Two broken connections at once, and the pool's reset of connections that are given back broken.
* DI, module loader, i18n, logging, metrics, health: wiring and observability without
  state that outlives a call.
* Migrations: sequential DDL that never runs beside itself. Two of them matter to rows of an older
  release: 0003 gives outbox rows that had been processed the status 'pending', so that they
  are published again (which the consumer bears); 0005 leaves `finished_at` of terminal rows
  NULL, so that retention never removes them.

## 6. The plan

Done, in this order: `Outbox` with its contract and proofs, since everything after it relies
on at-least-once and on claims; `PaymentProcessing`, where money moves; `WebhookDelivery`;
`PaymentCreation`; `PaymentQuery`; `BlueGreenDeploy`; `PaymentSettlement`, the transaction taken
apart; `WorkerProcess`, start, stop and the pool; `Pipeline`, the whole with its proofs; the proofs
about `BlueGreenDeploy`; `PaymentService`, which `Pipeline` implements.

To come:

1. `WorkerProcess` with two processes as a run, if its states can be brought within reach.
2. The transaction shared by creation and outbox, and that shared by processing and webhooks, in
   detail on both sides.
