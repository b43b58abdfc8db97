---------------------------- MODULE WorkerProcess ----------------------------
(***************************************************************************)
(* The worker process (src/src/runtime/bootstrap/worker_main.py), of which  *)
(* several may run: the order in which it starts, its three kinds of task   *)
(* on one pool of connections (persistence/session.py), the queues it       *)
(* declares, its stop.  What a task does with its transaction is the matter *)
(* of Outbox, PaymentProcessing and WebhookDelivery; here it takes a        *)
(* connection, holds or waits for a row lock, and gives both back.          *)
(*                                                                          *)
(*   down -> engine -> consuming -> retry -> dlq -> running -> stopping     *)
(***************************************************************************)
EXTENDS Integers, FiniteSets

CONSTANTS
  Process,     \* worker processes, each restarted by its container
  Callback,    \* callbacks of the subscriber that may run at once in a process
  Message,     \* publications; one that is repeated is another message
  Payment,
  PaymentOf,   \* PaymentOf[m]: the payment message m announces
  NoOne,
  PoolSize,    \* DB_POOL_SIZE + DB_MAX_OVERFLOW
  MaxRetries,  \* RABBITMQ_MAX_RETRIES
  MaxFaults    \* bound on stops, crashes and waits for the pool that last too long

Loop == {"outbox", "webhook"}
Role == Loop \cup Callback

ASSUME WorkerAssumption ==
  /\ PaymentOf \in [Message -> Payment]
  /\ NoOne \notin Message \cup (Process \X Callback)
  /\ Callback \cap Loop = {}
  /\ IsFiniteSet(Callback)
  /\ PoolSize \in Nat \ {0} /\ MaxRetries \in Nat /\ MaxFaults \in Nat

VARIABLES
  phase,     \* phase[p]: how far process p has started or stopped
  topology,  \* what has been declared in the broker; durable
  at,        \* at[p][r]: what task r of process p does next
  out,       \* out[p]: the tasks that have a connection of p's pool
  lock,      \* lock[x]: the callback whose transaction has locked the row of payment x
  settled,   \* the payments whose outcome is committed
  place,     \* place[m]: where message m is
  held,      \* held[p][c]: the message callback c works on
  rejected,  \* rejected[m]: rejections of m that x-death counts
  faults     \* how many of these there were

broker == <<topology, place, held, rejected>>
database == <<out, lock, settled>>
vars == <<phase, at, faults, broker, database>>

Topology == {"main", "retry", "dlq", "binding"}
Asking == {"claiming", "marking", "asking"}
Connected == {"claimed", "marked", "sending", "connected", "charging"}

\* A loop about to begin a batch: it sleeps, or waits for a connection.
First == [outbox |-> "claiming", webhook |-> "asking"]

Init ==
  /\ phase = [p \in Process |-> "down"]
  /\ topology = {}
  /\ at = [p \in Process |-> [r \in Role |-> "off"]]
  /\ out = [p \in Process |-> {}]
  /\ lock = [x \in Payment |-> NoOne]
  /\ settled = {}
  /\ place = [m \in Message |-> "stored"]
  /\ held = [p \in Process |-> [c \in Callback |-> NoOne]]
  /\ rejected = [m \in Message |-> 0]
  /\ faults = 0

-----------------------------------------------------------------------------
(* The start. *)

\* get_engine, get_sessionmaker: the engine connects when a task first needs it.
GetEngine(p) ==
  /\ phase[p] = "down"
  /\ phase' = [phase EXCEPT ![p] = "engine"]
  /\ UNCHANGED <<at, faults, broker, database>>

\* broker.start: the subscriber declares exchange and main queue and begins to consume.
StartBroker(p) ==
  /\ phase[p] = "engine"
  /\ phase' = [phase EXCEPT ![p] = "consuming"]
  /\ topology' = topology \cup {"main"}
  /\ at' = [at EXCEPT ![p] = [r \in Role |-> IF r \in Callback THEN "idle" ELSE "off"]]
  /\ UNCHANGED <<place, held, rejected, faults, database>>

\* (variant) the loops are gathered while the topology is being declared
GatheredEarly(p, next) ==
  [r \in Role |-> IF r \in Loop /\ at[p][r] = "off" THEN First[r] ELSE at[p][r]]
\* asyncio.gather(outbox_worker.run(), webhook_worker.run()), after declare_topology.
Gathered(p, next) ==
  [r \in Role |-> IF next = "running" /\ r \in Loop THEN First[r] ELSE at[p][r]]

\* One await of declare_topology.
Declare(p, now, object, next) ==
  /\ phase[p] = now
  /\ phase' = [phase EXCEPT ![p] = next]
  /\ topology' = topology \cup {object}
  /\ at' = [at EXCEPT ![p] = Gathered(p, next)]
  /\ UNCHANGED <<place, held, rejected, faults, database>>

DeclareTopology(p) ==
  \/ Declare(p, "consuming", "retry", "retry")
  \/ Declare(p, "retry", "dlq", "dlq")
  \/ Declare(p, "dlq", "binding", "running")

-----------------------------------------------------------------------------
(* The pool. *)

PoolIsFree(p) == Cardinality(out[p]) < PoolSize

Granted == [claiming |-> "claimed", marking |-> "marked"]

\* The first statement of a unit of work, or its wait for a connection.
Checkout(p, r) ==
  /\ at[p][r] \in Asking
  /\ PoolIsFree(p)
  /\ out' = [out EXCEPT ![p] = @ \cup {r}]
  /\ at' = [at EXCEPT ![p][r] =
       IF r = "outbox" THEN Granted[at[p][r]] ELSE IF r = "webhook" THEN "sending" ELSE "connected"]
  /\ UNCHANGED <<phase, lock, settled, broker, faults>>

\* pool_timeout: a callback rejects its message, the results of an outbox batch are not marked.
\* (A loop that wanted to begin a batch goes on wanting to.)
PoolTimeout(p, r) ==
  /\ at[p][r] \in Asking /\ (r \in Callback \/ at[p][r] = "marking")
  /\ ~PoolIsFree(p) /\ faults < MaxFaults
  /\ faults' = faults + 1
  /\ at' = [at EXCEPT ![p][r] = IF r \in Callback THEN "failed" ELSE First[r]]
  /\ UNCHANGED <<phase, broker, database>>

\* (variant) a unit of work that ends by an exception leaves its session open
Kept(p, r) == IF at[p][r] = "charging" THEN out[p] ELSE out[p] \ {r}
\* __aexit__ closes the session, however the unit of work ends.
Returned(p, r) == out[p] \ {r}

\* The unit of work of task r ends, and r goes on to step.
EndUnitOfWork(p, r, step) ==
  /\ out' = [out EXCEPT ![p] = Returned(p, r)]
  /\ at' = [at EXCEPT ![p][r] = step]

-----------------------------------------------------------------------------
(* The loops; an exception within a batch is logged and the next batch comes. *)

\* Step 1 of a batch ends; its publications hold no connection.
Claimed(p) ==
  /\ at[p]["outbox"] = "claimed"
  /\ EndUnitOfWork(p, "outbox", "publishing")
  /\ UNCHANGED <<phase, lock, settled, faults, broker>>

Publish(p, m) ==
  /\ at[p]["outbox"] = "publishing"
  /\ place[m] = "stored"
  /\ place' = [place EXCEPT ![m] = IF "main" \in topology THEN "new" ELSE "dropped"]
  /\ UNCHANGED <<phase, at, faults, topology, held, rejected, database>>

Published(p, r) ==
  /\ r = "outbox" /\ at[p][r] = "publishing"
  /\ at' = [at EXCEPT ![p][r] = "marking"]
  /\ UNCHANGED <<phase, faults, broker, database>>

\* Step 3 of the outbox, or a batch of webhooks with its requests, is committed; or the unit of
\* work is rolled back.
EndBatch(p, r) ==
  /\ r \in Loop /\ at[p][r] \in Connected
  /\ EndUnitOfWork(p, r, First[r])
  /\ UNCHANGED <<phase, lock, settled, faults, broker>>

-----------------------------------------------------------------------------
(* The callbacks. *)

\* A message that has used up its retries goes to the DLQ, without the database.
Deliver(p, c, m) ==
  /\ phase[p] \in {"consuming", "retry", "dlq", "running"}
  /\ c \in Callback /\ at[p][c] = "idle"
  /\ place[m] = "new"
  /\ place' = [place EXCEPT ![m] = "held"]
  /\ held' = [held EXCEPT ![p][c] = m]
  /\ at' = [at EXCEPT ![p][c] = IF rejected[m] < MaxRetries THEN "asking" ELSE "exhausted"]
  /\ UNCHANGED <<phase, topology, rejected, faults, database>>

\* The payment is settled already, or its row is free and is locked: begin_processing waits
\* with a connection in hand.
Claim(p, c) ==
  LET x == PaymentOf[held[p][c]] IN
  /\ c \in Callback /\ at[p][c] = "connected"
  /\ IF x \in settled
     THEN /\ EndUnitOfWork(p, c, "done")
          /\ UNCHANGED lock
     ELSE /\ lock[x] = NoOne
          /\ lock' = [lock EXCEPT ![x] = <<p, c>>]
          /\ at' = [at EXCEPT ![p][c] = "charging"]
          /\ UNCHANGED out
  /\ UNCHANGED <<phase, settled, faults, broker>>

Unlocked(owner) == [x \in Payment |-> IF lock[x] = owner THEN NoOne ELSE lock[x]]

\* (variant) the outcome is recorded in a unit of work of its own, inside the first
CommitNested(p, c) ==
  /\ c \in Callback /\ at[p][c] = "charging"
  /\ PoolIsFree(p)
  /\ settled' = settled \cup {PaymentOf[held[p][c]]}
  /\ lock' = Unlocked(<<p, c>>)
  /\ EndUnitOfWork(p, c, "done")
  /\ UNCHANGED <<phase, faults, broker>>

\* The charge is answered, its outcome recorded and committed in the same unit of work.
Commit(p, c) ==
  /\ c \in Callback /\ at[p][c] = "charging"
  /\ settled' = settled \cup {PaymentOf[held[p][c]]}
  /\ lock' = Unlocked(<<p, c>>)
  /\ EndUnitOfWork(p, c, "done")
  /\ UNCHANGED <<phase, faults, broker>>

\* A statement or the gateway raises: rollback.
RollBack(p, c) ==
  /\ c \in Callback /\ at[p][c] \in {"connected", "charging"}
  /\ lock' = Unlocked(<<p, c>>)
  /\ EndUnitOfWork(p, c, "failed")
  /\ UNCHANGED <<phase, settled, faults, broker>>

\* ack, nack, and the way through the DLQ; the broker drops what it cannot route.
Answer(p, c, step, destination) ==
  /\ c \in Callback /\ at[p][c] = step
  /\ place' = [place EXCEPT ![held[p][c]] = destination]
  /\ held' = [held EXCEPT ![p][c] = NoOne]
  /\ at' = [at EXCEPT ![p][c] = "idle"]
  /\ UNCHANGED <<phase, topology, faults, database>>

Ack(p, c) == Answer(p, c, "done", "acked") /\ UNCHANGED rejected

\* The sum over x-death has no end; it is compared with MaxRetries and nothing else, so that
\* here it stays there.
OneMore(count) == IF count < MaxRetries THEN count + 1 ELSE count

Nack(p, c) ==
  /\ Answer(p, c, "failed", IF {"retry", "binding"} \subseteq topology THEN "retry" ELSE "dropped")
  /\ rejected' = [rejected EXCEPT ![held[p][c]] = OneMore(@)]

SendToDlq(p, c) ==
  /\ Answer(p, c, "exhausted", IF "dlq" \in topology THEN "dlq" ELSE "dropped")
  /\ UNCHANGED rejected

\* The publication into the DLQ raises: the message is rejected like any other and will be
\* tried again, as often as this happens.
SendFails(p, c) ==
  /\ c \in Callback /\ at[p][c] = "exhausted"
  /\ at' = [at EXCEPT ![p][c] = "failed"]
  /\ UNCHANGED <<phase, faults, broker, database>>

\* The retry queue gives the message back to the main queue.
RetryExpires(m) ==
  /\ place[m] = "retry"
  /\ place' = [place EXCEPT ![m] = "new"]
  /\ UNCHANGED <<phase, at, faults, topology, held, rejected, database>>

-----------------------------------------------------------------------------
(* The end. *)

\* main is cancelled: so are the loops, whose units of work are rolled back; broker.stop takes
\* no more messages.
Stop(p) ==
  /\ phase[p] = "running" /\ faults < MaxFaults
  /\ faults' = faults + 1
  /\ phase' = [phase EXCEPT ![p] = "stopping"]
  /\ at' = [at EXCEPT ![p] = [r \in Role |-> IF r \in Loop THEN "off" ELSE at[p][r]]]
  /\ out' = [out EXCEPT ![p] = out[p] \ Loop]
  /\ UNCHANGED <<lock, settled, broker>>

HeldBy(p) == {held[p][c] : c \in Callback}

\* The process is gone, with its transactions; the broker queues what it had not settled.
Gone(p) ==
  /\ phase' = [phase EXCEPT ![p] = "down"]
  /\ at' = [at EXCEPT ![p] = [r \in Role |-> "off"]]
  /\ out' = [out EXCEPT ![p] = {}]
  /\ lock' = [x \in Payment |-> IF lock[x] \in {p} \X Callback THEN NoOne ELSE lock[x]]
  /\ place' = [m \in Message |-> IF m \in HeldBy(p) THEN "new" ELSE place[m]]
  /\ held' = [held EXCEPT ![p] = [c \in Callback |-> NoOne]]
  /\ UNCHANGED <<topology, settled, rejected>>

\* The callbacks are done or graceful_timeout is over, dispose_engine, the end of main.
Exit(p) == phase[p] = "stopping" /\ Gone(p) /\ UNCHANGED faults

\* A start that fails has no finally to go through; a kill asks for none.
Crash(p) ==
  /\ phase[p] # "down" /\ faults < MaxFaults
  /\ Gone(p)
  /\ faults' = faults + 1

Start(p) == GetEngine(p) \/ StartBroker(p) \/ DeclareTopology(p)

Work(p, r) ==
  \/ Published(p, r) \/ EndBatch(p, r)
  \/ Claim(p, r) \/ Commit(p, r)
  \/ Ack(p, r) \/ Nack(p, r) \/ SendToDlq(p, r)

Next ==
  \/ \E p \in Process :
       \/ Start(p) \/ Claimed(p) \/ Stop(p) \/ Exit(p) \/ Crash(p)
       \/ \E r \in Role :
            Work(p, r) \/ Checkout(p, r) \/ PoolTimeout(p, r) \/ RollBack(p, r) \/ SendFails(p, r)
       \/ \E c \in Callback, m \in Message : Deliver(p, c, m)
  \/ \E m \in Message : RetryExpires(m) \/ \E p \in Process : Publish(p, m)

Spec == Init /\ [][Next]_vars

\* The container starts its process again, tasks proceed, a connection that is given back again
\* and again comes to each that waits, a queued message to a callback.  The code does not bound
\* how often the copy into the DLQ fails: it is assumed that the broker, asked again and again, takes
\* one.
Fairness ==
  /\ \A p \in Process :
       /\ WF_vars(Start(p) \/ Exit(p))
       /\ \A r \in Role : SF_vars(Work(p, r) \/ Checkout(p, r))
  /\ SF_vars(\E p \in Process : Claimed(p))
  /\ SF_vars(\E p \in Process, c \in Callback : SendToDlq(p, c))
  /\ \A m \in Message :
       /\ WF_vars(RetryExpires(m))
       /\ SF_vars(\E p \in Process : Publish(p, m))
       /\ SF_vars(\E p \in Process, c \in Callback : Deliver(p, c, m))

LiveSpec == Spec /\ Fairness

-----------------------------------------------------------------------------
(* What must hold. *)

\* A process consumes before it has declared where rejected messages go, and may die in
\* between; still the broker never meets a message that it cannot route.
NothingDropped == \A m \in Message : place[m] # "dropped"

Declared ==
  [down |-> {}, engine |-> {}, consuming |-> {"main"}, retry |-> {"main", "retry"},
   dlq |-> {"main", "retry", "dlq"}, running |-> Topology, stopping |-> Topology]

\* Only a process that has declared everything publishes, and what is declared stays.
TopologyIsReady ==
  /\ \A p \in Process : Declared[phase[p]] \subseteq topology
  /\ (\E m \in Message : place[m] # "stored") => topology = Topology

\* The connections that are out are those of tasks inside a unit of work, at most one each and
\* no more than the pool has; none outlives its process.
ConnectionsAreHeld ==
  \A p \in Process :
    /\ out[p] = {r \in Role : at[p][r] \in Connected}
    /\ Cardinality(out[p]) <= PoolSize

\* Whoever has locked a row has its connection too and waits for nothing: the waits for a
\* connection and for a lock make no circle.
LockersRun ==
  \A x \in Payment, p \in Process, c \in Callback :
    lock[x] = <<p, c>> <=> at[p][c] = "charging" /\ PaymentOf[held[p][c]] = x

\* A message that has left the queues unanswered is worked on by exactly one callback, and each
\* callback at work has one.
MessagesAreHeld ==
  /\ \A m \in Message : place[m] = "held" => \E p \in Process, c \in Callback : held[p][c] = m
  /\ \A p \in Process, c \in Callback :
       /\ at[p][c] \in {"off", "idle"} <=> held[p][c] = NoOne
       /\ held[p][c] # NoOne => place[held[p][c]] = "held"
  /\ \A p, q \in Process, c, d \in Callback :
       held[p][c] = held[q][d] /\ held[p][c] # NoOne => p = q /\ c = d

\* Tasks are there in the phases of their process.
TasksHaveProcess ==
  \A p \in Process :
    /\ \A c \in Callback : at[p][c] = "off" <=> phase[p] \in {"down", "engine"}
    /\ \A r \in Loop : at[p][r] = "off" <=> phase[p] # "running"

StepsOf(r) ==
  {"off"} \cup
  IF r = "outbox" THEN {"claiming", "claimed", "publishing", "marking", "marked"}
  ELSE IF r = "webhook" THEN {"asking", "sending"}
  ELSE {"idle", "asking", "connected", "charging", "done", "failed", "exhausted"}
Step == UNION {StepsOf(r) : r \in Role}

TasksAreTyped ==
  /\ at \in [Process -> [Role -> Step]]
  /\ \A p \in Process, r \in Role : at[p][r] \in StepsOf(r)

TypeOK ==
  /\ TasksAreTyped
  /\ phase \in [Process ->
       {"down", "engine", "consuming", "retry", "dlq", "running", "stopping"}]
  /\ topology \subseteq Topology
  /\ out \in [Process -> SUBSET Role]
  /\ lock \in [Payment -> (Process \X Callback) \cup {NoOne}]
  /\ settled \subseteq Payment
  /\ place \in [Message -> {"stored", "new", "held", "retry", "acked", "dlq", "dropped"}]
  /\ held \in [Process -> [Callback -> Message \cup {NoOne}]]
  /\ rejected \in [Message -> Nat]
  /\ faults \in 0..MaxFaults

\* Inductive.
ProcessInv ==
  /\ TypeOK /\ NothingDropped /\ TopologyIsReady
  /\ ConnectionsAreHeld /\ LockersRun /\ MessagesAreHeld /\ TasksHaveProcess

\* Every message is acked or dead-lettered in the end, though tasks share the pool and hold on
\* to connections while they wait for the gateway or for each other's locks.  (The last step,
\* the copy into the DLQ, succeeds sometime by assumption.)
EveryMessageEnds == \A m \in Message : <>(place[m] \in {"acked", "dlq"})

\* A process that stays up goes on delivering webhooks: the callbacks do not keep the pool.
WebhooksGoOn ==
  \A p \in Process : []<>(phase[p] # "running" \/ at[p]["webhook"] = "sending")
=============================================================================
