--------------------------- MODULE PaymentCreation ---------------------------
(***************************************************************************)
(* POST /payments: CreatePaymentHandler (application/handlers/              *)
(* create_payment.py) with try_insert and get_by_idempotency_key of         *)
(* repositories/payment.py, in the transaction of @transactional.           *)
(*                                                                          *)
(*   idle -> inserting -> [conflicting ->] committing -> over               *)
(*                                                                          *)
(* A request is one call of the endpoint; a client that tries again is      *)
(* another request with the same key.  Every call makes up a payment id of  *)
(* its own, so a payment goes by the request that created it.               *)
(*                                                                          *)
(* The unique index on idempotency_key holds the tuples of open             *)
(* transactions, too: ON CONFLICT DO NOTHING waits for such a transaction   *)
(* to end before it decides.                                                *)
(***************************************************************************)
EXTENDS Naturals

CONSTANTS
  Request, Key,
  KeyOf,      \* KeyOf[r]: the Idempotency-Key of request r
  Acceptable, \* requests whose key and body pass the validation
  Faults,     \* what may go wrong: "database", "connection", "answer", "crash"
  Nobody

ASSUME KeyAssumption == KeyOf \in [Request -> Key]
ASSUME AcceptableAssumption == Acceptable \subseteq Request
ASSUME NobodyAssumption == Nobody \notin Request

VARIABLES
  tuples,     \* tuples of payments, those of open transactions included
  committed,  \* those whose transaction has committed
  outbox,     \* outbox[r]: committed PaymentCreated rows of payment r
  staged,     \* staged[r]: those the session of r has yet to commit
  pc,         \* pc[r]: where the handler of r is
  dto,        \* dto[r]: the payment its answer is made from
  answer      \* answer[r]: what the client of r hears

vars == <<tuples, committed, outbox, staged, pc, dto, answer>>

Answer == {"none", "accepted", "refused", "conflict", "error"}

TypeOK ==
  /\ tuples \subseteq Request
  /\ committed \subseteq Request
  /\ outbox \in [Request -> 0..1]
  /\ staged \in [Request -> 0..1]
  /\ pc \in [Request -> {"idle", "inserting", "conflicting", "committing", "broken", "over"}]
  /\ dto \in [Request -> Request \cup {Nobody}]
  /\ answer \in [Request -> Answer]

Init ==
  /\ tuples = {}
  /\ committed = {}
  /\ outbox = [r \in Request |-> 0]
  /\ staged = [r \in Request |-> 0]
  /\ pc = [r \in Request |-> "idle"]
  /\ dto = [r \in Request |-> Nobody]
  /\ answer = [r \in Request |-> "none"]

InTransaction(r) == pc[r] \in {"inserting", "conflicting", "committing"}

\* Same key, and the transaction is still open.
InDoubt(r) == {s \in tuples \ committed : KeyOf[s] = KeyOf[r]}
Stored(r) == {s \in committed : KeyOf[s] = KeyOf[r]}

Over(r, said) ==
  /\ pc' = [pc EXCEPT ![r] = "over"]
  /\ answer' = [answer EXCEPT ![r] = said]

\* The validation of the header and the body, then of IdempotencyKey and Money.
Receive(r) ==
  /\ pc[r] = "idle"
  /\ IF r \in Acceptable
     THEN pc' = [pc EXCEPT ![r] = "inserting"] /\ UNCHANGED answer
     ELSE Over(r, "refused")
  /\ UNCHANGED <<tuples, committed, outbox, staged, dto>>

\* (variant) no unique index, or a check that does not see open transactions
IsDecidedAtOnce(r) == TRUE
\* The unique index makes the statement wait until it is certain whether the key is free.
IsDecided(r) == InDoubt(r) = {}

InsertWins(r) ==
  /\ tuples' = tuples \cup {r}
  /\ staged' = [staged EXCEPT ![r] = 1]
  /\ dto' = [dto EXCEPT ![r] = r]
  /\ pc' = [pc EXCEPT ![r] = "committing"]

InsertLoses(r) ==
  /\ pc' = [pc EXCEPT ![r] = "conflicting"]
  /\ UNCHANGED <<tuples, staged, dto>>

\* (variant) an open transaction counts as a conflict
TryInsertNoWait(r) ==
  /\ pc[r] = "inserting"
  /\ IF InDoubt(r) \cup Stored(r) = {} THEN InsertWins(r) ELSE InsertLoses(r)
  /\ UNCHANGED <<committed, outbox, answer>>

\* INSERT ... ON CONFLICT DO NOTHING; if it inserted, the event goes into the session.
TryInsert(r) ==
  /\ pc[r] = "inserting"
  /\ IsDecided(r)
  /\ IF Stored(r) = {} THEN InsertWins(r) ELSE InsertLoses(r)
  /\ UNCHANGED <<committed, outbox, answer>>

\* (variant) the session is not closed
NeverRolledBack(r) == UNCHANGED <<tuples, staged>>
\* The session is rolled back and closed, or the server has noticed the connection is gone.
RolledBack(r) ==
  /\ tuples' = tuples \ ({r} \ committed)
  /\ staged' = [staged EXCEPT ![r] = 0]

\* The SELECT after a conflict, which READ COMMITTED gives a snapshot of its own.  If it
\* finds nothing, IdempotencyConflict is raised.
GetByIdempotencyKey(r) ==
  /\ pc[r] = "conflicting"
  /\ IF Stored(r) # {}
     THEN /\ \E s \in Stored(r) : dto' = [dto EXCEPT ![r] = s]
          /\ pc' = [pc EXCEPT ![r] = "committing"]
          /\ UNCHANGED <<tuples, staged, answer>>
     ELSE /\ RolledBack(r)
          /\ Over(r, "conflict")
          /\ UNCHANGED dto
  /\ UNCHANGED <<committed, outbox>>

\* The commit of the decorator, then 202.  Its answer may be lost on the way to the handler or
\* to the client, though everything is stored.
Commit(r, answered) ==
  /\ pc[r] = "committing"
  /\ answered \/ "answer" \in Faults
  /\ committed' = committed \cup (tuples \cap {r})
  /\ outbox' = [outbox EXCEPT ![r] = @ + staged[r]]
  /\ staged' = [staged EXCEPT ![r] = 0]
  /\ Over(r, IF answered THEN "accepted" ELSE "error")
  /\ UNCHANGED <<tuples, dto>>

\* (variant) the exception of the commit is caught and the DTO returned
DatabaseFailsUnnoticed(r) ==
  /\ pc[r] = "broken" \/ (InTransaction(r) /\ "database" \in Faults)
  /\ RolledBack(r)
  /\ Over(r, IF dto[r] = Nobody THEN "error" ELSE "accepted")
  /\ UNCHANGED <<committed, outbox, dto>>

\* A statement (the wait of TryInsert has a timeout) or the commit fails.
DatabaseFails(r) ==
  /\ pc[r] = "broken" \/ (InTransaction(r) /\ "database" \in Faults)
  /\ RolledBack(r)
  /\ Over(r, "error")
  /\ UNCHANGED <<committed, outbox, dto>>

\* The server ends the transaction; the handler notices at its next statement.
LoseConnection(r) ==
  /\ InTransaction(r) /\ "connection" \in Faults
  /\ RolledBack(r)
  /\ pc' = [pc EXCEPT ![r] = "broken"]
  /\ UNCHANGED <<committed, outbox, dto, answer>>

\* The API process dies: nobody hears anything.
Crash(r) ==
  /\ InTransaction(r) /\ "crash" \in Faults
  /\ RolledBack(r)
  /\ Over(r, "none")
  /\ UNCHANGED <<committed, outbox, dto>>

\* A handler runs to its end; the wait of TryInsert ends with the transaction it waits for,
\* which itself waits for nobody.
Step(r) ==
  \/ Receive(r) \/ TryInsert(r) \/ GetByIdempotencyKey(r)
  \/ \E answered \in BOOLEAN : Commit(r, answered)
  \/ DatabaseFails(r)

Next == \E r \in Request : Step(r) \/ LoseConnection(r) \/ Crash(r)

Spec == Init /\ [][Next]_vars

LiveSpec == Spec /\ \A r \in Request : WF_vars(Step(r))

-----------------------------------------------------------------------------
(* What must hold. *)

\* The unique index and ON CONFLICT: however the transactions of equal keys overlap and fail,
\* no two payments share a key, committed or about to be.
OnePaymentPerKey ==
  \A r, s \in tuples \cup committed : KeyOf[r] = KeyOf[s] => r = s

\* collect_events in the transaction of the INSERT: a stored payment is announced exactly once,
\* and nothing else is, so that neither a charge is forgotten nor one invented.
AnnouncedWithPayment ==
  \A r \in Request : outbox[r] = IF r \in committed THEN 1 ELSE 0

\* 202: every caller with one key is told the same payment, and that payment is stored.
AnswerIsStored ==
  \A r \in Request : answer[r] = "accepted" => dto[r] \in Stored(r)

\* Line 61: the payment that refused the INSERT is found by the next statement, so that no
\* client ever sees IdempotencyConflict.
ConflictIsFound == \A r \in Request : answer[r] # "conflict"

\* What a handler has learnt stays true until it commits: the tuple of an open transaction has
\* its handler and its event, the payment that refused an INSERT is stored, and so is the one
\* an answer is made from, if it is not the handler's own.
HandlersAreRight ==
  /\ committed \subseteq tuples
  /\ \A r \in tuples \ committed : pc[r] = "committing"
  /\ \A r \in committed : pc[r] = "over"
  /\ \A r \in Request :
       /\ staged[r] = IF r \in tuples \ committed THEN 1 ELSE 0
       /\ answer[r] # "none" => pc[r] = "over"
       /\ pc[r] = "conflicting" => Stored(r) # {}
       /\ pc[r] = "committing" => dto[r] \in Stored(r) \cup ({r} \cap tuples)

\* Inductive together.
CreationInv ==
  /\ TypeOK
  /\ HandlersAreRight
  /\ OnePaymentPerKey
  /\ AnnouncedWithPayment
  /\ AnswerIsStored
  /\ ConflictIsFound

Contract == INSTANCE IdempotentCreation WITH
  payments <- committed,
  announced <- outbox,
  told <- [r \in Request |-> IF answer[r] = "accepted" THEN dto[r] ELSE Nobody]

ContractSpec == Contract!Spec

\* Nobody waits for ever on a key whose transaction has failed or lost its client.
EventuallyAnswered == \A r \in Request : pc[r] = "inserting" ~> pc[r] = "over"
=============================================================================
