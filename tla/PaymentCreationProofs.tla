------------------------ MODULE PaymentCreationProofs ------------------------
(***************************************************************************)
(* Proofs about PaymentCreation for any requests, keys and failures.        *)
(* CreationInv is inductive: HandlersAreRight says what a handler knows     *)
(* between its statements, and the wait of TryInsert (IsDecided) is what    *)
(* keeps a second open tuple of a key away.                                 *)
(***************************************************************************)
EXTENDS PaymentCreation, TLAPS

\* Initially no payment exists and no handler has begun.
LEMMA InitInv == Init => CreationInv
  BY DEF Init, CreationInv, TypeOK, HandlersAreRight, OnePaymentPerKey,
         AnnouncedWithPayment, AnswerIsStored, ConflictIsFound, Answer

\* Receive changes nothing a payment, an event or another handler depends on.
LEMMA ReceiveInv == ASSUME NEW r \in Request, CreationInv, Receive(r)
                    PROVE CreationInv'
  <1> USE DEF CreationInv, TypeOK, Answer
  <1>1. TypeOK'
    BY DEF Receive, Over
  <1>2. HandlersAreRight'
    BY DEF Receive, Over, HandlersAreRight, Stored
  <1>3. OnePaymentPerKey'
    BY DEF Receive, OnePaymentPerKey
  <1>4. AnnouncedWithPayment'
    BY DEF Receive, AnnouncedWithPayment
  <1>5. AnswerIsStored' /\ ConflictIsFound'
    BY DEF Receive, Over, AnswerIsStored, ConflictIsFound, Stored
  <1> QED
    BY <1>1, <1>2, <1>3, <1>4, <1>5

\* The INSERT: a free key has neither a stored nor an open tuple, a taken one has a stored one.
LEMMA TryInsertInv == ASSUME NEW r \in Request, CreationInv, TryInsert(r)
                      PROVE CreationInv'
  <1> USE DEF CreationInv, TypeOK, Answer
  <1>1. CASE Stored(r) = {}
    <2>1. InsertWins(r) /\ UNCHANGED <<committed, outbox, answer>> /\ pc[r] = "inserting"
      BY <1>1 DEF TryInsert
    <2>2. r \notin tuples
      BY <2>1 DEF HandlersAreRight
    <2>3. \A s \in tuples \cup committed : KeyOf[s] # KeyOf[r]
      BY <1>1 DEF TryInsert, IsDecided, InDoubt, Stored
    <2>4. TypeOK'
      BY <2>1 DEF InsertWins
    <2>5. HandlersAreRight'
      BY <2>1, <2>2 DEF InsertWins, HandlersAreRight, Stored
    <2>6. OnePaymentPerKey'
      BY <2>1, <2>3 DEF InsertWins, OnePaymentPerKey
    <2>7. AnnouncedWithPayment' /\ ConflictIsFound'
      BY <2>1 DEF InsertWins, AnnouncedWithPayment, ConflictIsFound
    <2>8. AnswerIsStored'
      <3> SUFFICES ASSUME NEW q \in Request, answer'[q] = "accepted"
                   PROVE dto'[q] \in Stored(q)'
        BY DEF AnswerIsStored
      <3>1. dto[q] \in Stored(q)
        BY <2>1 DEF AnswerIsStored
      <3>2. CASE q = r
        BY <1>1, <3>1, <3>2
      <3>3. CASE q # r
        BY <2>1, <3>1, <3>3 DEF InsertWins, Stored
      <3> QED
        BY <3>2, <3>3
    <2> QED
      BY <2>4, <2>5, <2>6, <2>7, <2>8
  <1>2. CASE Stored(r) # {}
    <2>1. InsertLoses(r) /\ UNCHANGED <<committed, outbox, answer>> /\ pc[r] = "inserting"
      BY <1>2 DEF TryInsert
    <2>2. TypeOK'
      BY <2>1 DEF InsertLoses
    <2>3. HandlersAreRight'
      BY <1>2, <2>1 DEF InsertLoses, HandlersAreRight, Stored
    <2>4. OnePaymentPerKey' /\ AnnouncedWithPayment' /\ ConflictIsFound' /\ AnswerIsStored'
      BY <2>1 DEF InsertLoses, OnePaymentPerKey, AnnouncedWithPayment, ConflictIsFound,
                  AnswerIsStored, Stored
    <2> QED
      BY <2>2, <2>3, <2>4
  <1> QED
    BY <1>1, <1>2

\* The read after a conflict finds a payment, and answers with it.
LEMMA GetInv == ASSUME NEW r \in Request, CreationInv, GetByIdempotencyKey(r)
                PROVE CreationInv'
  <1> USE DEF CreationInv, TypeOK, Answer
  <1>1. Stored(r) # {}
    BY DEF GetByIdempotencyKey, HandlersAreRight
  <1>2. PICK s \in Stored(r) : dto' = [dto EXCEPT ![r] = s]
    BY <1>1 DEF GetByIdempotencyKey
  <1>3. /\ pc[r] = "conflicting" /\ pc' = [pc EXCEPT ![r] = "committing"]
        /\ UNCHANGED <<tuples, staged, answer, committed, outbox>>
    BY <1>1 DEF GetByIdempotencyKey
  <1>4. TypeOK'
    BY <1>2, <1>3 DEF Stored
  <1>5. HandlersAreRight'
    BY <1>2, <1>3 DEF HandlersAreRight, Stored
  <1>6. OnePaymentPerKey' /\ AnnouncedWithPayment' /\ ConflictIsFound'
    BY <1>3 DEF OnePaymentPerKey, AnnouncedWithPayment, ConflictIsFound
  <1>7. AnswerIsStored'
    BY <1>2, <1>3 DEF AnswerIsStored, Stored
  <1> QED
    BY <1>4, <1>5, <1>6, <1>7

\* The commit stores the tuple of the handler, if it has one, with its event.
LEMMA CommitInv == ASSUME NEW r \in Request, NEW answered \in BOOLEAN,
                          CreationInv, Commit(r, answered)
                   PROVE CreationInv'
  <1> USE DEF CreationInv, TypeOK, Answer
  <1>1. r \notin committed /\ dto[r] \in Stored(r) \cup ({r} \cap tuples)
    BY DEF Commit, HandlersAreRight
  <1>2. outbox[r] = 0 /\ staged[r] = IF r \in tuples THEN 1 ELSE 0
    BY <1>1 DEF AnnouncedWithPayment, HandlersAreRight
  <1>3. TypeOK'
    BY <1>2 DEF Commit, Over
  <1>4. HandlersAreRight'
    BY <1>1 DEF Commit, Over, HandlersAreRight, Stored
  <1>5. OnePaymentPerKey'
    BY DEF Commit, OnePaymentPerKey, HandlersAreRight
  <1>6. AnnouncedWithPayment'
    BY <1>1, <1>2 DEF Commit, AnnouncedWithPayment
  <1>7. AnswerIsStored' /\ ConflictIsFound'
    BY <1>1 DEF Commit, Over, AnswerIsStored, ConflictIsFound, Stored
  <1> QED
    BY <1>3, <1>4, <1>5, <1>6, <1>7

\* A rollback takes away a tuple of r that is not committed, with its event, and nothing else.
LEMMA RollbackInv == ASSUME NEW r \in Request, CreationInv, RolledBack(r),
                            pc[r] \in {"inserting", "conflicting", "committing", "broken"},
                            NEW said \in {"none", "error"},
                            \/ Over(r, said)
                            \/ pc' = [pc EXCEPT ![r] = "broken"] /\ UNCHANGED answer,
                            UNCHANGED <<committed, outbox, dto>>
                     PROVE CreationInv'
  <1> USE DEF CreationInv, TypeOK, Answer
  <1>1. r \notin committed
    BY DEF HandlersAreRight
  <1>2. tuples' = tuples \ {r}
    BY <1>1 DEF RolledBack
  <1>3. TypeOK'
    BY <1>2 DEF RolledBack, Over
  <1>4. HandlersAreRight'
    BY <1>1, <1>2 DEF RolledBack, Over, HandlersAreRight, Stored
  <1>5. OnePaymentPerKey' /\ AnnouncedWithPayment'
    BY <1>2 DEF OnePaymentPerKey, AnnouncedWithPayment
  <1>6. AnswerIsStored' /\ ConflictIsFound'
    BY DEF Over, AnswerIsStored, ConflictIsFound, Stored
  <1> QED
    BY <1>3, <1>4, <1>5, <1>6

\* Every step keeps the invariant.
LEMMA NextInv == CreationInv /\ [Next]_vars => CreationInv'
  <1> SUFFICES ASSUME CreationInv, [Next]_vars
               PROVE CreationInv'
    OBVIOUS
  <1>1. ASSUME NEW r \in Request, Step(r)
        PROVE CreationInv'
    <2>1. CASE DatabaseFails(r)
      BY <2>1, RollbackInv DEF DatabaseFails, InTransaction
    <2> QED
      BY <1>1, <2>1, ReceiveInv, TryInsertInv, GetInv, CommitInv DEF Step
  <1>2. ASSUME NEW r \in Request, LoseConnection(r)
        PROVE CreationInv'
    BY <1>2, RollbackInv DEF LoseConnection, InTransaction
  <1>3. ASSUME NEW r \in Request, Crash(r)
        PROVE CreationInv'
    BY <1>3, RollbackInv DEF Crash, InTransaction
  <1>4. CASE UNCHANGED vars
    BY <1>4 DEF vars, CreationInv, TypeOK, HandlersAreRight, OnePaymentPerKey,
                AnnouncedWithPayment, AnswerIsStored, ConflictIsFound, Stored
  <1> QED
    BY <1>1, <1>2, <1>3, <1>4 DEF Next

\* The invariant of creation holds in every reachable state.
THEOREM Safety == Spec => []CreationInv
  BY InitInv, NextInv, PTL DEF Spec

\* ON CONFLICT DO NOTHING over the unique index: no two payments of one key, stored or about
\* to be, for any number of calls, failures and crashes.
THEOREM KeysAreUnique == Spec => []OnePaymentPerKey
  BY Safety, PTL DEF CreationInv

\* The transactional outbox: a stored payment has exactly one PaymentCreated row.
THEOREM AnnouncedOnce == Spec => []AnnouncedWithPayment
  BY Safety, PTL DEF CreationInv

\* 202 names a stored payment of the caller's key.
THEOREM AnswersAreStored == Spec => []AnswerIsStored
  BY Safety, PTL DEF CreationInv

\* IdempotencyConflict (create_payment.py:61) is raised in no execution.
THEOREM NoConflict == Spec => []ConflictIsFound
  BY Safety, PTL DEF CreationInv

-----------------------------------------------------------------------------
\* The commit binds the key, or tells of the payment it is bound to, or does neither.
LEMMA CommitStep == ASSUME NEW r \in Request, NEW answered \in BOOLEAN,
                           CreationInv, Commit(r, answered)
                    PROVE [Contract!Next]_Contract!vars
  <1> USE DEF CreationInv, TypeOK
  <1> DEFINE told == [q \in Request |-> IF answer[q] = "accepted" THEN dto[q] ELSE Nobody]
  <1>1. r \notin committed /\ dto[r] \in Stored(r) \cup ({r} \cap tuples)
    BY DEF Commit, HandlersAreRight
  <1>2. outbox[r] = 0 /\ staged[r] = IF r \in tuples THEN 1 ELSE 0
    BY <1>1 DEF AnnouncedWithPayment, HandlersAreRight
  <1>3. answer[r] # "accepted"
    BY DEF Commit, HandlersAreRight
  <1>4. told[r] = Nobody /\ told' = [told EXCEPT ![r] = IF answered THEN dto[r] ELSE Nobody]
    BY <1>3 DEF Commit, Over
  <1>5. CASE r \in tuples
    <2>1. \A s \in committed : KeyOf[s] # KeyOf[r]
      BY <1>1, <1>5 DEF OnePaymentPerKey
    <2>2. dto[r] = r
      BY <1>1, <2>1 DEF Stored
    <2>3. committed' = committed \cup {r} /\ outbox' = [outbox EXCEPT ![r] = 1]
      BY <1>2, <1>5 DEF Commit
    <2>4. told' = [told EXCEPT ![r] = r] \/ told' = told
      BY <1>4, <2>2
    <2>5. Contract!Bind(r)
      BY <2>1, <2>3, <2>4 DEF Contract!Bind
    <2> QED
      BY <2>5 DEF Contract!Next
  <1>6. CASE r \notin tuples
    <2>1. committed' = committed /\ outbox' = outbox
      BY <1>2, <1>6 DEF Commit
    <2>2. dto[r] \in committed /\ KeyOf[dto[r]] = KeyOf[r]
      BY <1>1, <1>6 DEF Stored
    <2>3. CASE answered
      <3>1. Contract!Tell(r)
        BY <1>4, <2>1, <2>2, <2>3 DEF Contract!Tell
      <3> QED
        BY <3>1 DEF Contract!Next
    <2>4. CASE ~answered
      BY <1>4, <2>1, <2>4 DEF Contract!vars
    <2> QED
      BY <2>3, <2>4
  <1> QED
    BY <1>5, <1>6

\* A step that stores and announces nothing and answers with no payment is not seen.
LEMMA SilentStep == ASSUME CreationInv, UNCHANGED <<committed, outbox>>,
                           NEW r \in Request, pc[r] # "over",
                           dto' \in [Request -> Request \cup {Nobody}],
                           \A q \in Request \ {r} : dto'[q] = dto[q],
                           NEW said \in Answer \ {"accepted"},
                           \/ answer' = [answer EXCEPT ![r] = said]
                           \/ UNCHANGED answer
                    PROVE UNCHANGED Contract!vars
  <1>1. answer[r] = "none"
    BY DEF CreationInv, HandlersAreRight
  <1>2. answer' \in [Request -> Answer] /\ answer'[r] # "accepted"
    BY <1>1 DEF CreationInv, TypeOK, Answer
  <1>3. \A q \in Request \ {r} : answer'[q] = answer[q]
    BY DEF CreationInv, TypeOK
  <1>4. \A q \in Request : (IF answer'[q] = "accepted" THEN dto'[q] ELSE Nobody)
                         = (IF answer[q] = "accepted" THEN dto[q] ELSE Nobody)
    BY <1>1, <1>2, <1>3
  <1> QED
    BY <1>4 DEF Contract!vars

\* Every step is one of the contract or is not seen.
LEMMA NextStep == CreationInv /\ [Next]_vars => [Contract!Next]_Contract!vars
  <1> SUFFICES ASSUME CreationInv, [Next]_vars
               PROVE [Contract!Next]_Contract!vars
    OBVIOUS
  <1> USE DEF CreationInv, TypeOK, Answer
  <1>1. ASSUME NEW r \in Request, Receive(r)
        PROVE UNCHANGED Contract!vars
    BY <1>1, SilentStep DEF Receive, Over
  <1>2. ASSUME NEW r \in Request, TryInsert(r)
        PROVE UNCHANGED Contract!vars
    <2>1. UNCHANGED <<committed, outbox, answer>> /\ pc[r] = "inserting"
      BY <1>2 DEF TryInsert
    <2>2. dto' \in [Request -> Request \cup {Nobody}] /\ \A q \in Request \ {r} : dto'[q] = dto[q]
      BY <1>2 DEF TryInsert, InsertWins, InsertLoses
    <2> QED
      BY <2>1, <2>2, SilentStep
  <1>3. ASSUME NEW r \in Request, GetByIdempotencyKey(r)
        PROVE UNCHANGED Contract!vars
    <2>1. Stored(r) # {} /\ pc[r] = "conflicting"
      BY <1>3 DEF GetByIdempotencyKey, HandlersAreRight
    <2>2. UNCHANGED <<committed, outbox, answer>>
      BY <1>3, <2>1 DEF GetByIdempotencyKey
    <2>3. dto' \in [Request -> Request \cup {Nobody}] /\ \A q \in Request \ {r} : dto'[q] = dto[q]
      BY <1>3, <2>1 DEF GetByIdempotencyKey, Stored
    <2> QED
      BY <2>1, <2>2, <2>3, SilentStep
  <1>4. ASSUME NEW r \in Request, DatabaseFails(r) \/ LoseConnection(r) \/ Crash(r)
        PROVE UNCHANGED Contract!vars
    <2>1. UNCHANGED <<committed, outbox, dto>> /\ pc[r] # "over"
      BY <1>4 DEF DatabaseFails, LoseConnection, Crash, InTransaction
    <2>2. \E said \in {"none", "error"} :
            answer' = [answer EXCEPT ![r] = said] \/ UNCHANGED answer
      BY <1>4 DEF DatabaseFails, LoseConnection, Crash, Over
    <2> QED
      BY <2>1, <2>2, SilentStep
  <1>5. CASE UNCHANGED vars
    BY <1>5 DEF vars, Contract!vars
  <1> QED
    BY <1>1, <1>2, <1>3, <1>4, <1>5, CommitStep DEF Next, Step

\* Creation implements its contract: a key is bound once, with its one announcement, in one
\* step, and every answer names the payment it is bound to.
THEOREM Refinement == Spec => ContractSpec
  <1>1. Init => Contract!Init
    BY DEF Init, Contract!Init
  <1>2. CreationInv /\ [Next]_vars => [Contract!Next]_Contract!vars
    BY NextStep
  <1> QED
    BY <1>1, <1>2, Safety, PTL DEF Spec, ContractSpec, Contract!Spec
=============================================================================
