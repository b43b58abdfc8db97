----------------------- MODULE PaymentSettlementProofs -----------------------
(***************************************************************************)
(* SettlementInv is inductive, for any set of calls.  What the lemmas about *)
(* steps share is that the call that moves is the only one to disturb: the  *)
(* session of another call is its own, and another call cannot own the      *)
(* payment when this one commits.                                           *)
(***************************************************************************)
EXTENDS PaymentSettlement, FiniteSetTheorems, TLAPS

\* NextNumber: the first attempt has number 1.
LEMMA FirstNumber == NextNumber({}) = 1
  BY DEF NextNumber

\* succeed_attempt, fail_attempt, and the UPDATE by id, on the one attempt there is.
LEMMA EndedAttempt ==
  ASSUME NEW h, NEW before, NEW after
  PROVE  Ended(Attempted(h, before), h, after) = Attempted(h, after)
  BY DEF Ended, Attempted

\* begin_attempt on a payment without attempts.
LEMMA BegunAttempt ==
  ASSUME NEW h
  PROVE  {Started(NewAttempt(h, {}))} = Attempted(h, "processing")
  BY FirstNumber DEF Started, NewAttempt, Attempted

\* The attempt that is processing may end either way.
LEMMA AttemptMayEnd ==
  ASSUME NEW h \in Handler, NEW result \in Outcome,
         Is(h, "processing", 1, Attempted(h, "processing"))
  PROVE  MayEnd(object[h], h, result) /\ MayBecome(object[h], result)
<1>1. object[h].status = "processing"
  BY DEF Is
<1>2. object[h].attempts = {[id |-> h, number |-> 1, status |-> "processing"]}
  BY DEF Is, Attempted
<1>3. result \in Transitions["processing"] /\ result \in AttemptTransitions["processing"]
  BY DEF Transitions, AttemptTransitions, Outcome
<1>4. \E a \in object[h].attempts : a.id = h
  BY <1>2
<1>5. \A a \in object[h].attempts : a.status = "processing"
  BY <1>2
<1> QED
  BY <1>1, <1>3, <1>4, <1>5 DEF MayEnd, MayBecome

\* What CallIsRight says of a call depends on its own memory and, if it found the payment
\* settled, on the row.
LEMMA OthersAreRight ==
  ASSUME NEW h \in Handler, TypeOK, CallIsRight(h),
         pc'[h] = pc[h], object'[h] = object[h], expected'[h] = expected[h],
         session'[h] = session[h] \/ session'[h] = [session[h] EXCEPT !.connected = FALSE],
         outcome'[h] = outcome[h],
         row.status \in Outcome => row'.status \in Outcome
  PROVE  CallIsRight(h)'
<1>1. /\ session'[h].row = session[h].row
      /\ session'[h].flushed = session[h].flushed
      /\ session'[h].unflushed = session[h].unflushed
      /\ session'[h].webhooks = session[h].webhooks
  BY DEF TypeOK
<1>2. \A r, f, u, w : Wrote(h, r, f, u, w) => Wrote(h, r, f, u, w)'
  BY <1>1 DEF Wrote
<1>3. \A s, v, known : Is(h, s, v, known) => Is(h, s, v, known)'
  BY DEF Is
<1> QED
  BY <1>2, <1>3 DEF CallIsRight, Versioned, Attempted, Created

\* A step of h that commits nothing: the rest of the invariant follows from what h itself becomes
\* and from what it does with the lock.
LEMMA Frame ==
  ASSUME SettlementInv, NEW h \in Handler, TypeOK', UNCHANGED tables,
         \A g \in Handler \ {h} :
           /\ pc'[g] = pc[g] /\ object'[g] = object[g] /\ expected'[g] = expected[g]
           /\ session'[g] = session[g] /\ outcome'[g] = outcome[g],
         CallIsRight(h)',
         outcome'[h] \notin {"conflict", "invalid", "not_pending"},
         pc'[h] = "ended" => outcome'[h] = "raised",
         \/ lock' = lock /\ (Owns(h)' <=> Owns(h))
         \/ lock' = Unlocked(h) /\ ~Owns(h)'
         \/ lock = NoHandler /\ lock' = h /\ Owns(h)' /\ Fresh
  PROVE  SettlementInv'
<1>1. \A g \in Handler \ {h} : Owns(g)' <=> Owns(g)
  BY DEF Owns
<1>2. \A g \in Handler \ {h} : lock' = g <=> lock = g
  BY NullAssumption DEF Unlocked, TypeOK, SettlementInv
<1>3. \A g \in Handler : lock' = g <=> Owns(g)'
  <2>1. lock = h <=> Owns(h)
    BY DEF SettlementInv
  <2>2. lock' = h <=> Owns(h)'
    BY <2>1, NullAssumption DEF Unlocked
  <2>3. ASSUME NEW g \in Handler, g # h
        PROVE  lock' = g <=> Owns(g)'
    BY <1>1, <1>2, <2>3 DEF SettlementInv
  <2> QED
    BY <2>2, <2>3
<1>4. Fresh' <=> Fresh
  BY DEF Fresh, tables
<1>5. lock' # NoHandler => Fresh'
  BY <1>4 DEF SettlementInv, Unlocked
<1>6. TablesAreOneCalls'
  <2>1. TablesAreOneCalls
    BY DEF SettlementInv
  <2>2. \A g, result : SettledBy(g, result) => SettledBy(g, result)'
    BY DEF SettledBy, tables
  <2> QED
    BY <2>1, <2>2, <1>4 DEF TablesAreOneCalls
<1>7. ASSUME NEW g \in Handler PROVE CallIsRight(g)'
  <2>1. CASE g = h
    BY <2>1
  <2>2. CASE g # h
    <3>1. TypeOK /\ CallIsRight(g)
      BY DEF SettlementInv
    <3> QED
      BY <2>2, <3>1, OthersAreRight DEF tables
  <2> QED
    BY <2>1, <2>2
<1>8. NeverRefused'
  BY DEF NeverRefused, SettlementInv
<1>9. ReturnedIsSettled'
  <2>1. ReturnedIsSettled
    BY DEF SettlementInv
  <2> QED
    BY <2>1 DEF ReturnedIsSettled, tables
<1> QED
  BY <1>3, <1>5, <1>6, <1>7, <1>8, <1>9 DEF SettlementInv

\* The ways a call ends without an answer to the consumer.
LEMMA RaiseInv ==
  ASSUME SettlementInv, NEW h \in Handler, Raise(h, "raised")
  PROVE  SettlementInv'
<1>1. TypeOK'
  BY DEF SettlementInv, TypeOK, Raise, Unlocked, tables
<1>2. pc'[h] = "ended" /\ outcome'[h] = "raised"
  BY DEF SettlementInv, TypeOK, Raise
<1>3. CallIsRight(h)' /\ ~Owns(h)'
  BY <1>2 DEF CallIsRight, Owns
<1>4. \A g \in Handler \ {h} :
        /\ pc'[g] = pc[g] /\ object'[g] = object[g] /\ expected'[g] = expected[g]
        /\ session'[g] = session[g] /\ outcome'[g] = outcome[g]
  BY DEF SettlementInv, TypeOK, Raise
<1> QED
  BY <1>1, <1>2, <1>3, <1>4, Frame DEF Raise

LEMMA FailInv ==
  ASSUME SettlementInv, NEW h \in Handler, Fail(h)
  PROVE  SettlementInv'
  BY RaiseInv DEF Fail

LEMMA LoseConnectionInv ==
  ASSUME SettlementInv, NEW h \in Handler, LoseConnection(h)
  PROVE  SettlementInv'
<1>1. TypeOK'
  BY DEF SettlementInv, TypeOK, LoseConnection, tables
<1>2. session'[h] = [session[h] EXCEPT !.connected = FALSE] /\ ~session'[h].connected
  BY DEF SettlementInv, TypeOK, LoseConnection
<1>3. TypeOK /\ CallIsRight(h)
  BY DEF SettlementInv
<1>4. CallIsRight(h)'
  BY <1>2, <1>3, OthersAreRight DEF LoseConnection, tables
<1>5. \A g \in Handler \ {h} : session'[g] = session[g]
  BY DEF SettlementInv, TypeOK, LoseConnection
<1>6. ~Owns(h)' /\ lock' = Unlocked(h)
  BY <1>2 DEF Owns, LoseConnection, Unlocked
<1>7. outcome'[h] \notin {"conflict", "invalid", "not_pending"} /\ pc'[h] # "ended"
  BY DEF SettlementInv, NeverRefused, LoseConnection
<1> QED
  BY <1>1, <1>4, <1>5, <1>6, <1>7, Frame DEF LoseConnection

\* What the invariant says of the row: as created, or settled.
LEMMA RowIs ==
  ASSUME SettlementInv
  PROVE  /\ row = Created \/ row.status \in Outcome
         /\ row \in Version
         /\ Created.status = "pending" /\ Created.version = 0
  BY DEF SettlementInv, TablesAreOneCalls, Fresh, SettledBy, Created, Outcome, Version, Status

LEMMA ReturnEarlyInv ==
  ASSUME SettlementInv, NEW h \in Handler, NEW what \in {"already_terminal", "claim_conflict"},
         pc[h] \in {"received", "claiming"}, row.status \in Outcome, ReturnEarly(h, what)
  PROVE  SettlementInv'
<1>1. TypeOK'
  BY DEF SettlementInv, TypeOK, ReturnEarly, tables
<1>2. pc'[h] = "committing" /\ outcome'[h] = what
  BY DEF SettlementInv, TypeOK, ReturnEarly
<1>3. CallIsRight(h)'
  <2>1. Wrote(h, Created, {}, {}, {})'
    BY DEF SettlementInv, CallIsRight, Wrote, ReturnEarly, Created
  <2> QED
    BY <1>2, <2>1 DEF CallIsRight, ReturnEarly, tables
<1>4. ~Owns(h) /\ ~Owns(h)'
  BY <1>2 DEF Owns, Outcome
<1>5. \A g \in Handler \ {h} : pc'[g] = pc[g] /\ outcome'[g] = outcome[g]
  BY DEF SettlementInv, TypeOK, ReturnEarly
<1> QED
  BY <1>1, <1>2, <1>3, <1>4, <1>5, Frame DEF ReturnEarly

LEMMA GetInv ==
  ASSUME SettlementInv, NEW h \in Handler, Get(h)
  PROVE  SettlementInv'
<1>1. CASE row.status = "pending"
  <2>1. row = Created
    BY <1>1, RowIs DEF Outcome
  <2>2. /\ pc' = [pc EXCEPT ![h] = "claiming"]
        /\ expected' = [expected EXCEPT ![h] = row]
        /\ object' = [object EXCEPT ![h] = Marked(Loaded(row), "processing")]
        /\ UNCHANGED <<tables, lock, session, outcome>>
    BY <1>1 DEF Get
  <2>3. Marked(Loaded(row), "processing") =
          [status |-> "processing", version |-> 1, attempts |-> {}]
    BY <2>1 DEF Marked, Loaded, Created
  <2>4. TypeOK'
    BY <2>1, <2>2, <2>3, RowIs DEF SettlementInv, TypeOK, tables, Status
  <2>5. pc'[h] = "claiming" /\ expected'[h] = Created /\ Is(h, "processing", 1, {})'
    BY <2>1, <2>2, <2>3 DEF SettlementInv, TypeOK, Is
  <2>6. outcome'[h] = "none" /\ Wrote(h, Created, {}, {}, {})'
    BY <2>2 DEF Get, SettlementInv, CallIsRight, Wrote, Created
  <2>7. CallIsRight(h)'
    BY <2>5, <2>6 DEF CallIsRight, Created
  <2>8. ~Owns(h) /\ ~Owns(h)'
    BY <2>5 DEF Owns, Get
  <2>9. \A g \in Handler \ {h} :
          pc'[g] = pc[g] /\ object'[g] = object[g] /\ expected'[g] = expected[g]
    BY <2>2 DEF SettlementInv, TypeOK
  <2> QED
    BY <2>2, <2>4, <2>5, <2>6, <2>7, <2>8, <2>9, Frame
<1>2. CASE row.status # "pending"
  BY <1>2, RowIs, ReturnEarlyInv DEF Get
<1> QED
  BY <1>1, <1>2

LEMMA BeginProcessingInv ==
  ASSUME SettlementInv, NEW h \in Handler, BeginProcessing(h)
  PROVE  SettlementInv'
<1>1. lock # h
  BY NullAssumption DEF BeginProcessing
<1>2. expected[h] = Created /\ Is(h, "processing", 1, {}) /\ Wrote(h, Created, {}, {}, {})
      /\ outcome[h] = "none"
  BY DEF BeginProcessing, SettlementInv, CallIsRight
<1>3. CASE Matches(h)
  <2>1. row = Created
    BY <1>1, <1>2, <1>3 DEF Matches, Seen
  <2>2. Fresh
    BY <2>1, RowIs DEF SettlementInv, TablesAreOneCalls, SettledBy, Created, Outcome
  <2>3. Claim(h)
    BY <1>3 DEF BeginProcessing
  <2>4. Updated(row, "processing") = Versioned("processing", 1)
    BY <2>1 DEF Updated, Versioned, Created
  <2>5. TypeOK'
    <3>1. Versioned("processing", 1) \in Version
      BY DEF Versioned, Version, Status
    <3>2. session' = [session EXCEPT ![h].row = Versioned("processing", 1)]
      BY <2>3, <2>4 DEF Claim
    <3>3. session' \in [Handler ->
            [connected : BOOLEAN, row : Version, flushed : SUBSET Attempt,
             unflushed : SUBSET Attempt, webhooks : SUBSET Delivery]]
      BY <3>1, <3>2 DEF SettlementInv, TypeOK
    <3>4. lock' \in Handler \cup {NoHandler} /\ pc' = [pc EXCEPT ![h] = "claimed"]
      BY <2>3 DEF Claim
    <3> QED
      BY <2>3, <3>3, <3>4 DEF SettlementInv, TypeOK, Claim, tables
  <2>6. /\ session'[h].row = Versioned("processing", 1) /\ session'[h].flushed = {}
        /\ session'[h].unflushed = {} /\ session'[h].webhooks = {}
        /\ session'[h].connected
    BY <1>2, <2>3, <2>4 DEF SettlementInv, TypeOK, Claim, Wrote, BeginProcessing
  <2>7. pc'[h] = "claimed" /\ Is(h, "processing", 1, {})' /\ outcome'[h] = "none"
    BY <1>2, <2>3 DEF SettlementInv, TypeOK, Claim, Is
  <2>8. CallIsRight(h)'
    BY <2>6, <2>7 DEF CallIsRight, Wrote, Versioned
  <2>9. lock = NoHandler /\ lock' = h /\ Owns(h)'
    BY <2>3, <2>6, <2>7 DEF Owns, BeginProcessing, Claim
  <2>10. \A g \in Handler \ {h} : pc'[g] = pc[g] /\ session'[g] = session[g]
    BY <2>3 DEF SettlementInv, TypeOK, Claim
  <2> QED
    BY <2>2, <2>3, <2>5, <2>7, <2>8, <2>9, <2>10, Frame DEF Claim
<1>4. CASE ~Matches(h)
  <2>1. row.status \in Outcome
    BY <1>1, <1>2, <1>4, RowIs DEF Matches, Seen
  <2> QED
    BY <1>4, <2>1, ReturnEarlyInv DEF BeginProcessing
<1> QED
  BY <1>3, <1>4

\* The call that owns the payment finds the tables as the creation left them.
LEMMA OwnerIsFirst ==
  ASSUME SettlementInv, NEW h \in Handler, Owns(h)
  PROVE  lock = h /\ Fresh
  BY NullAssumption DEF SettlementInv

LEMMA AttemptedType ==
  ASSUME NEW h \in Handler, NEW status \in Status
  PROVE  Attempted(h, status) \in SUBSET Attempt
  BY DEF Attempted, Attempt

LEMMA BeginAttemptInv ==
  ASSUME SettlementInv, NEW h \in Handler, BeginAttempt(h)
  PROVE  SettlementInv'
<1> DEFINE known == attempts \cup session[h].flushed
           begun == Started(NewAttempt(h, known))
<1>1. Owns(h) /\ pc[h] = "claimed"
  BY DEF Owns, BeginAttempt
<1>2. /\ Is(h, "processing", 1, {}) /\ Wrote(h, Versioned("processing", 1), {}, {}, {})
      /\ outcome[h] = "none"
  BY <1>1 DEF SettlementInv, CallIsRight
<1>3. known = {}
  BY <1>1, <1>2, OwnerIsFirst DEF Fresh, Wrote
<1>4. {begun} = Attempted(h, "processing")
  BY <1>3, BegunAttempt
<1>5. /\ object' = [object EXCEPT ![h].attempts = Attempted(h, "processing")]
      /\ session' = [session EXCEPT ![h].unflushed = Attempted(h, "processing")]
      /\ pc' = [pc EXCEPT ![h] = "charging"]
      /\ UNCHANGED <<tables, lock, expected, outcome>>
  <2>1. object[h].status = "processing" /\ session[h].unflushed = {}
    BY <1>2 DEF Is, Wrote
  <2>2. known \cup {begun} = Attempted(h, "processing")
        /\ session[h].unflushed \cup {begun} = Attempted(h, "processing")
    BY <2>1, <1>3, <1>4
  <2> HIDE DEF known, begun
  <2>3. /\ object' = [object EXCEPT ![h].attempts = known \cup {begun}]
        /\ session' = [session EXCEPT ![h].unflushed = @ \cup {begun}]
        /\ pc' = [pc EXCEPT ![h] = "charging"]
        /\ UNCHANGED <<tables, lock, expected, outcome>>
    BY <2>1 DEF BeginAttempt, known, begun
  <2> QED
    BY <2>2, <2>3
<1>6. Attempted(h, "processing") \in SUBSET Attempt
  BY AttemptedType DEF Status
<1>7. TypeOK'
  <2>1. object' \in [Handler -> [status : Status, version : Nat, attempts : SUBSET Attempt]]
    BY <1>5, <1>6 DEF SettlementInv, TypeOK
  <2>2. session' \in [Handler ->
          [connected : BOOLEAN, row : Version, flushed : SUBSET Attempt,
           unflushed : SUBSET Attempt, webhooks : SUBSET Delivery]]
    BY <1>5, <1>6 DEF SettlementInv, TypeOK
  <2> QED
    BY <1>5, <2>1, <2>2 DEF SettlementInv, TypeOK, tables
<1>8. /\ pc'[h] = "charging" /\ outcome'[h] = "none"
      /\ Is(h, "processing", 1, Attempted(h, "processing"))'
      /\ Wrote(h, Versioned("processing", 1), {}, Attempted(h, "processing"), {})'
      /\ session'[h].connected
  BY <1>2, <1>5, <1>1 DEF SettlementInv, TypeOK, Is, Wrote, Owns, Versioned, Attempted
<1>9. CallIsRight(h)'
  BY <1>8 DEF CallIsRight, Versioned, Attempted
<1>10. Owns(h)'
  BY <1>8 DEF Owns
<1>11. \A g \in Handler \ {h} :
         pc'[g] = pc[g] /\ object'[g] = object[g] /\ session'[g] = session[g]
  BY <1>5 DEF SettlementInv, TypeOK
<1> QED
  BY <1>1, <1>5, <1>7, <1>8, <1>9, <1>10, <1>11, Frame

LEMMA ChargeInv ==
  ASSUME SettlementInv, NEW h \in Handler, NEW result \in Outcome, Charge(h, result)
  PROVE  SettlementInv'
<1>1. /\ Is(h, "processing", 1, Attempted(h, "processing")) /\ outcome[h] = "none"
      /\ Wrote(h, Versioned("processing", 1), {}, Attempted(h, "processing"), {})
  BY DEF SettlementInv, CallIsRight, Charge
<1>2. Marked(AttemptEnded(object[h], h, result), result) =
        [status |-> result, version |-> 2, attempts |-> Attempted(h, result)]
  <2>1. Ended(object[h].attempts, h, result) = Attempted(h, result)
    BY <1>1, EndedAttempt DEF Is
  <2>2. AttemptEnded(object[h], h, result).version = 1
    BY <1>1 DEF AttemptEnded, Is, SettlementInv, TypeOK
  <2>3. AttemptEnded(object[h], h, result).attempts = Attempted(h, result)
    BY <2>1 DEF AttemptEnded, SettlementInv, TypeOK
  <2> QED
    BY <2>2, <2>3 DEF Marked
<1>3. /\ expected' = [expected EXCEPT ![h] = Versioned("processing", 1)]
      /\ object' = [object EXCEPT
           ![h] = [status |-> result, version |-> 2, attempts |-> Attempted(h, result)]]
      /\ pc' = [pc EXCEPT ![h] = "finalizing"]
      /\ UNCHANGED <<tables, lock, session, outcome>>
  <2>1. MayEnd(object[h], h, result) /\ MayBecome(object[h], result)
    BY <1>1, AttemptMayEnd
  <2>2. object[h].status = "processing" /\ object[h].version = 1
    BY <1>1 DEF Is
  <2>3. /\ expected' = [expected EXCEPT
             ![h] = [status |-> object[h].status, version |-> object[h].version]]
        /\ object' = [object EXCEPT
             ![h] = Marked(AttemptEnded(object[h], h, result), result)]
        /\ pc' = [pc EXCEPT ![h] = "finalizing"]
        /\ UNCHANGED <<tables, lock, session, outcome>>
    BY <2>1 DEF Charge
  <2>4. [status |-> object[h].status, version |-> object[h].version] = Versioned("processing", 1)
    BY <2>2 DEF Versioned
  <2> QED
    BY <1>2, <2>3, <2>4
<1>4. Attempted(h, result) \in SUBSET Attempt /\ result \in Status
  BY AttemptedType DEF Status
<1>5. TypeOK'
  <2>1. Versioned("processing", 1) \in Version
    BY DEF Versioned, Version, Status
  <2>2. expected' \in [Handler -> Version]
    BY <1>3, <2>1 DEF SettlementInv, TypeOK
  <2>3. object' \in [Handler -> [status : Status, version : Nat, attempts : SUBSET Attempt]]
    BY <1>3, <1>4 DEF SettlementInv, TypeOK
  <2> QED
    BY <1>3, <2>2, <2>3 DEF SettlementInv, TypeOK, tables
<1>6. /\ pc'[h] = "finalizing" /\ outcome'[h] = "none" /\ object'[h].status = result
      /\ Is(h, result, 2, Attempted(h, result))'
      /\ expected'[h] = Versioned("processing", 1)
      /\ Wrote(h, Versioned("processing", 1), {}, Attempted(h, "processing"), {})'
  BY <1>1, <1>3 DEF SettlementInv, TypeOK, Is, Wrote, Versioned, Attempted
<1>7. CallIsRight(h)'
  BY <1>6 DEF CallIsRight, Versioned, Attempted
<1>8. lock' = lock /\ (Owns(h)' <=> Owns(h))
  BY <1>3, <1>6 DEF Owns, Charge
<1>9. \A g \in Handler \ {h} :
        pc'[g] = pc[g] /\ object'[g] = object[g] /\ expected'[g] = expected[g]
  BY <1>3 DEF SettlementInv, TypeOK
<1> QED
  BY <1>3, <1>5, <1>6, <1>7, <1>8, <1>9, Frame

\* Autoflush moves what was added to what is sent, and touches nothing else.
LEMMA FlushedIs ==
  ASSUME TypeOK, NEW h \in Handler
  PROVE  /\ Flushed(h).connected = session[h].connected /\ Flushed(h).row = session[h].row
         /\ Flushed(h).flushed = session[h].flushed \cup session[h].unflushed
         /\ Flushed(h).unflushed = {} /\ Flushed(h).webhooks = session[h].webhooks
         /\ Flushed(h) \in [connected : BOOLEAN, row : Version, flushed : SUBSET Attempt,
                            unflushed : SUBSET Attempt, webhooks : SUBSET Delivery]
  BY DEF TypeOK, Flushed

LEMMA FinalizeInv ==
  ASSUME SettlementInv, NEW h \in Handler, Finalize(h)
  PROVE  SettlementInv'
<1> DEFINE result == object[h].status
           new == [Flushed(h) EXCEPT !.row = Updated(session[h].row, result)]
<1>1. Owns(h) /\ pc[h] = "finalizing"
  BY DEF Owns, Finalize
<1>2. /\ expected[h] = Versioned("processing", 1) /\ outcome[h] = "none" /\ result \in Outcome
      /\ Is(h, result, 2, Attempted(h, result))
      /\ Wrote(h, Versioned("processing", 1), {}, Attempted(h, "processing"), {})
  BY <1>1 DEF SettlementInv, CallIsRight
<1>3. Matches(h)
  BY <1>1, <1>2, OwnerIsFirst DEF Matches, Seen, Wrote
<1>4. /\ session' = [session EXCEPT ![h] = new]
      /\ pc' = [pc EXCEPT ![h] = "updating"]
      /\ UNCHANGED <<tables, lock, object, expected, outcome>>
  BY <1>3 DEF Finalize
<1>5. Updated(session[h].row, result) = Versioned(result, 2)
  BY <1>2 DEF Wrote, Updated, Versioned
<1>6. Versioned(result, 2) \in Version
  BY <1>2 DEF Versioned, Version, Status
<1>7. /\ new.row = Versioned(result, 2) /\ new.flushed = Attempted(h, "processing")
      /\ new.unflushed = {} /\ new.webhooks = {} /\ new.connected
      /\ new \in [connected : BOOLEAN, row : Version, flushed : SUBSET Attempt,
                  unflushed : SUBSET Attempt, webhooks : SUBSET Delivery]
  <2>1. TypeOK /\ session[h].connected
    BY DEF SettlementInv, Finalize
  <2>2. /\ session[h].flushed \cup session[h].unflushed = Attempted(h, "processing")
        /\ session[h].webhooks = {}
    BY <1>2 DEF Wrote
  <2> HIDE DEF result
  <2> QED
    BY <1>5, <1>6, <2>1, <2>2, FlushedIs
<1> HIDE DEF new
<1>8. TypeOK'
  <2>1. session' \in [Handler ->
          [connected : BOOLEAN, row : Version, flushed : SUBSET Attempt,
           unflushed : SUBSET Attempt, webhooks : SUBSET Delivery]]
    BY <1>4, <1>7 DEF SettlementInv, TypeOK
  <2> QED
    BY <1>4, <2>1 DEF SettlementInv, TypeOK, tables
<1>9. session'[h] = new /\ pc'[h] = "updating" /\ object'[h] = object[h] /\ outcome'[h] = "none"
  BY <1>2, <1>4 DEF SettlementInv, TypeOK
<1>10. CallIsRight(h)'
  <2>1. Wrote(h, Versioned(result, 2), Attempted(h, "processing"), {}, {})'
    BY <1>7, <1>9 DEF Wrote, Versioned, Attempted
  <2>2. Is(h, result, 2, Attempted(h, result))'
    BY <1>2, <1>9 DEF Is, Attempted
  <2> QED
    BY <1>2, <1>9, <2>1, <2>2 DEF CallIsRight, Versioned, Attempted
<1>11. lock' = lock /\ Owns(h)'
  BY <1>4, <1>7, <1>9 DEF Owns
<1>12. \A g \in Handler \ {h} : pc'[g] = pc[g] /\ session'[g] = session[g]
  BY <1>4 DEF SettlementInv, TypeOK
<1> QED
  BY <1>1, <1>4, <1>8, <1>9, <1>10, <1>11, <1>12, Frame

LEMMA UpdateAttemptInv ==
  ASSUME SettlementInv, NEW h \in Handler, UpdateAttempt(h)
  PROVE  SettlementInv'
<1> DEFINE result == object[h].status
           new == [Flushed(h) EXCEPT
                     !.flushed = Ended(Flushed(h).flushed, h, result),
                     !.webhooks = {[id |-> h, event |-> result]}]
<1>1. Owns(h) /\ pc[h] = "updating"
  BY DEF Owns, UpdateAttempt
<1>2. result \in Outcome
      /\ Wrote(h, Versioned(result, 2), Attempted(h, "processing"), {}, {})
  BY <1>1 DEF SettlementInv, CallIsRight
<1>3. /\ session' = [session EXCEPT ![h] = new]
      /\ outcome' = [outcome EXCEPT ![h] = result]
      /\ pc' = [pc EXCEPT ![h] = "committing"]
      /\ UNCHANGED <<tables, lock, object, expected>>
  BY DEF UpdateAttempt
<1>4. /\ new.row = Versioned(result, 2) /\ new.flushed = Attempted(h, result)
      /\ new.unflushed = {} /\ new.webhooks = {[id |-> h, event |-> result]} /\ new.connected
      /\ new \in [connected : BOOLEAN, row : Version, flushed : SUBSET Attempt,
                  unflushed : SUBSET Attempt, webhooks : SUBSET Delivery]
  <2>1. TypeOK /\ session[h].connected
    BY DEF SettlementInv, UpdateAttempt
  <2>2. Flushed(h).flushed = Attempted(h, "processing")
    BY <1>2, <2>1, FlushedIs DEF Wrote
  <2>3. Ended(Flushed(h).flushed, h, result) = Attempted(h, result)
    BY <2>2, EndedAttempt
  <2>4. Attempted(h, result) \in SUBSET Attempt
    BY <1>2, AttemptedType DEF Status
  <2>5. {[id |-> h, event |-> result]} \in SUBSET Delivery
    BY <1>2 DEF Delivery
  <2>6. Flushed(h).row = Versioned(result, 2)
    BY <1>2, <2>1, FlushedIs DEF Wrote
  <2> HIDE DEF result
  <2> QED
    BY <2>1, <2>3, <2>4, <2>5, <2>6, FlushedIs
<1> HIDE DEF new
<1>5. TypeOK'
  <2>1. session' \in [Handler ->
          [connected : BOOLEAN, row : Version, flushed : SUBSET Attempt,
           unflushed : SUBSET Attempt, webhooks : SUBSET Delivery]]
    BY <1>3, <1>4 DEF SettlementInv, TypeOK
  <2> QED
    BY <1>2, <1>3, <2>1 DEF SettlementInv, TypeOK, tables
<1>6. session'[h] = new /\ pc'[h] = "committing" /\ outcome'[h] = result
  BY <1>3 DEF SettlementInv, TypeOK
<1>7. CallIsRight(h)'
  <2>1. Wrote(h, Versioned(result, 2), Attempted(h, result), {}, {[id |-> h, event |-> result]})'
    BY <1>3, <1>4, <1>6 DEF Wrote, Versioned, Attempted
  <2> QED
    BY <1>2, <1>3, <1>6, <2>1 DEF CallIsRight, Versioned, Attempted
<1>8. lock' = lock /\ Owns(h)'
  BY <1>2, <1>3, <1>4, <1>6 DEF Owns
<1>9. \A g \in Handler \ {h} :
        pc'[g] = pc[g] /\ session'[g] = session[g] /\ outcome'[g] = outcome[g]
  BY <1>3 DEF SettlementInv, TypeOK
<1>10. result \notin {"conflict", "invalid", "not_pending"}
  BY <1>2 DEF Outcome
<1> QED
  BY <1>1, <1>3, <1>5, <1>6, <1>7, <1>8, <1>9, <1>10, Frame

\* The commit of the owner makes three fresh tables one call's; any other commit writes nothing.
LEMMA CommitFacts ==
  ASSUME SettlementInv, NEW h \in Handler, NEW answered, Commit(h, answered)
  PROVE  \/ /\ Owns(h) /\ lock = h /\ Fresh
            /\ \E result \in Outcome : outcome[h] = result /\ SettledBy(h, result)'
         \/ ~Owns(h) /\ lock # h /\ row.status \in Outcome /\ UNCHANGED tables
<1>1. CASE outcome[h] \in Outcome
  <2>1. Owns(h)
    BY <1>1 DEF Owns, Commit
  <2>2. lock = h /\ Fresh
    BY <2>1, OwnerIsFirst
  <2>3. Wrote(h, Versioned(outcome[h], 2), Attempted(h, outcome[h]), {},
              {[id |-> h, event |-> outcome[h]]})
    BY <1>1 DEF SettlementInv, CallIsRight, Commit, Outcome
  <2>4. /\ row' = Versioned(outcome[h], 2) /\ attempts' = Attempted(h, outcome[h])
        /\ deliveries' = {[id |-> h, event |-> outcome[h]]}
    BY <2>2, <2>3 DEF Commit, Seen, Wrote, Fresh
  <2>5. row' = [status |-> outcome[h], version |-> 2]
        /\ attempts' = {[id |-> h, number |-> 1, status |-> outcome[h]]}
    BY <2>4 DEF Versioned, Attempted
  <2>6. PICK result \in Outcome : outcome[h] = result
    BY <1>1
  <2>7. SettledBy(h, result)'
    BY <2>4, <2>5, <2>6 DEF SettledBy
  <2> QED
    BY <2>1, <2>2, <2>6, <2>7
<1>2. CASE outcome[h] \notin Outcome
  <2>1. Wrote(h, Created, {}, {}, {}) /\ row.status \in Outcome
    BY <1>2 DEF SettlementInv, CallIsRight, Commit
  <2>2. ~Owns(h) /\ lock # h
    BY <1>2, NullAssumption DEF Owns, Commit, SettlementInv
  <2>3. UNCHANGED tables
    BY <2>1, <2>2 DEF Commit, Seen, Wrote, tables
  <2> QED
    BY <2>1, <2>2, <2>3
<1> QED
  BY <1>1, <1>2

LEMMA CommitInv ==
  ASSUME SettlementInv, NEW h \in Handler, NEW answered \in BOOLEAN, Commit(h, answered)
  PROVE  SettlementInv'
<1>1. TypeOK'
  BY NullAssumption DEF SettlementInv, TypeOK, Commit
<1>2. pc'[h] = "ended" /\ outcome'[h] \in {outcome[h], "raised"}
  BY DEF SettlementInv, TypeOK, Commit
<1>3. CallIsRight(h)' /\ ~Owns(h)'
  BY <1>2 DEF CallIsRight, Owns
<1>4. \A g \in Handler \ {h} : pc'[g] = pc[g] /\ outcome'[g] = outcome[g]
  BY DEF SettlementInv, TypeOK, Commit
<1>5. \A g \in Handler \ {h} : Owns(g)' <=> Owns(g)
  BY <1>4 DEF Owns, Commit
<1>6. outcome[h] \in Outcome \cup {"already_terminal", "claim_conflict"}
  BY DEF SettlementInv, CallIsRight, Commit
<1>7. NeverRefused'
  BY <1>2, <1>4, <1>6 DEF NeverRefused, SettlementInv, Outcome
<1>8. CASE /\ Owns(h) /\ lock = h /\ Fresh
           /\ \E result \in Outcome : outcome[h] = result /\ SettledBy(h, result)'
  <2>1. PICK result \in Outcome : outcome[h] = result /\ SettledBy(h, result)'
    BY <1>8
  <2>2. TablesAreOneCalls' /\ row'.status = result
    BY <2>1 DEF TablesAreOneCalls, SettledBy
  <2>3. lock' = NoHandler
    BY <1>8 DEF Commit
  <2>4. \A g \in Handler : lock' = g <=> Owns(g)'
    BY <1>3, <1>5, <1>8, <2>3, NullAssumption DEF SettlementInv
  <2>5. ASSUME NEW g \in Handler PROVE CallIsRight(g)'
    <3>1. CASE g = h
      BY <1>3, <3>1
    <3>2. CASE g # h
      <4>1. TypeOK /\ CallIsRight(g)
        BY DEF SettlementInv
      <4> QED
        BY <1>4, <2>1, <2>2, <3>2, <4>1, OthersAreRight DEF Commit
    <3> QED
      BY <3>1, <3>2
  <2>6. ReturnedIsSettled'
    <3>1. row.status \notin Outcome
      BY <1>8 DEF Fresh, Created, Outcome
    <3>2. \A g \in Handler \ {h} : pc[g] = "ended" => outcome[g] = "raised"
      BY <3>1 DEF SettlementInv, ReturnedIsSettled
    <3>3. result # "raised" /\ "raised" \notin Outcome
      BY DEF Outcome
    <3> QED
      BY <1>2, <1>4, <2>1, <2>2, <3>2, <3>3 DEF ReturnedIsSettled
  <2> QED
    BY <1>1, <1>7, <2>2, <2>3, <2>4, <2>5, <2>6 DEF SettlementInv
<1>9. CASE ~Owns(h) /\ lock # h /\ row.status \in Outcome /\ UNCHANGED tables
  <2>1. lock' = lock
    BY <1>9 DEF Commit
  <2>2. \A g \in Handler : lock' = g <=> Owns(g)'
    BY <1>3, <1>5, <1>9, <2>1 DEF SettlementInv
  <2>3. lock' # NoHandler => Fresh'
    BY <1>9, <2>1 DEF SettlementInv, Fresh, tables
  <2>4. TablesAreOneCalls'
    <3>1. TablesAreOneCalls
      BY DEF SettlementInv
    <3>2. \A g, result : SettledBy(g, result) => SettledBy(g, result)'
      BY <1>9 DEF SettledBy, tables
    <3>3. Fresh => Fresh'
      BY <1>9 DEF Fresh, tables
    <3> QED
      BY <3>1, <3>2, <3>3 DEF TablesAreOneCalls
  <2>5. ASSUME NEW g \in Handler PROVE CallIsRight(g)'
    <3>1. CASE g = h
      BY <1>3, <3>1
    <3>2. CASE g # h
      <4>1. TypeOK /\ CallIsRight(g)
        BY DEF SettlementInv
      <4> QED
        BY <1>4, <1>9, <3>2, <4>1, OthersAreRight DEF Commit, tables
    <3> QED
      BY <3>1, <3>2
  <2>6. outcome[h] \notin Outcome
    BY <1>9 DEF Owns, Commit
  <2>7. ReturnedIsSettled'
    <3>1. ReturnedIsSettled
      BY DEF SettlementInv
    <3>2. row' = row
      BY <1>9 DEF tables
    <3>3. "raised" \notin Outcome
      BY DEF Outcome
    <3> QED
      BY <1>2, <1>4, <1>9, <2>6, <3>1, <3>2, <3>3 DEF ReturnedIsSettled
  <2> QED
    BY <1>1, <1>7, <2>2, <2>3, <2>4, <2>5, <2>7 DEF SettlementInv
<1> QED
  BY <1>8, <1>9, CommitFacts

LEMMA InitInv == Init => SettlementInv
<1> SUFFICES ASSUME Init PROVE SettlementInv
  OBVIOUS
<1>1. TypeOK
  BY DEF Init, TypeOK, Opened, Created, Version, Status
<1>2. Fresh /\ lock = NoHandler
  BY DEF Init, Fresh
<1>3. \A h \in Handler : CallIsRight(h) /\ ~Owns(h)
  BY DEF Init, CallIsRight, Owns, Wrote, Opened
<1>4. NeverRefused /\ ReturnedIsSettled
  BY DEF Init, NeverRefused, ReturnedIsSettled
<1> QED
  BY <1>1, <1>2, <1>3, <1>4, NullAssumption DEF SettlementInv, TablesAreOneCalls

LEMMA StepInv ==
  ASSUME SettlementInv, NEW h \in Handler, Step(h)
  PROVE  SettlementInv'
  BY GetInv, BeginProcessingInv, BeginAttemptInv, FinalizeInv, UpdateAttemptInv, ChargeInv,
     CommitInv, FailInv DEF Step

LEMMA NextInv == SettlementInv /\ [Next]_vars => SettlementInv'
<1> SUFFICES ASSUME SettlementInv, [Next]_vars PROVE SettlementInv'
  OBVIOUS
<1>1. CASE Next
  BY <1>1, StepInv, FailInv, LoseConnectionInv DEF Next
<1>2. CASE UNCHANGED vars
  <2>1. TypeOK' /\ NeverRefused' /\ ReturnedIsSettled'
    BY <1>2 DEF vars, tables, SettlementInv, TypeOK, NeverRefused, ReturnedIsSettled
  <2>2. TablesAreOneCalls' /\ (Fresh' <=> Fresh)
    BY <1>2 DEF vars, tables, SettlementInv, TablesAreOneCalls, Fresh, SettledBy
  <2>3. \A h \in Handler : Owns(h)' <=> Owns(h)
    BY <1>2 DEF vars, Owns
  <2>4. \A h \in Handler : CallIsRight(h)'
    BY <1>2, OthersAreRight DEF vars, tables, SettlementInv
  <2> QED
    BY <1>2, <2>1, <2>2, <2>3, <2>4 DEF vars, SettlementInv
<1> QED
  BY <1>1, <1>2

\* The claim, the versions and the flushes fit together at every statement of every call.
THEOREM Safety == Spec => []SettlementInv
  BY InitInv, NextInv, PTL DEF Spec

\* No call ends with "Version conflict", InvalidStateTransition or NOT_PENDING.
THEOREM NothingRefused == Spec => []NeverRefused
<1>1. SettlementInv => NeverRefused
  BY DEF SettlementInv
<1> QED
  BY <1>1, Safety, PTL

\* What the consumer acks is settled.
THEOREM AnswersAreTrue == Spec => []ReturnedIsSettled
<1>1. SettlementInv => ReturnedIsSettled
  BY DEF SettlementInv
<1> QED
  BY <1>1, Safety, PTL

\* Outcome, attempt and webhook are of one call.
THEOREM TablesAgree == Spec => []TablesAreOneCalls
<1>1. SettlementInv => TablesAreOneCalls
  BY DEF SettlementInv
<1> QED
  BY <1>1, Safety, PTL

-----------------------------------------------------------------------------
(* The tables as PaymentLifecycle sees them. *)

PaymentSeen == [p \in {ThePayment} |-> row]
AttemptsSeen ==
  [p \in {ThePayment} |->
    [n \in 1..Cardinality(attempts) |-> (CHOOSE a \in attempts : a.number = n).status]]
DeliveriesSeen ==
  [p \in {ThePayment} |-> [e \in Outcome |-> Cardinality({d \in deliveries : d.event = e})]]

LEMMA FreshIsInit == Fresh => Lifecycle!Init
<1> SUFFICES ASSUME Fresh PROVE Lifecycle!Init
  OBVIOUS
<1>1. Cardinality(attempts) = 0
  BY FS_EmptySet DEF Fresh
<1>2. AttemptsSeen = [p \in {ThePayment} |-> <<>>]
  BY <1>1 DEF AttemptsSeen
<1>3. \A e \in Outcome : Cardinality({d \in deliveries : d.event = e}) = 0
  <2> TAKE e \in Outcome
  <2>1. {d \in deliveries : d.event = e} = {}
    BY DEF Fresh
  <2> QED
    BY <2>1, FS_EmptySet
<1>4. DeliveriesSeen = [p \in {ThePayment} |-> [e \in Outcome |-> 0]]
  BY <1>3 DEF DeliveriesSeen
<1>5. PaymentSeen = [p \in {ThePayment} |-> [status |-> "pending", version |-> 0]]
  BY DEF PaymentSeen, Fresh, Created
<1> QED
  BY <1>2, <1>4, <1>5 DEF Lifecycle!Init, PaymentSeen, AttemptsSeen, DeliveriesSeen, Outcome,
     Lifecycle!Outcome

SeenAs(result) ==
  /\ PaymentSeen = [p \in {ThePayment} |-> [status |-> result, version |-> 2]]
  /\ AttemptsSeen = [p \in {ThePayment} |-> <<result>>]
  /\ DeliveriesSeen = [p \in {ThePayment} |-> [e \in Outcome |-> IF e = result THEN 1 ELSE 0]]

SettledSeen == \A g \in Handler, r \in Outcome : SettledBy(g, r) => SeenAs(r)

LEMMA SettledIsSeen == SettledSeen
<1> SUFFICES ASSUME NEW h \in Handler, NEW result \in Outcome, SettledBy(h, result)
             PROVE  SeenAs(result)
  BY DEF SettledSeen
<1>1. Cardinality(attempts) = 1
  BY FS_Singleton DEF SettledBy
<1>2. (CHOOSE a \in attempts : a.number = 1).status = result
  <2> DEFINE first == CHOOSE a \in attempts : a.number = 1
  <2>1. \A a \in attempts : a.number = 1 /\ a.status = result
    BY DEF SettledBy
  <2>2. attempts # {}
    BY DEF SettledBy
  <2>3. first \in attempts
    BY <2>1, <2>2
  <2> QED
    BY <2>1, <2>3
<1>3. [n \in 1..1 |-> (CHOOSE a \in attempts : a.number = n).status] = <<result>>
  BY <1>2
<1>4. \A e \in Outcome :
        Cardinality({d \in deliveries : d.event = e}) = IF e = result THEN 1 ELSE 0
  <2> TAKE e \in Outcome
  <2>1. CASE e = result
    <3>1. {d \in deliveries : d.event = e} = {[id |-> h, event |-> result]}
      BY <2>1 DEF SettledBy
    <3> QED
      BY <2>1, <3>1, FS_Singleton
  <2>2. CASE e # result
    <3>1. {d \in deliveries : d.event = e} = {}
      BY <2>2 DEF SettledBy
    <3> QED
      BY <2>2, <3>1, FS_EmptySet
  <2> QED
    BY <2>1, <2>2
<1>5. PaymentSeen = [p \in {ThePayment} |-> [status |-> result, version |-> 2]]
  BY DEF PaymentSeen, SettledBy
<1>6. AttemptsSeen = [p \in {ThePayment} |-> <<result>>]
  BY <1>1, <1>3 DEF AttemptsSeen
<1>7. DeliveriesSeen =
        [p \in {ThePayment} |-> [e \in Outcome |-> IF e = result THEN 1 ELSE 0]]
  BY <1>4 DEF DeliveriesSeen
<1> QED
  BY <1>5, <1>6, <1>7 DEF SeenAs

LEMMA SettledIsSeenNext == SettledSeen'
  BY SettledIsSeen, PTL

\* The commit of the call that owns the payment is the settlement.
LEMMA CommitSettles ==
  ASSUME NEW h \in Handler, NEW result \in Outcome, Fresh, SettledBy(h, result)'
  PROVE  Lifecycle!Settle(ThePayment, result)
<1>1. Lifecycle!Init
  BY FreshIsInit
<1>2. SeenAs(result)'
  BY SettledIsSeenNext DEF SettledSeen
<1>4. /\ PaymentSeen = [p \in {ThePayment} |-> [status |-> "pending", version |-> 0]]
      /\ AttemptsSeen = [p \in {ThePayment} |-> <<>>]
      /\ DeliveriesSeen = [p \in {ThePayment} |-> [e \in Outcome |-> 0]]
  BY <1>1 DEF Lifecycle!Init, PaymentSeen, AttemptsSeen, DeliveriesSeen, Lifecycle!Outcome, Outcome
<1>5. /\ PaymentSeen' = [PaymentSeen EXCEPT ![ThePayment] = [status |-> result, version |-> 2]]
      /\ AttemptsSeen' = [AttemptsSeen EXCEPT ![ThePayment] = <<result>>]
      /\ DeliveriesSeen' = [DeliveriesSeen EXCEPT
           ![ThePayment] = [e \in Outcome |-> IF e = result THEN 1 ELSE 0]]
  BY <1>2, <1>4 DEF SeenAs
<1>6. PaymentSeen[ThePayment].status = "pending"
  BY <1>4
<1> QED
  BY <1>5, <1>6 DEF Lifecycle!Settle, PaymentSeen, AttemptsSeen, DeliveriesSeen,
     Lifecycle!Outcome, Outcome

LEMMA StepRefines ==
  ASSUME SettlementInv, [Next]_vars
  PROVE  [Lifecycle!Next]_Lifecycle!vars
<1>1. ASSUME UNCHANGED tables PROVE UNCHANGED Lifecycle!vars
  BY <1>1 DEF tables, Lifecycle!vars
<1>2. ASSUME NEW h \in Handler, NEW answered \in BOOLEAN, Commit(h, answered)
      PROVE  [Lifecycle!Next]_Lifecycle!vars
  <2>1. CASE UNCHANGED tables
    BY <1>1, <2>1
  <2>2. CASE ~UNCHANGED tables
    <3>1. PICK result \in Outcome : Fresh /\ SettledBy(h, result)'
      BY <1>2, <2>2, CommitFacts
    <3>2. Lifecycle!Settle(ThePayment, result)
      BY <3>1, CommitSettles
    <3> QED
      BY <3>2 DEF Lifecycle!Next, Lifecycle!Outcome, Outcome
  <2> QED
    BY <2>1, <2>2
<1>3. ASSUME NEW h \in Handler, Step(h) PROVE [Lifecycle!Next]_Lifecycle!vars
  <2>1. CASE \E answered \in BOOLEAN : Commit(h, answered)
    BY <1>2, <2>1
  <2>2. CASE ~\E answered \in BOOLEAN : Commit(h, answered)
    <3>1. UNCHANGED tables
      BY <1>3, <2>2 DEF Step, Get, BeginProcessing, BeginAttempt, Finalize, UpdateAttempt, Charge,
         Fail, Raise, ReturnEarly, Claim
    <3> QED
      BY <1>1, <3>1
  <2> QED
    BY <2>1, <2>2
<1>4. ASSUME NEW h \in Handler, Fail(h) \/ LoseConnection(h) PROVE UNCHANGED tables
  BY <1>4 DEF Fail, Raise, LoseConnection
<1>5. UNCHANGED vars => UNCHANGED tables
  BY DEF vars
<1> QED
  BY <1>1, <1>3, <1>4, <1>5 DEF Next

\* What one transaction after another commits is what PaymentLifecycle allows readers to see.
THEOREM LifecycleRefinement == Spec => LifecycleSpec
<1>1. Init => Lifecycle!Init
  BY FreshIsInit DEF Init, Fresh
<1> QED
  BY <1>1, Safety, StepRefines, PTL DEF Spec, LifecycleSpec, Lifecycle!Spec
=============================================================================
