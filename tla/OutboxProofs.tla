---------------------------- MODULE OutboxProofs ----------------------------
(***************************************************************************)
(* Proofs about Outbox for any messages, workers, limits and batch size.    *)
(*                                                                          *)
(* The statements of the repository are handled row by row: lemmas about    *)
(* one row say what each of them keeps.  An action then acts on all rows at  *)
(* once through those operators.                                            *)
(***************************************************************************)
EXTENDS Outbox, TLAPS

Limits == MaxAttempts \in [Worker -> Nat] /\ NoWorker \notin Worker

LEMMA LimitsHold == Limits
  BY WorkerAssumption, LimitAssumption DEF Limits

(***************************************************************************)
(* The statements keep the shape of a row.                                  *)
(***************************************************************************)
LEMMA RowTypes ==
  ASSUME NEW r \in Row, NEW w \in Worker, NEW max \in Nat, NEW soon \in BOOLEAN
  PROVE  /\ Killed(r) \in Row
         /\ ReleaseExpired(r, max) \in Row
         /\ Claimed(r, w) \in Row
         /\ MarkProcessed(r, w) \in Row
         /\ MarkPublishFailure(r, w, max, soon) \in Row
         /\ ReapExhausted(r, max) \in Row
         /\ PurgeProcessed(r) \in Row
  <1>1. Killed(r) \in Row
    BY DEF Killed, Row, RowStatus
  <1>2. [r EXCEPT !.status = "pending", !.claimed_by = NoWorker, !.lease = "none"] \in Row
    BY DEF Row, RowStatus
  <1>3. ReleaseExpired(r, max) \in Row
    BY <1>1, <1>2 DEF ReleaseExpired
  <1>4. Claimed(r, w) \in Row
    <2>1. r.attempts + 1 \in Nat
      BY DEF Row
    <2>2. [r EXCEPT !.status = "processing", !.claimed_by = w, !.lease = "fresh"] \in Row
      BY DEF Row, RowStatus
    <2>. QED
      BY <2>1, <2>2 DEF Claimed, Row, RowStatus
  <1>5. MarkProcessed(r, w) \in Row
    BY DEF MarkProcessed, Row, RowStatus
  <1>6. [r EXCEPT !.status = "pending", !.claimed_by = NoWorker, !.lease = "none",
                  !.due = soon] \in Row
    BY DEF Row, RowStatus
  <1>7. MarkPublishFailure(r, w, max, soon) \in Row
    BY <1>1, <1>6 DEF MarkPublishFailure
  <1>8. ReapExhausted(r, max) \in Row
    BY <1>1 DEF ReapExhausted
  <1>9. PurgeProcessed(r) \in Row
    BY DEF PurgeProcessed, Row, RowStatus
  <1>. QED
    BY <1>1, <1>3, <1>4, <1>5, <1>7, <1>8, <1>9

LEMMA MarkedType ==
  ASSUME TypeOK, NEW w \in Worker, NEW m \in Message, NEW late
  PROVE  Marked(w, m, late) \in Row
  <1>1. row[m] \in Row /\ MaxAttempts[w] \in Nat
    BY LimitsHold DEF TypeOK, Limits
  <1>2. (snapshot[w][m] >= MaxAttempts[w] \/ m \in late) \in BOOLEAN
    OBVIOUS
  <1>3. MarkProcessed(row[m], w) \in Row
    BY <1>1, RowTypes
  <1>4. MarkPublishFailure(row[m], w, MaxAttempts[w],
                           snapshot[w][m] >= MaxAttempts[w] \/ m \in late) \in Row
    BY <1>1, <1>2, RowTypes
  <1>. QED
    BY <1>1, <1>3, <1>4 DEF Marked

(***************************************************************************)
(* The claim transaction, row by row and worker by worker: a row is either  *)
(* what the release left of it or claimed from that; the worker either gets *)
(* exactly the claimed rows as its batch or, for an empty batch or a lost   *)
(* answer, nothing.                                                         *)
(***************************************************************************)
ClaimedRow(w, m) == row'[m] = Claimed(Released(w)[m], w)

LEMMA ClaimFacts ==
  ASSUME TypeOK, NEW w \in Worker, NEW skipped, NEW answered, ClaimBatch(w, skipped, answered)
  PROVE  /\ process[w] = "idle"
         /\ published' = published
         /\ row' \in [Message -> Row]
         /\ \A m \in Message : row'[m] = Released(w)[m] \/ ClaimedRow(w, m)
         /\ \A m \in Message :
              row'[m] # Released(w)[m] => Claimable(Released(w)[m], MaxAttempts[w])
         /\ \/ UNCHANGED <<process, result, snapshot>>
            \/ \E new \in [Message -> {"none", "todo"}], seen \in [Message -> Nat] :
                 /\ process' = [process EXCEPT ![w] = "publishing"]
                 /\ result' = [result EXCEPT ![w] = new]
                 /\ snapshot' = [snapshot EXCEPT ![w] = seen]
                 /\ \A m \in Message : new[m] = "todo" =>
                      /\ Claimable(Released(w)[m], MaxAttempts[w])
                      /\ ClaimedRow(w, m)
                      /\ seen[m] = row'[m].attempts
                 /\ \A m \in Message : new[m] = "none" => row'[m] = Released(w)[m]
  <1>. DEFINE batch == Batch(w, skipped)
              new == [m \in Message |-> IF m \in batch THEN "todo" ELSE "none"]
              seen == [m \in Message |-> IF m \in batch THEN row'[m].attempts ELSE 0]
  <1>1. \A m \in Message : row'[m] = IF m \in batch
                                      THEN Claimed(Released(w)[m], w)
                                      ELSE Released(w)[m]
    BY DEF ClaimBatch
  <1>2. \A m \in batch : Claimable(Released(w)[m], MaxAttempts[w])
    BY DEF Batch, FirstOf
  <1>3. \A m \in Message : Released(w)[m] \in Row /\ Claimed(Released(w)[m], w) \in Row
    BY RowTypes, LimitsHold DEF Limits, Released, TypeOK
  <1>4. row' \in [Message -> Row]
    BY <1>3 DEF ClaimBatch
  <1>5. process[w] = "idle" /\ published' = published
    BY DEF ClaimBatch
  <1>6. new \in [Message -> {"none", "todo"}]
    OBVIOUS
  <1>7. seen \in [Message -> Nat]
    BY <1>4 DEF Row
  <1>8. \/ UNCHANGED <<process, result, snapshot>>
        \/ /\ process' = [process EXCEPT ![w] = "publishing"]
           /\ result' = [result EXCEPT ![w] = new]
           /\ snapshot' = [snapshot EXCEPT ![w] = seen]
    BY DEF ClaimBatch
  <1>9. \A m \in Message : new[m] = "todo" =>
          /\ Claimable(Released(w)[m], MaxAttempts[w])
          /\ ClaimedRow(w, m)
          /\ seen[m] = row'[m].attempts
    BY <1>1, <1>2 DEF ClaimedRow
  <1>10. \A m \in Message : new[m] = "none" => row'[m] = Released(w)[m]
    BY <1>1
  <1>11. \A m \in Message : row'[m] = Released(w)[m] \/ ClaimedRow(w, m)
    BY <1>1 DEF ClaimedRow
  <1>12. \A m \in Message :
           row'[m] # Released(w)[m] => Claimable(Released(w)[m], MaxAttempts[w])
    BY <1>1, <1>2
  <1>. HIDE DEF new, seen
  <1>. QED
    BY <1>4, <1>5, <1>6, <1>7, <1>8, <1>9, <1>10, <1>11, <1>12

LEMMA FieldTypes ==
  ASSUME NEW r \in Row
  PROVE  /\ [r EXCEPT !.status = "pending"] \in Row
         /\ [r EXCEPT !.lease = "expired"] \in Row
         /\ [r EXCEPT !.due = TRUE] \in Row
         /\ [r EXCEPT !.aged = TRUE] \in Row
  BY DEF Row, RowStatus

LEMMA TypeStep ==
  ASSUME TypeOK, [Next]_vars
  PROVE  TypeOK'
  <1>. USE LimitsHold DEF TypeOK
  <1>1. ASSUME NEW m \in Message, CollectEvents(m) PROVE TypeOK'
    <2>1. [row[m] EXCEPT !.status = "pending"] \in Row
      BY FieldTypes
    <2>. QED
      BY <1>1, <2>1 DEF CollectEvents
  <1>2. ASSUME NEW m \in Message, LeaseExpires(m) PROVE TypeOK'
    <2>1. [row[m] EXCEPT !.lease = "expired"] \in Row
      BY FieldTypes
    <2>. QED
      BY <1>2, <2>1 DEF LeaseExpires
  <1>3. ASSUME NEW m \in Message, BecomesDue(m) PROVE TypeOK'
    <2>1. [row[m] EXCEPT !.due = TRUE] \in Row
      BY FieldTypes
    <2>. QED
      BY <1>3, <2>1 DEF BecomesDue
  <1>4. ASSUME NEW m \in Message, Ages(m) PROVE TypeOK'
    <2>1. [row[m] EXCEPT !.aged = TRUE] \in Row
      BY FieldTypes
    <2>. QED
      BY <1>4, <2>1 DEF Ages
  <1>5. ASSUME NEW w \in Worker, Start(w) PROVE TypeOK'
    BY <1>5 DEF Start
  <1>6. ASSUME NEW w \in Worker, Stop(w) PROVE TypeOK'
    BY <1>6 DEF Stop, NoBatch, NoSnapshot
  <1>7. ASSUME NEW w \in Worker, NEW late \in SUBSET Message, MarkResults(w, late) PROVE TypeOK'
    <2>1. row' \in [Message -> Row]
      BY <1>7, MarkedType DEF MarkResults
    <2>. QED
      BY <1>7, <2>1 DEF MarkResults, EndCycle, NoBatch, NoSnapshot
  <1>8. ASSUME NEW w \in Worker, MarkFails(w) PROVE TypeOK'
    BY <1>8 DEF MarkFails, EndCycle, NoBatch, NoSnapshot
  <1>9. ASSUME NEW w \in Worker, Purge(w) PROVE TypeOK'
    <2>1. \A m \in Message : PurgeProcessed(ReapExhausted(row[m], MaxAttempts[w])) \in Row
      BY RowTypes DEF Limits
    <2>. QED
      BY <1>9, <2>1 DEF Purge
  <1>10. ASSUME NEW w \in Worker, NEW skipped \in SUBSET MayBeLocked(w),
                NEW answered \in Answers, ClaimBatch(w, skipped, answered)
         PROVE  TypeOK'
    <2>1. row' \in [Message -> Row] /\ published' = published
      BY <1>10, ClaimFacts
    <2>2. CASE UNCHANGED <<process, result, snapshot>>
      BY <2>1, <2>2
    <2>3. ASSUME NEW new \in [Message -> {"none", "todo"}], NEW seen \in [Message -> Nat],
                 process' = [process EXCEPT ![w] = "publishing"],
                 result' = [result EXCEPT ![w] = new],
                 snapshot' = [snapshot EXCEPT ![w] = seen]
          PROVE  TypeOK'
      <3>1. new \in [Message -> {"none", "todo", "published", "failed"}]
        OBVIOUS
      <3>. QED
        BY <2>1, <2>3, <3>1
    <2>. QED
      BY <1>10, <2>2, <2>3, ClaimFacts
  <1>11. ASSUME NEW w \in Worker, NEW m \in Message, NEW outcome \in PublishOutcomes,
                PublishOne(w, m, outcome)
         PROVE  TypeOK'
    BY <1>11 DEF PublishOne
  <1>12. CASE UNCHANGED vars
    BY <1>12 DEF vars
  <1>. QED
    BY <1>1, <1>2, <1>3, <1>4, <1>5, <1>6, <1>7, <1>8, <1>9, <1>10, <1>11, <1>12 DEF Next

\* Every column, worker state and batch entry keeps its type, whatever the instance.
THEOREM TypeCorrect == Spec => []TypeOK
  <1>1. Init => TypeOK
    BY WorkerAssumption DEF Init, TypeOK, Row, RowStatus, NoBatch, NoSnapshot
  <1>. QED
    BY <1>1, TypeStep, PTL DEF Spec

-----------------------------------------------------------------------------
(***************************************************************************)
(* Every statement but the claim only loosens a row: the count of attempts  *)
(* stays, the lease stays or goes, a row is given up only past the limit.   *)
(***************************************************************************)
WellLeased(r) ==
  /\ (r.status = "processing") <=> (r.claimed_by # NoWorker)
  /\ (r.status = "processing") <=> (r.lease # "none")

Loosened(r, s, max) ==
  /\ WellLeased(s)
  /\ s.attempts = r.attempts
  /\ s.claimed_by \in {r.claimed_by, NoWorker}
  /\ s.status = "absent" => r.status = "absent"
  /\ s.status = "dead" => r.status = "dead" \/ r.attempts >= max

LEMMA StatementsLoosen ==
  ASSUME NEW r \in Row, WellLeased(r), NEW w \in Worker, NEW max \in Nat,
         NEW soon \in BOOLEAN
  PROVE  /\ Loosened(r, r, max)
         /\ Loosened(r, ReleaseExpired(r, max), max)
         /\ Loosened(r, MarkProcessed(r, w), max)
         /\ Loosened(r, MarkPublishFailure(r, w, max, soon), max)
         /\ Loosened(r, PurgeProcessed(ReapExhausted(r, max)), max)
  <1>. USE DEF Row, WellLeased, Loosened
  <1>1. Loosened(r, r, max)
    OBVIOUS
  <1>2. Loosened(r, ReleaseExpired(r, max), max)
    BY DEF ReleaseExpired, Killed
  <1>3. Loosened(r, MarkProcessed(r, w), max)
    BY DEF MarkProcessed
  <1>4. Loosened(r, MarkPublishFailure(r, w, max, soon), max)
    BY DEF MarkPublishFailure, Killed
  <1>5. Loosened(r, PurgeProcessed(ReapExhausted(r, max)), max)
    BY DEF PurgeProcessed, ReapExhausted, Killed
  <1>. QED
    BY <1>1, <1>2, <1>3, <1>4, <1>5

\* Only mark_processed makes a row processed, and only for its owner.
LEMMA ProcessedByMark ==
  ASSUME NEW r \in Row, NEW w \in Worker, NEW max \in Nat, NEW soon \in BOOLEAN,
         r.status # "processed"
  PROVE  /\ ReleaseExpired(r, max).status # "processed"
         /\ MarkProcessed(r, w).status = "processed" => OwnedBy(r, w)
         /\ MarkPublishFailure(r, w, max, soon).status # "processed"
         /\ PurgeProcessed(ReapExhausted(r, max)).status # "processed"
  <1>. USE DEF Row
  <1>1. ReleaseExpired(r, max).status # "processed"
    BY DEF ReleaseExpired, Killed
  <1>2. MarkProcessed(r, w).status = "processed" => OwnedBy(r, w)
    BY DEF MarkProcessed
  <1>3. MarkPublishFailure(r, w, max, soon).status # "processed"
    BY DEF MarkPublishFailure, Killed
  <1>4. PurgeProcessed(ReapExhausted(r, max)).status # "processed"
    BY DEF PurgeProcessed, ReapExhausted, Killed
  <1>. QED
    BY <1>1, <1>2, <1>3, <1>4

\* A step that publishes nothing, only loosens rows, and leaves every batch alone or ends
\* it, keeps the invariant, provided what it marks processed was published.
LEMMA LooseningStep ==
  ASSUME OutboxInv, TypeOK', published' = published,
         \A m \in Message : \E w \in Worker : Loosened(row[m], row'[m], MaxAttempts[w]),
         \A m \in Message : row'[m].status = "processed" => published[m] # {},
         \A w \in Worker :
           \/ result'[w] = NoBatch
           \/ result'[w] = result[w] /\ snapshot'[w] = snapshot[w] /\ process'[w] = process[w]
  PROVE  OutboxInv'
  <1>. USE DEF OutboxInv
  <1>1. \A w \in Worker, m \in Message :
          result'[w][m] # "none" => result'[w] = result[w] /\ snapshot'[w] = snapshot[w]
    BY DEF NoBatch
  <1>2. \A m \in Message : row'[m].attempts = row[m].attempts
    BY DEF Loosened
  <1>3. OnlyPublishersHoldBatches'
    BY DEF OnlyPublishersHoldBatches, NoBatch
  <1>4. PublishedWasClaimed'
    BY <1>1, <1>2 DEF PublishedWasClaimed, Loosened
  <1>5. OneClaimPerAttempt'
    BY <1>1 DEF OneClaimPerAttempt
  <1>6. LeaseMatchesBatch'
    BY <1>1, <1>2, WorkerAssumption DEF LeaseMatchesBatch, Loosened, WellLeased
  <1>7. ProcessedWasPublished'
    BY DEF ProcessedWasPublished
  <1>8. DeadIsExhausted'
    BY <1>2 DEF DeadIsExhausted, Loosened
  <1>9. AttemptsWithinBudget'
    BY <1>2 DEF AttemptsWithinBudget
  <1>. QED
    BY <1>3, <1>4, <1>5, <1>6, <1>7, <1>8, <1>9

\* The claim: loosened rows, some of them then claimed under a number no batch has seen.
LEMMA ClaimStep ==
  ASSUME OutboxInv, TypeOK', NEW w \in Worker, NEW skipped, NEW answered,
         ClaimBatch(w, skipped, answered)
  PROVE  OutboxInv'
  <1>. USE DEF OutboxInv
  <1>. DEFINE freed(m) == Released(w)[m]
              limit == MaxAttempts[w]
  <1>1. \A m \in Message : row[m] \in Row /\ WellLeased(row[m])
    BY DEF TypeOK, LeaseMatchesBatch, WellLeased
  <1>2. limit \in Nat
    BY LimitsHold DEF Limits
  <1>3. \A m \in Message : freed(m) = ReleaseExpired(row[m], limit)
    BY DEF Released
  <1>4. \A m \in Message : Loosened(row[m], freed(m), limit) /\ freed(m) \in Row
    BY <1>1, <1>2, <1>3, StatementsLoosen, RowTypes
  <1>5. \A m \in Message : freed(m).status = "processed" => row[m].status = "processed"
    BY <1>1, <1>2, <1>3, ProcessedByMark
  <1>6. \A m \in Message :
          /\ row'[m] = freed(m) \/ ClaimedRow(w, m)
          /\ row'[m] # freed(m) => Claimable(freed(m), limit)
    BY ClaimFacts
  <1>7. \A m \in Message : ClaimedRow(w, m) =>
          /\ row'[m].status = "processing" /\ row'[m].claimed_by = w
          /\ row'[m].lease # "none" /\ row'[m].attempts = row[m].attempts + 1
    BY <1>4 DEF ClaimedRow, Claimed, Row, Loosened
  <1>8. \A m \in Message : row'[m].attempts >= row[m].attempts
    BY <1>1, <1>4, <1>6, <1>7 DEF Loosened, Row
  <1>9. process[w] = "idle" /\ result[w] = NoBatch /\ published' = published
    BY ClaimFacts DEF OnlyPublishersHoldBatches
  <1>. HIDE DEF freed, limit
  \* The rows.
  <1>10. \A m \in Message : WellLeased(row'[m])
    BY <1>4, <1>6, <1>7, WorkerAssumption DEF WellLeased, Loosened
  <1>11. ProcessedWasPublished'
    BY <1>5, <1>6, <1>7, <1>9 DEF ProcessedWasPublished
  <1>12. DeadIsExhausted'
    <2>1. \A m \in Message : row'[m].status = "dead" => row'[m] = freed(m)
      BY <1>6, <1>7
    <2>. QED
      BY <2>1, <1>4 DEF DeadIsExhausted, Loosened, limit
  <1>13. AttemptsWithinBudget'
    <2>1. \A m \in Message : row'[m].attempts # row[m].attempts =>
            ClaimedRow(w, m) /\ Claimable(freed(m), limit)
      BY <1>4, <1>6 DEF Loosened
    <2>2. \A m \in Message : row'[m].attempts # row[m].attempts =>
            row'[m].attempts <= limit
      BY <2>1, <1>1, <1>2, <1>4, <1>7 DEF Claimable, Loosened, Row
    <2>. QED
      BY <2>2 DEF AttemptsWithinBudget, limit
  \* The batches: either nobody's changes, or w gets a new one.
  <1>14. CASE UNCHANGED <<process, result, snapshot>>
    <2>1. OnlyPublishersHoldBatches'
      BY <1>14 DEF OnlyPublishersHoldBatches, NoBatch
    <2>2. OneClaimPerAttempt'
      BY <1>14 DEF OneClaimPerAttempt
    <2>3. PublishedWasClaimed'
      BY <1>1, <1>4, <1>6, <1>7, <1>8, <1>9, <1>14 DEF PublishedWasClaimed, Loosened, Row, TypeOK
    <2>4. LeaseMatchesBatch'
      BY <1>4, <1>6, <1>7, <1>9, <1>10, <1>14, WorkerAssumption
      DEF LeaseMatchesBatch, Loosened, WellLeased, NoBatch
    <2>. QED
      BY <2>1, <2>2, <2>3, <2>4, <1>11, <1>12, <1>13
  <1>15. ASSUME NEW new \in [Message -> {"none", "todo"}], NEW seen \in [Message -> Nat],
                process' = [process EXCEPT ![w] = "publishing"],
                result' = [result EXCEPT ![w] = new],
                snapshot' = [snapshot EXCEPT ![w] = seen],
                \A m \in Message : new[m] = "todo" =>
                  ClaimedRow(w, m) /\ seen[m] = row'[m].attempts,
                \A m \in Message : new[m] = "none" => row'[m] = freed(m)
         PROVE  OutboxInv'
    <2>1. OnlyPublishersHoldBatches'
      BY <1>15 DEF OnlyPublishersHoldBatches, TypeOK, NoBatch
    <2>2. \A v \in Worker : v # w => result'[v] = result[v] /\ snapshot'[v] = snapshot[v]
      BY <1>15 DEF TypeOK
    <2>3. result'[w] = new /\ snapshot'[w] = seen
      BY <1>15 DEF TypeOK
    <2>4. \A m \in Message : new[m] # "none" =>
            seen[m] = row[m].attempts + 1 /\ row'[m].attempts = row[m].attempts + 1
      BY <1>7, <1>15
    <2>5. OneClaimPerAttempt'
      BY <2>2, <2>3, <2>4, <1>1 DEF OneClaimPerAttempt, PublishedWasClaimed, Row
    <2>6. PublishedWasClaimed'
      <3>1. \A m \in Message : published[m] \subseteq 1..row'[m].attempts
        BY <1>1, <1>8 DEF PublishedWasClaimed, Row, TypeOK
      <3>2. \A m \in Message : row'[m].status = "absent" => row'[m].attempts = 0
        BY <1>4, <1>6, <1>7 DEF PublishedWasClaimed, Loosened
      <3>3. \A m \in Message, v \in Worker : v # w =>
              /\ result'[v][m] # "none" => snapshot'[v][m] \in 1..row'[m].attempts
              /\ result'[v][m] = "todo" => snapshot'[v][m] \notin published[m]
              /\ result'[v][m] = "published" => snapshot'[v][m] \in published[m]
        BY <2>2, <1>1, <1>8 DEF PublishedWasClaimed, Row, TypeOK
      <3>4. \A m \in Message :
              /\ result'[w][m] # "none" => snapshot'[w][m] \in 1..row'[m].attempts
              /\ result'[w][m] = "todo" => snapshot'[w][m] \notin published[m]
              /\ result'[w][m] # "published"
        BY <2>3, <2>4, <1>1, <1>15 DEF PublishedWasClaimed, Row
      <3>. QED
        BY <3>1, <3>2, <3>3, <3>4, <1>9 DEF PublishedWasClaimed
    <2>7. LeaseMatchesBatch'
      <3>1. ASSUME NEW m \in Message, NEW v \in Worker,
                   row'[m].claimed_by = v, result'[v][m] # "none"
            PROVE  snapshot'[v][m] = row'[m].attempts
        <4>1. CASE v = w
          BY <3>1, <4>1, <2>3, <1>15
        <4>2. CASE v # w
          <5>1. row'[m] = freed(m)
            BY <3>1, <4>2, <1>6, <1>7
          <5>2. row[m].claimed_by = v
            BY <3>1, <5>1, <1>4, WorkerAssumption DEF Loosened
          <5>. QED
            BY <3>1, <4>2, <5>1, <5>2, <2>2, <1>4 DEF LeaseMatchesBatch, Loosened
        <4>. QED
          BY <4>1, <4>2
      <3>. QED
        BY <3>1, <1>10 DEF LeaseMatchesBatch, WellLeased
    <2>. QED
      BY <2>1, <2>5, <2>6, <2>7, <1>11, <1>12, <1>13
  <1>. QED
    <2>1. \/ UNCHANGED <<process, result, snapshot>>
          \/ \E new \in [Message -> {"none", "todo"}], seen \in [Message -> Nat] :
               /\ process' = [process EXCEPT ![w] = "publishing"]
               /\ result' = [result EXCEPT ![w] = new]
               /\ snapshot' = [snapshot EXCEPT ![w] = seen]
               /\ \A m \in Message : new[m] = "todo" =>
                    ClaimedRow(w, m) /\ seen[m] = row'[m].attempts
               /\ \A m \in Message : new[m] = "none" => row'[m] = freed(m)
      BY ClaimFacts DEF freed
    <2>. QED
      BY <2>1, <1>14, <1>15

\* A publication: the attempt is new to the broker, and no other batch waits to make it.
LEMMA PublishStep ==
  ASSUME OutboxInv, TypeOK', NEW w \in Worker, NEW m \in Message, NEW outcome \in PublishOutcomes,
         PublishOne(w, m, outcome)
  PROVE  OutboxInv'
  <1>. USE DEF OutboxInv
  <1>1. /\ row' = row /\ snapshot' = snapshot
        /\ process[w] = "publishing" /\ process' = process
        /\ result[w][m] = "todo" /\ result'[w][m] \in {"published", "failed"}
        /\ \A v \in Worker, n \in Message :
             v # w \/ n # m => result'[v][n] = result[v][n]
        /\ \A v \in Worker : v # w => result'[v] = result[v]
    BY DEF PublishOne, TypeOK
  <1>2. /\ \A n \in Message : published[n] \subseteq published'[n]
        /\ \A n \in Message : n # m => published'[n] = published[n]
        /\ published'[m] \subseteq published[m] \cup {snapshot[w][m]}
    BY DEF PublishOne, TypeOK
  <1>3. result'[w][m] = "published" => snapshot[w][m] \in published'[m]
    BY OutcomeAssumption DEF PublishOne, TypeOK
  <1>4. OnlyPublishersHoldBatches'
    BY <1>1 DEF OnlyPublishersHoldBatches
  <1>5. OneClaimPerAttempt'
    BY <1>1 DEF OneClaimPerAttempt
  <1>6. LeaseMatchesBatch'
    BY <1>1 DEF LeaseMatchesBatch
  <1>7. PublishedWasClaimed'
    <2>1. \A n \in Message : published'[n] \subseteq 1..row'[n].attempts
      BY <1>1, <1>2 DEF PublishedWasClaimed
    <2>2. \A n \in Message, v \in Worker :
            result'[v][n] # "none" => snapshot'[v][n] \in 1..row'[n].attempts
      BY <1>1 DEF PublishedWasClaimed
    <2>3. \A n \in Message, v \in Worker :
            result'[v][n] = "todo" => snapshot'[v][n] \notin published'[n]
      BY <1>1, <1>2 DEF PublishedWasClaimed, OneClaimPerAttempt
    <2>4. \A n \in Message, v \in Worker :
            result'[v][n] = "published" => snapshot'[v][n] \in published'[n]
      BY <1>1, <1>2, <1>3 DEF PublishedWasClaimed
    <2>. QED
      BY <2>1, <2>2, <2>3, <2>4, <1>1 DEF PublishedWasClaimed
  <1>8. ProcessedWasPublished' /\ DeadIsExhausted' /\ AttemptsWithinBudget'
    BY <1>1, <1>2 DEF ProcessedWasPublished, DeadIsExhausted, AttemptsWithinBudget
  <1>. QED
    BY <1>4, <1>5, <1>6, <1>7, <1>8

LEMMA InvStep ==
  ASSUME OutboxInv, [Next]_vars
  PROVE  OutboxInv'
  <1>. USE DEF OutboxInv
  <1>1. TypeOK'
    BY TypeStep
  <1>2. \A m \in Message : row[m] \in Row /\ WellLeased(row[m])
    BY DEF TypeOK, LeaseMatchesBatch, WellLeased
  <1>3. \A w \in Worker : MaxAttempts[w] \in Nat
    BY LimitsHold DEF Limits
  <1>4. \A m \in Message, w \in Worker : Loosened(row[m], row[m], MaxAttempts[w])
    BY <1>2, <1>3, StatementsLoosen
  <1>5. ASSUME NEW w \in Worker, NEW skipped \in SUBSET MayBeLocked(w),
               NEW answered \in Answers, ClaimBatch(w, skipped, answered)
        PROVE  OutboxInv'
    BY <1>1, <1>5, ClaimStep
  <1>6. ASSUME NEW w \in Worker, NEW m \in Message, NEW outcome \in PublishOutcomes,
               PublishOne(w, m, outcome)
        PROVE  OutboxInv'
    BY <1>1, <1>6, PublishStep
  <1>7. ASSUME NEW w \in Worker, NEW late \in SUBSET Message, MarkResults(w, late)
        PROVE  OutboxInv'
    <2>1. published' = published /\ row' = [m \in Message |-> Marked(w, m, late)]
      BY <1>7 DEF MarkResults, EndCycle
    <2>2. \A v \in Worker :
            \/ result'[v] = NoBatch
            \/ result'[v] = result[v] /\ snapshot'[v] = snapshot[v] /\ process'[v] = process[v]
      BY <1>7 DEF MarkResults, EndCycle, TypeOK
    <2>3. ASSUME NEW m \in Message
          PROVE  /\ Loosened(row[m], Marked(w, m, late), MaxAttempts[w])
                 /\ Marked(w, m, late).status = "processed" => published[m] # {}
      <3>1. CASE result[w][m] = "published"
        <4>1. Marked(w, m, late) = MarkProcessed(row[m], w)
          BY <3>1 DEF Marked
        <4>2. published[m] # {}
          BY <3>1 DEF PublishedWasClaimed
        <4>. QED
          BY <4>1, <4>2, <1>2, <1>3, StatementsLoosen
      <3>2. CASE result[w][m] = "failed"
        <4>. DEFINE soon == snapshot[w][m] >= MaxAttempts[w] \/ m \in late
        <4>1. Marked(w, m, late) = MarkPublishFailure(row[m], w, MaxAttempts[w], soon)
          BY <3>2 DEF Marked
        <4>2. soon \in BOOLEAN
          OBVIOUS
        <4>. HIDE DEF soon
        <4>3. Loosened(row[m], Marked(w, m, late), MaxAttempts[w])
          BY <4>1, <4>2, <1>2, <1>3, StatementsLoosen
        <4>4. Marked(w, m, late).status = "processed" => row[m].status = "processed"
          BY <4>1, <4>2, <1>2, <1>3, ProcessedByMark
        <4>. QED
          BY <4>3, <4>4 DEF ProcessedWasPublished
      <3>3. CASE result[w][m] \notin {"published", "failed"}
        <4>1. Marked(w, m, late) = row[m]
          BY <3>3 DEF Marked
        <4>. QED
          BY <4>1, <1>4 DEF ProcessedWasPublished
      <3>. QED
        BY <3>1, <3>2, <3>3
    <2>. QED
      BY <1>1, <2>1, <2>2, <2>3, LooseningStep
  <1>8. ASSUME NEW w \in Worker, Purge(w)
        PROVE  OutboxInv'
    <2>1. \A m \in Message : row'[m] = PurgeProcessed(ReapExhausted(row[m], MaxAttempts[w]))
      BY <1>8 DEF Purge
    <2>2. \A m \in Message : Loosened(row[m], row'[m], MaxAttempts[w])
      BY <2>1, <1>2, <1>3, StatementsLoosen
    <2>3. \A m \in Message : row'[m].status = "processed" => row[m].status = "processed"
      BY <2>1, <1>2, <1>3, ProcessedByMark
    <2>4. UNCHANGED <<process, result, snapshot, published>>
      BY <1>8 DEF Purge
    <2>. QED
      BY <1>1, <2>2, <2>3, <2>4, LooseningStep DEF ProcessedWasPublished
  <1>9. ASSUME NEW w \in Worker, Start(w) \/ Stop(w) \/ MarkFails(w)
        PROVE  OutboxInv'
    <2>1. row' = row /\ published' = published
      BY <1>9 DEF Start, Stop, MarkFails, EndCycle
    <2>2. \A v \in Worker :
            \/ result'[v] = NoBatch
            \/ result'[v] = result[v] /\ snapshot'[v] = snapshot[v] /\ process'[v] = process[v]
      BY <1>9 DEF Start, Stop, MarkFails, EndCycle, TypeOK, OnlyPublishersHoldBatches
    <2>. QED
      BY <1>1, <1>4, <2>1, <2>2, LooseningStep DEF ProcessedWasPublished
  <1>10. ASSUME NEW m \in Message, CollectEvents(m) \/ LeaseExpires(m) \/ BecomesDue(m) \/ Ages(m)
         PROVE  OutboxInv'
    <2>1. UNCHANGED <<process, result, snapshot, published>>
      BY <1>10 DEF CollectEvents, LeaseExpires, BecomesDue, Ages
    <2>2. \A n \in Message :
            /\ row'[n].attempts = row[n].attempts /\ row'[n].claimed_by = row[n].claimed_by
            /\ row'[n].lease = "none" <=> row[n].lease = "none"
            /\ \/ row'[n].status = row[n].status
               \/ row[n].status = "absent" /\ row'[n].status = "pending"
      <3>1. CASE CollectEvents(m)
        BY <3>1, <1>2 DEF CollectEvents, TypeOK, Row
      <3>2. CASE LeaseExpires(m)
        BY <3>2, <1>2 DEF LeaseExpires, TypeOK, Row
      <3>3. CASE BecomesDue(m)
        BY <3>3, <1>2 DEF BecomesDue, TypeOK, Row
      <3>4. CASE Ages(m)
        BY <3>4, <1>2 DEF Ages, TypeOK, Row
      <3>. QED
        BY <1>10, <3>1, <3>2, <3>3, <3>4
    <2>3. \A n \in Message, w \in Worker : Loosened(row[n], row'[n], MaxAttempts[w])
      BY <2>2, <1>2 DEF Loosened, WellLeased
    <2>4. \A n \in Message : row'[n].status = "processed" => published[n] # {}
      BY <2>2 DEF ProcessedWasPublished
    <2>5. ASSUME Worker # {} PROVE OutboxInv'
      BY <1>1, <2>1, <2>3, <2>4, <2>5, LooseningStep
    <2>6. ASSUME Worker = {} PROVE OutboxInv'
      BY <1>1, <2>1, <2>2, <2>4, <2>6, <1>2
      DEF OnlyPublishersHoldBatches, PublishedWasClaimed, OneClaimPerAttempt, LeaseMatchesBatch,
          WellLeased, ProcessedWasPublished, DeadIsExhausted, AttemptsWithinBudget
    <2>. QED
      BY <2>5, <2>6
  <1>11. CASE UNCHANGED vars
    BY <1>1, <1>11
    DEF vars, OnlyPublishersHoldBatches, PublishedWasClaimed, OneClaimPerAttempt,
        LeaseMatchesBatch, ProcessedWasPublished, DeadIsExhausted, AttemptsWithinBudget
  <1>. QED
    BY <1>5, <1>6, <1>7, <1>8, <1>9, <1>10, <1>11 DEF Next

\* The invariants of the outbox hold of every run, however many workers crash, stall or
\* lose answers, and however long their batches are.
THEOREM Safety == Spec => []OutboxInv
  <1>1. Init => TypeOK
    BY WorkerAssumption DEF Init, TypeOK, Row, RowStatus, NoBatch, NoSnapshot
  <1>2. Init => OutboxInv
    BY <1>1, WorkerAssumption
    DEF Init, OutboxInv, NoBatch, OnlyPublishersHoldBatches, PublishedWasClaimed,
        OneClaimPerAttempt, LeaseMatchesBatch, ProcessedWasPublished, DeadIsExhausted,
        AttemptsWithinBudget
  <1>. QED
    BY <1>2, InvStep, PTL DEF Spec

\* No two workers ever work on the same attempt of a message.
THEOREM ClaimsAreExclusive == Spec => []OneClaimPerAttempt
  <1>1. OutboxInv => OneClaimPerAttempt
    BY DEF OutboxInv
  <1>. QED
    BY <1>1, Safety, PTL

\* Nothing is called processed that the broker was not given.
THEOREM ProcessedIsTrue == Spec => []ProcessedWasPublished
  <1>1. OutboxInv => ProcessedWasPublished
    BY DEF OutboxInv
  <1>. QED
    BY <1>1, Safety, PTL

\* A dead row has used up some OUTBOX_MAX_ATTEMPTS: no process gives a message up early.
THEOREM DeadIsEarned == Spec => []DeadIsExhausted
  <1>1. OutboxInv => DeadIsExhausted
    BY DEF OutboxInv
  <1>. QED
    BY <1>1, Safety, PTL

\* No message is claimed more often than some OUTBOX_MAX_ATTEMPTS allows.
THEOREM BudgetIsKept == Spec => []AttemptsWithinBudget
  <1>1. OutboxInv => AttemptsWithinBudget
    BY DEF OutboxInv
  <1>. QED
    BY <1>1, Safety, PTL

-----------------------------------------------------------------------------
(***************************************************************************)
(* The contract: each statement moves the abstract state of its row as      *)
(* AtLeastOnce allows, so each transaction is one Resolve.                  *)
(***************************************************************************)
Verdict(old, new) ==
  \/ new = old
  \/ old = "waiting" /\ new = "dropped"
  \/ old \in {"done", "dropped"} /\ new = "forgotten"

LEMMA StatementsResolve ==
  ASSUME NEW r \in Row, NEW w \in Worker, NEW max \in Nat, NEW soon \in BOOLEAN
  PROVE  /\ Verdict(StateOf(r), StateOf(ReleaseExpired(r, max)))
         /\ Claimable(r, max) => StateOf(Claimed(r, w)) = StateOf(r)
         /\ \/ Verdict(StateOf(r), StateOf(MarkProcessed(r, w)))
            \/ StateOf(r) = "waiting" /\ StateOf(MarkProcessed(r, w)) = "done"
         /\ Verdict(StateOf(r), StateOf(MarkPublishFailure(r, w, max, soon)))
         /\ Verdict(StateOf(r), StateOf(PurgeProcessed(ReapExhausted(r, max))))
         /\ StateOf(r) \in {"unknown", "waiting", "done", "dropped", "forgotten"}
  <1>. USE DEF Row, RowStatus, StateOf, Verdict
  <1>1. Verdict(StateOf(r), StateOf(ReleaseExpired(r, max)))
    BY DEF ReleaseExpired, Killed
  <1>2. Claimable(r, max) => StateOf(Claimed(r, w)) = StateOf(r)
    BY DEF Claimable, Claimed
  <1>3. \/ Verdict(StateOf(r), StateOf(MarkProcessed(r, w)))
        \/ StateOf(r) = "waiting" /\ StateOf(MarkProcessed(r, w)) = "done"
    BY DEF MarkProcessed, OwnedBy
  <1>4. Verdict(StateOf(r), StateOf(MarkPublishFailure(r, w, max, soon)))
    BY DEF MarkPublishFailure, OwnedBy, Killed
  <1>5. Verdict(StateOf(r), StateOf(PurgeProcessed(ReapExhausted(r, max))))
    BY DEF PurgeProcessed, ReapExhausted, Killed
  <1>6. StateOf(r) \in {"unknown", "waiting", "done", "dropped", "forgotten"}
    OBVIOUS
  <1>. QED
    BY <1>1, <1>2, <1>3, <1>4, <1>5, <1>6

\* Rows that move by verdicts, with nothing published, are one step of the contract.
LEMMA VerdictStep ==
  ASSUME TypeOK, TypeOK', published' = published,
         \A m \in Message :
           \/ Verdict(StateOf(row[m]), StateOf(row'[m]))
           \/ /\ StateOf(row[m]) = "waiting" /\ StateOf(row'[m]) = "done"
              /\ published[m] # {}
  PROVE  Contract!Next
  <1>1. \A m \in Message : StateOf(row'[m]) \in Contract!State
    <2>. SUFFICES ASSUME NEW m \in Message PROVE StateOf(row'[m]) \in Contract!State
      OBVIOUS
    <2>1. row'[m] \in Row
      BY DEF TypeOK
    <2>. QED
      BY <2>1 DEF Row, RowStatus, StateOf, Contract!State
  <1>2. \A m \in Message : Contract!MayBecome(m, StateOf(row'[m]))
    BY DEF Contract!MayBecome, Verdict
  <1>3. Contract!Resolve
    BY <1>1, <1>2 DEF Contract!Resolve
  <1>. QED
    BY <1>3 DEF Contract!Next

LEMMA ContractStep ==
  ASSUME OutboxInv, [Next]_vars
  PROVE  [Contract!Next]_(Contract!vars)
  <1>. USE DEF OutboxInv
  <1>1. TypeOK'
    BY TypeStep
  <1>2. \A m \in Message : row[m] \in Row
    BY DEF TypeOK
  <1>3. \A w \in Worker : MaxAttempts[w] \in Nat
    BY LimitsHold DEF Limits
  <1>4. ASSUME NEW w \in Worker, NEW skipped \in SUBSET MayBeLocked(w),
               NEW answered \in Answers, ClaimBatch(w, skipped, answered)
        PROVE  Contract!Next
    <2>1. /\ published' = published
          /\ \A m \in Message :
               /\ row'[m] = Released(w)[m] \/ ClaimedRow(w, m)
               /\ row'[m] # Released(w)[m] => Claimable(Released(w)[m], MaxAttempts[w])
      BY <1>4, ClaimFacts
    <2>2. \A m \in Message : Released(w)[m] \in Row
      BY <1>2, <1>3, RowTypes DEF Released
    <2>3. \A m \in Message : Verdict(StateOf(row[m]), StateOf(Released(w)[m]))
      BY <1>2, <1>3, StatementsResolve DEF Released
    <2>4. \A m \in Message : StateOf(row'[m]) = StateOf(Released(w)[m])
      BY <2>1, <2>2, <1>3, StatementsResolve DEF ClaimedRow
    <2>. QED
      BY <1>1, <2>1, <2>3, <2>4, VerdictStep
  <1>5. ASSUME NEW w \in Worker, NEW late \in SUBSET Message, MarkResults(w, late)
        PROVE  Contract!Next
    <2>1. published' = published /\ \A m \in Message : row'[m] = Marked(w, m, late)
      BY <1>5 DEF MarkResults, EndCycle
    <2>2. ASSUME NEW m \in Message
          PROVE  \/ Verdict(StateOf(row[m]), StateOf(Marked(w, m, late)))
                 \/ /\ StateOf(row[m]) = "waiting" /\ StateOf(Marked(w, m, late)) = "done"
                    /\ published[m] # {}
      <3>1. CASE result[w][m] = "published"
        <4>1. Marked(w, m, late) = MarkProcessed(row[m], w) /\ published[m] # {}
          BY <3>1 DEF Marked, PublishedWasClaimed
        <4>. QED
          BY <4>1, <1>2, StatementsResolve
      <3>2. CASE result[w][m] = "failed"
        <4>. DEFINE soon == snapshot[w][m] >= MaxAttempts[w] \/ m \in late
        <4>1. Marked(w, m, late) = MarkPublishFailure(row[m], w, MaxAttempts[w], soon)
          BY <3>2 DEF Marked
        <4>2. soon \in BOOLEAN
          OBVIOUS
        <4>. HIDE DEF soon
        <4>. QED
          BY <4>1, <4>2, <1>2, <1>3, StatementsResolve
      <3>3. CASE result[w][m] \notin {"published", "failed"}
        BY <3>3 DEF Marked, Verdict
      <3>. QED
        BY <3>1, <3>2, <3>3
    <2>. QED
      BY <1>1, <2>1, <2>2, VerdictStep
  <1>6. ASSUME NEW w \in Worker, Purge(w)
        PROVE  Contract!Next
    <2>1. /\ published' = published
          /\ \A m \in Message : row'[m] = PurgeProcessed(ReapExhausted(row[m], MaxAttempts[w]))
      BY <1>6 DEF Purge
    <2>2. \A m \in Message : Verdict(StateOf(row[m]), StateOf(row'[m]))
      BY <2>1, <1>2, <1>3, StatementsResolve
    <2>. QED
      BY <1>1, <2>1, <2>2, VerdictStep
  <1>7. ASSUME NEW w \in Worker, NEW m \in Message, NEW outcome \in PublishOutcomes,
               PublishOne(w, m, outcome)
        PROVE  [Contract!Next]_(Contract!vars)
    <2>1. row' = row
      BY <1>7 DEF PublishOne
    <2>2. CASE outcome = "refused"
      BY <1>7, <2>1, <2>2 DEF PublishOne, Contract!vars
    <2>3. CASE outcome # "refused"
      <3>1. published' = [published EXCEPT ![m] = @ \cup {snapshot[w][m]}]
        BY <1>7, <2>3 DEF PublishOne
      <3>2. snapshot[w][m] \in 1..row[m].attempts /\ snapshot[w][m] \notin published[m]
        BY <1>7 DEF PublishOne, PublishedWasClaimed
      <3>3. row[m].attempts \in Nat
        BY <1>2 DEF Row
      <3>4. PICK v \in Worker : row[m].attempts <= MaxAttempts[v]
        BY <3>2, <3>3 DEF AttemptsWithinBudget
      <3>5. snapshot[w][m] \in 1..MaxAttempts[v]
        BY <3>2, <3>3, <3>4, <1>3
      <3>6. StateOf(row[m]) # "unknown"
        <4>1. row[m].status # "absent"
          BY <3>2, <3>3 DEF PublishedWasClaimed
        <4>. QED
          BY <4>1, <1>2 DEF StateOf, Row, RowStatus
      <3>7. Contract!Publish(m, snapshot[w][m])
        BY <2>1, <3>1, <3>2, <3>6 DEF Contract!Publish
      <3>. QED
        BY <3>5, <3>7 DEF Contract!Next
    <2>. QED
      BY <2>2, <2>3
  <1>8. ASSUME NEW m \in Message, CollectEvents(m)
        PROVE  Contract!Next
    <2>1. /\ row[m].status = "absent" /\ row'[m].status = "pending"
          /\ published' = published
          /\ \A n \in Message : n # m => row'[n] = row[n]
      BY <1>8, <1>2 DEF CollectEvents, TypeOK, Row
    <2>2. StateOf(row[m]) = "unknown" /\ StateOf(row'[m]) = "waiting"
      BY <2>1 DEF StateOf
    <2>3. [n \in Message |-> StateOf(row'[n])]
          = [[n \in Message |-> StateOf(row[n])] EXCEPT ![m] = "waiting"]
      BY <2>1, <2>2
    <2>4. Contract!Accept(m)
      BY <2>1, <2>2, <2>3 DEF Contract!Accept
    <2>. QED
      BY <2>4 DEF Contract!Next
  <1>9. ASSUME \/ UNCHANGED vars
               \/ \E w \in Worker : Start(w) \/ Stop(w) \/ MarkFails(w)
               \/ \E m \in Message : LeaseExpires(m) \/ BecomesDue(m) \/ Ages(m)
        PROVE  Contract!Next
    <2>1. published' = published
      BY <1>9 DEF vars, Start, Stop, MarkFails, EndCycle, LeaseExpires, BecomesDue, Ages
    <2>2. \A m \in Message : row'[m].status = row[m].status
      <3>1. ASSUME NEW n \in Message, LeaseExpires(n) \/ BecomesDue(n) \/ Ages(n)
            PROVE  \A m \in Message : row'[m].status = row[m].status
        <4>1. CASE LeaseExpires(n)
          BY <4>1, <1>2 DEF LeaseExpires, TypeOK, Row
        <4>2. CASE BecomesDue(n)
          BY <4>2, <1>2 DEF BecomesDue, TypeOK, Row
        <4>3. CASE Ages(n)
          BY <4>3, <1>2 DEF Ages, TypeOK, Row
        <4>. QED
          BY <3>1, <4>1, <4>2, <4>3
      <3>2. ASSUME \/ UNCHANGED vars
                   \/ \E w \in Worker : Start(w) \/ Stop(w) \/ MarkFails(w)
            PROVE  row' = row
        BY <3>2 DEF vars, Start, Stop, MarkFails
      <3>. QED
        BY <1>9, <3>1, <3>2
    <2>3. \A m \in Message : Verdict(StateOf(row[m]), StateOf(row'[m]))
      BY <2>2 DEF Verdict, StateOf
    <2>. QED
      BY <1>1, <2>1, <2>3, VerdictStep
  <1>. QED
    BY <1>4, <1>5, <1>6, <1>7, <1>8, <1>9 DEF Next

\* The whole machinery of leases and transactions implements the at-least-once contract:
\* verdicts are final, "done" is true, every attempt is published at most once and none
\* beyond the budget.
THEOREM Refinement == Spec => ContractSpec
  <1>1. Init => Contract!Init
    BY DEF Init, Contract!Init, StateOf
  <1>. QED
    BY <1>1, ContractStep, Safety, PTL DEF Spec, ContractSpec, Contract!Spec

-----------------------------------------------------------------------------
(* What happens to a row under lease. *)

LEMMA StatementsRespectLease ==
  ASSUME NEW r \in Row, r.status = "processing", NEW w \in Worker, NEW max \in Nat,
         NEW soon \in BOOLEAN
  PROVE  /\ r.lease # "expired" => ReleaseExpired(r, max) = r
         /\ ReleaseExpired(r, max) = r \/ ReleaseExpired(r, max).status \in {"pending", "dead"}
         /\ r.claimed_by # w => MarkProcessed(r, w) = r
         /\ r.claimed_by # w => MarkPublishFailure(r, w, max, soon) = r
         /\ PurgeProcessed(ReapExhausted(r, max)) = r
  <1>. USE DEF Row
  <1>1. r.lease # "expired" => ReleaseExpired(r, max) = r
    BY DEF ReleaseExpired
  <1>2. ReleaseExpired(r, max) = r \/ ReleaseExpired(r, max).status \in {"pending", "dead"}
    BY DEF ReleaseExpired, Killed
  <1>3. r.claimed_by # w => MarkProcessed(r, w) = r
    BY DEF MarkProcessed, OwnedBy
  <1>4. r.claimed_by # w => MarkPublishFailure(r, w, max, soon) = r
    BY DEF MarkPublishFailure, OwnedBy
  <1>5. PurgeProcessed(ReapExhausted(r, max)) = r
    BY DEF PurgeProcessed, ReapExhausted
  <1>. QED
    BY <1>1, <1>2, <1>3, <1>4, <1>5

LEMMA LeaseStep ==
  ASSUME OutboxInv, [Next]_vars, NEW m \in Message
  PROVE  SettledByOwner(m)
  <1>. USE DEF OutboxInv
  <1>. SUFFICES ASSUME row[m].status = "processing", row'[m] # row[m]
                PROVE  /\ row'[m].status = "processed" =>
                            /\ result[row[m].claimed_by][m] = "published"
                            /\ snapshot[row[m].claimed_by][m] = row[m].attempts
                       /\ row[m].lease = "fresh" /\ row'[m].lease = "none" =>
                            BatchDone(row[m].claimed_by)
    BY DEF SettledByOwner
  <1>1. row[m] \in Row /\ row[m].claimed_by \in Worker
    BY DEF TypeOK, LeaseMatchesBatch, Row
  <1>2. \A w \in Worker : MaxAttempts[w] \in Nat
    BY LimitsHold DEF Limits
  <1>3. ASSUME NEW w \in Worker, NEW skipped \in SUBSET MayBeLocked(w),
               NEW answered \in Answers, ClaimBatch(w, skipped, answered)
        PROVE  row[m].lease = "expired" /\ row'[m].status # "processed"
    <2>1. /\ row'[m] = Released(w)[m] \/ ClaimedRow(w, m)
          /\ row'[m] # Released(w)[m] => Claimable(Released(w)[m], MaxAttempts[w])
      BY <1>3, ClaimFacts
    <2>2. Released(w)[m] = ReleaseExpired(row[m], MaxAttempts[w])
      BY DEF Released
    <2>3. Released(w)[m] = row[m] \/ Released(w)[m].status \in {"pending", "dead"}
      BY <2>2, <1>1, <1>2, StatementsRespectLease
    <2>4. row[m].lease = "expired"
      BY <2>1, <2>2, <1>1, <1>2, StatementsRespectLease DEF Claimable
    <2>5. Released(w)[m] \in Row
      BY <2>2, <1>1, <1>2, RowTypes
    <2>6. row'[m].status # "processed"
      BY <2>1, <2>3, <2>5 DEF ClaimedRow, Claimed, Row
    <2>. QED
      BY <2>4, <2>6
  <1>4. ASSUME NEW w \in Worker, NEW late \in SUBSET Message, MarkResults(w, late)
        PROVE  /\ w = row[m].claimed_by /\ BatchDone(w)
               /\ row'[m].status = "processed" =>
                    result[w][m] = "published" /\ snapshot[w][m] = row[m].attempts
    <2>1. row'[m] = Marked(w, m, late) /\ BatchDone(w)
      BY <1>4 DEF MarkResults
    <2>. DEFINE soon == snapshot[w][m] >= MaxAttempts[w] \/ m \in late
    <2>2. soon \in BOOLEAN
      OBVIOUS
    <2>3. \/ result[w][m] = "published" /\ row'[m] = MarkProcessed(row[m], w)
          \/ /\ result[w][m] = "failed"
             /\ row'[m] = MarkPublishFailure(row[m], w, MaxAttempts[w], soon)
          \/ row'[m] = row[m]
      BY <2>1 DEF Marked
    <2>. HIDE DEF soon
    <2>4. w = row[m].claimed_by
      BY <2>2, <2>3, <1>1, <1>2, StatementsRespectLease
    <2>5. row'[m].status = "processed" => result[w][m] = "published"
      BY <2>2, <2>3, <1>1, <1>2, ProcessedByMark
    <2>. QED
      BY <2>1, <2>4, <2>5 DEF LeaseMatchesBatch
  <1>5. ASSUME NEW w \in Worker, Purge(w) PROVE FALSE
    <2>1. row'[m] = PurgeProcessed(ReapExhausted(row[m], MaxAttempts[w]))
      BY <1>5 DEF Purge
    <2>2. FALSE \in BOOLEAN
      OBVIOUS
    <2>. QED
      BY <2>1, <2>2, <1>1, <1>2, StatementsRespectLease
  <1>6. ASSUME NEW n \in Message, CollectEvents(n) \/ LeaseExpires(n) \/ BecomesDue(n) \/ Ages(n)
        PROVE  row'[m].status # "processed" /\ row'[m].lease # "none"
    <2>1. row[m].lease # "none"
      BY DEF LeaseMatchesBatch
    <2>2. CASE CollectEvents(n)
      BY <2>1, <2>2, <1>1 DEF CollectEvents, TypeOK, Row
    <2>3. CASE LeaseExpires(n)
      BY <2>1, <2>3, <1>1 DEF LeaseExpires, TypeOK, Row
    <2>4. CASE BecomesDue(n)
      BY <2>1, <2>4, <1>1 DEF BecomesDue, TypeOK, Row
    <2>5. CASE Ages(n)
      BY <2>1, <2>5, <1>1 DEF Ages, TypeOK, Row
    <2>. QED
      BY <1>6, <2>2, <2>3, <2>4, <2>5
  <1>7. ASSUME \/ UNCHANGED vars
               \/ \E w \in Worker : Start(w) \/ Stop(w) \/ MarkFails(w)
               \/ \E w \in Worker, n \in Message, outcome \in PublishOutcomes :
                    PublishOne(w, n, outcome)
        PROVE  FALSE
    BY <1>7 DEF vars, Start, Stop, MarkFails, PublishOne
  <1>. QED
    BY <1>3, <1>4, <1>5, <1>6, <1>7 DEF Next

\* claimed_by fences: only the owner, having published under this very lease, settles a row
\* as processed, and nobody takes away a row whose lease is fresh.
THEOREM Fencing == Spec => OnlyOwnerSettles
  <1>1. OutboxInv /\ [Next]_vars => [\A m \in Message : SettledByOwner(m)]_vars
    BY LeaseStep
  <1>. QED
    BY <1>1, Safety, PTL DEF Spec, OnlyOwnerSettles
=============================================================================
