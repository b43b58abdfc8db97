------------------------ MODULE WebhookDeliveryProofs ------------------------
(***************************************************************************)
(* Proofs about WebhookDelivery for any deliveries, workers, batch size and *)
(* limit, with any URLs that raise and any number of faults.  DeliveryInv   *)
(* is inductive; one lemma per action shows that it keeps it.               *)
(***************************************************************************)
EXTENDS WebhookDelivery, TLAPS

Limits == MaxAttempts \in Nat /\ MaxAttempts >= 1 /\ MaxFaults \in Nat /\ NoWorker \notin Worker

LEMMA LimitsHold == Limits
  BY WorkerAssumption, LimitAssumption DEF Limits

LEMMA InitIsRight == Init => DeliveryInv
  <1>. USE LimitsHold DEF Limits
  <1>1. ASSUME Init PROVE TypeOK
    BY <1>1 DEF Init, TypeOK, NoBatch, NoSnapshot
  <1>2. ASSUME Init PROVE LocksAreBatches
    BY <1>2 DEF Init, LocksAreBatches, NoBatch, NoSnapshot
  <1>3. ASSUME Init PROVE ObjectsAreCurrent /\ RequestsAreKnown
    BY <1>3 DEF Init, ObjectsAreCurrent, RequestsAreKnown, Batch, NoBatch
  <1>4. ASSUME Init PROVE VerdictIsTrue
    BY <1>4 DEF Init, VerdictIsTrue
  <1>. QED
    BY <1>1, <1>2, <1>3, <1>4 DEF DeliveryInv

(***************************************************************************)
(* The table outside of batches.                                            *)
(***************************************************************************)
LEMMA CreateStep ==
  ASSUME DeliveryInv, NEW d \in Delivery, Create(d)
  PROVE  DeliveryInv'
  <1>. USE DEF DeliveryInv, Create
  <1>1. TypeOK'
    BY DEF TypeOK
  <1>2. LocksAreBatches'
    BY DEF LocksAreBatches, Batch
  <1>3. ObjectsAreCurrent' /\ RequestsAreKnown'
    BY DEF ObjectsAreCurrent, RequestsAreKnown, Batch, TypeOK
  <1>4. VerdictIsTrue'
    BY DEF VerdictIsTrue, TypeOK
  <1>. QED
    BY <1>1, <1>2, <1>3, <1>4

LEMMA BecomesDueStep ==
  ASSUME DeliveryInv, NEW d \in Delivery, BecomesDue(d)
  PROVE  DeliveryInv'
  <1>. USE DEF DeliveryInv, BecomesDue
  <1>1. TypeOK'
    BY DEF TypeOK
  <1>2. LocksAreBatches'
    BY DEF LocksAreBatches, Batch
  <1>3. ObjectsAreCurrent' /\ RequestsAreKnown'
    BY DEF ObjectsAreCurrent, RequestsAreKnown, Batch, TypeOK
  <1>4. VerdictIsTrue'
    BY DEF VerdictIsTrue, TypeOK
  <1>. QED
    BY <1>1, <1>2, <1>3, <1>4

(***************************************************************************)
(* The claim.  Its batch is what nobody has locked, so that the locks of    *)
(* the others stay as they are.                                             *)
(***************************************************************************)
LEMMA ClaimStep ==
  ASSUME DeliveryInv, NEW w \in Worker, Claim(w)
  PROVE  DeliveryInv'
  <1>. DEFINE batch == FirstOf({d \in Delivery : Claimable(d)})
  <1>1. /\ Batch(w) = {} /\ batch # {}
        /\ lock' = [d \in Delivery |-> IF d \in batch THEN w ELSE lock[d]]
        /\ result' = [result EXCEPT ![w] = [d \in Delivery |-> IF d \in batch THEN "todo" ELSE "none"]]
        /\ snapshot' = [snapshot EXCEPT ![w] = [d \in Delivery |->
                                                  IF d \in batch THEN delivery[d].attempt ELSE 0]]
        /\ UNCHANGED <<delivery, connected, stray, tried, accepted, faults>>
    BY DEF Claim
  <1>2. \A d \in batch : d \in Delivery /\ delivery[d].status = "pending" /\ lock[d] = NoWorker
    BY DEF FirstOf, Claimable
  <1>. HIDE DEF batch
  <1>. USE DEF DeliveryInv
  <1>3. connected[w] /\ \A d \in Delivery : lock[d] # w
    BY <1>1 DEF LocksAreBatches, Batch, TypeOK
  <1>4. \A d \in Delivery : delivery[d].attempt \in 1..MaxAttempts
    BY DEF TypeOK
  <1>5. TypeOK'
    <2>1. [d \in Delivery |-> IF d \in batch THEN "todo" ELSE "none"]
            \in [Delivery -> {"none", "todo", "ok", "failed"}]
      OBVIOUS
    <2>2. [d \in Delivery |-> IF d \in batch THEN delivery[d].attempt ELSE 0]
            \in [Delivery -> 0..MaxAttempts]
      BY <1>4, LimitsHold DEF Limits
    <2>3. lock' \in [Delivery -> Worker \cup {NoWorker}]
      BY <1>1 DEF TypeOK
    <2>. QED
      BY <1>1, <2>1, <2>2, <2>3 DEF TypeOK
  <1>6. /\ \A d \in Delivery : lock'[d] = IF d \in batch THEN w ELSE lock[d]
        /\ \A d \in Delivery : result'[w][d] = IF d \in batch THEN "todo" ELSE "none"
        /\ \A d \in Delivery : snapshot'[w][d] = IF d \in batch THEN delivery[d].attempt ELSE 0
        /\ \A v \in Worker \ {w} : result'[v] = result[v] /\ snapshot'[v] = snapshot[v]
    BY <1>1 DEF TypeOK
  <1>7. LocksAreBatches'
    <2>1. ASSUME NEW v \in Worker, NEW d \in Delivery
          PROVE  /\ lock'[d] = v <=> connected'[v] /\ result'[v][d] # "none"
                 /\ snapshot'[v][d] = 0 <=> result'[v][d] = "none"
      <3>1. CASE v = w
        BY <1>1, <1>3, <1>4, <1>6, <3>1
      <3>2. CASE v # w
        BY <1>1, <1>2, <1>6, <3>2, LimitsHold DEF LocksAreBatches, Limits
      <3>. QED
        BY <3>1, <3>2
    <2>2. ASSUME NEW v \in Worker, ~connected'[v] PROVE Batch(v)' # {}
      <3>1. v # w /\ ~connected[v] /\ result'[v] = result[v]
        BY <1>1, <1>3, <1>6, <2>2
      <3>. QED
        BY <3>1 DEF LocksAreBatches, Batch
    <2>. QED
      BY <2>1, <2>2 DEF LocksAreBatches
  <1>8. ObjectsAreCurrent'
    <2>1. ASSUME NEW v \in Worker, connected'[v], NEW d \in Delivery, result'[v][d] # "none"
          PROVE  delivery'[d].status = "pending" /\ delivery'[d].attempt = snapshot'[v][d]
      <3>1. CASE v = w
        BY <1>1, <1>2, <1>6, <2>1, <3>1
      <3>2. CASE v # w
        BY <1>1, <1>6, <2>1, <3>2 DEF ObjectsAreCurrent, Batch
      <3>. QED
        BY <3>1, <3>2
    <2>. QED
      BY <2>1 DEF ObjectsAreCurrent, Batch
  <1>9. RequestsAreKnown'
    <2>1. ASSUME NEW v \in Worker, NEW d \in Delivery, result'[v][d] # "none"
          PROVE  /\ delivery'[d].status # "absent" /\ snapshot'[v][d] \in 1..delivery'[d].attempt
                 /\ result'[v][d] = "ok" => snapshot'[v][d] \in accepted'[d]
                 /\ result'[v][d] = "failed" => snapshot'[v][d] \in tried'[d]
      <3>1. CASE v = w
        BY <1>1, <1>2, <1>4, <1>6, <2>1, <3>1
      <3>2. CASE v # w
        BY <1>1, <1>6, <2>1, <3>2 DEF RequestsAreKnown
      <3>. QED
        BY <3>1, <3>2
    <2>2. ASSUME NEW v \in Worker, NEW d \in Delivery, NEW a \in 1..MaxAttempts,
                 <<v, d, a>> \in stray'
          PROVE  delivery'[d].status # "absent" /\ a <= delivery'[d].attempt
      BY <1>1, <2>2 DEF RequestsAreKnown
    <2>. QED
      BY <2>1, <2>2 DEF RequestsAreKnown
  <1>10. VerdictIsTrue'
    BY <1>1 DEF VerdictIsTrue
  <1>. QED
    BY <1>5, <1>7, <1>8, <1>9, <1>10

(***************************************************************************)
(* Requests.                                                                *)
(***************************************************************************)
LEMMA RequestFacts ==
  ASSUME TypeOK, VerdictIsTrue, NEW d \in Delivery, NEW a \in 1..MaxAttempts, NEW outcome,
         Request(d, a, outcome), UNCHANGED delivery, a <= delivery[d].attempt
  PROVE  /\ tried' \in [Delivery -> SUBSET (1..MaxAttempts)]
         /\ accepted' \in [Delivery -> SUBSET (1..MaxAttempts)]
         /\ \A e \in Delivery : tried[e] \subseteq tried'[e] /\ accepted[e] \subseteq accepted'[e]
         /\ a \in tried'[d]
         /\ outcome # "rejected" => a \in accepted'[d]
         /\ VerdictIsTrue'
  <1>1. /\ tried' = [tried EXCEPT ![d] = tried[d] \cup {a}]
        /\ \/ accepted' = accepted /\ outcome = "rejected"
           \/ accepted' = [accepted EXCEPT ![d] = accepted[d] \cup {a}]
    BY DEF Request
  <1>2. /\ tried' \in [Delivery -> SUBSET (1..MaxAttempts)]
        /\ accepted' \in [Delivery -> SUBSET (1..MaxAttempts)]
    <2>1. /\ tried[d] \cup {a} \in SUBSET (1..MaxAttempts)
          /\ accepted[d] \cup {a} \in SUBSET (1..MaxAttempts)
      BY Zenon DEF TypeOK
    <2>2. /\ tried \in [Delivery -> SUBSET (1..MaxAttempts)]
          /\ accepted \in [Delivery -> SUBSET (1..MaxAttempts)]
      BY DEF TypeOK
    <2>. HIDE DEF TypeOK
    <2>. QED
      BY <1>1, <2>1, <2>2, Zenon
  <1>3. \A e \in Delivery : /\ tried'[e] = IF e = d THEN tried[e] \cup {a} ELSE tried[e]
                            /\ \/ accepted'[e] = accepted[e]
                               \/ e = d /\ accepted'[e] = accepted[e] \cup {a}
    BY <1>1 DEF TypeOK
  <1>4. outcome # "rejected" => a \in accepted'[d]
    BY <1>1 DEF TypeOK
  <1>5. ASSUME NEW e \in Delivery
        PROVE  /\ accepted'[e] \subseteq tried'[e]
               /\ tried'[e] \subseteq 1..delivery'[e].attempt
               /\ 1..(delivery'[e].attempt - 1) \subseteq tried'[e]
               /\ delivery'[e].status = "success" => delivery'[e].attempt \in accepted'[e]
               /\ delivery'[e].status = "failed" => tried'[e] = 1..MaxAttempts
    <2>1. /\ accepted[e] \subseteq tried[e]
          /\ tried[e] \subseteq 1..delivery[e].attempt
          /\ 1..(delivery[e].attempt - 1) \subseteq tried[e]
          /\ delivery[e].status = "success" => delivery[e].attempt \in accepted[e]
          /\ delivery[e].status = "failed" => tried[e] = 1..MaxAttempts
      BY DEF VerdictIsTrue
    <2>2. tried'[e] \subseteq 1..delivery[e].attempt
      <3>1. delivery[e].attempt \in Nat
        BY LimitsHold DEF TypeOK, Limits
      <3>2. a \in 1..delivery[d].attempt
        BY LimitsHold, <3>1 DEF Limits
      <3>3. CASE e = d
        <4>1. tried'[e] = tried[d] \cup {a}
          BY <1>3, <3>3
        <4>. QED
          BY <2>1, <3>2, <3>3, <4>1, Zenon
      <3>4. CASE e # d
        BY <1>3, <2>1, <3>4
      <3>. QED
        BY <3>3, <3>4
    <2>3. delivery[e].status = "failed" => tried'[e] = 1..MaxAttempts
      BY <1>3, <2>1
    <2>. QED
      BY <1>3, <2>1, <2>2, <2>3
  <1>6. VerdictIsTrue'
    BY <1>5 DEF VerdictIsTrue
  <1>. QED
    BY <1>2, <1>3, <1>4, <1>6

LEMMA SendStep ==
  ASSUME DeliveryInv, NEW w \in Worker, NEW d \in Delivery, NEW outcome \in SendOutcomes,
         Send(w, d, outcome)
  PROVE  DeliveryInv'
  <1>. USE DEF DeliveryInv
  <1>1. /\ result[w][d] = "todo"
        /\ result' = [result EXCEPT ![w][d] = IF outcome = "accepted" THEN "ok" ELSE "failed"]
        /\ Request(d, snapshot[w][d], outcome)
        /\ UNCHANGED <<delivery, lock, snapshot, connected, stray, faults>>
    BY DEF Send, Heard
  <1>2. snapshot[w][d] \in 1..MaxAttempts /\ snapshot[w][d] <= delivery[d].attempt
    BY <1>1 DEF RequestsAreKnown, TypeOK
  <1>3. /\ tried' \in [Delivery -> SUBSET (1..MaxAttempts)]
        /\ accepted' \in [Delivery -> SUBSET (1..MaxAttempts)]
        /\ \A e \in Delivery : tried[e] \subseteq tried'[e] /\ accepted[e] \subseteq accepted'[e]
        /\ snapshot[w][d] \in tried'[d]
        /\ outcome # "rejected" => snapshot[w][d] \in accepted'[d]
        /\ VerdictIsTrue'
    BY <1>1, <1>2, RequestFacts
  <1>4. /\ \A v \in Worker, e \in Delivery : v # w \/ e # d => result'[v][e] = result[v][e]
        /\ result'[w][d] = IF outcome = "accepted" THEN "ok" ELSE "failed"
    BY <1>1 DEF TypeOK
  <1>5. \A v \in Worker, e \in Delivery : result'[v][e] = "none" <=> result[v][e] = "none"
    BY <1>1, <1>4
  <1>6. TypeOK'
    BY <1>1, <1>3 DEF TypeOK
  <1>7. LocksAreBatches' /\ ObjectsAreCurrent'
    BY <1>1, <1>5 DEF LocksAreBatches, ObjectsAreCurrent, Batch
  <1>8. RequestsAreKnown'
    <2>1. ASSUME NEW v \in Worker, NEW e \in Delivery, result'[v][e] # "none"
          PROVE  /\ delivery'[e].status # "absent" /\ snapshot'[v][e] \in 1..delivery'[e].attempt
                 /\ result'[v][e] = "ok" => snapshot'[v][e] \in accepted'[e]
                 /\ result'[v][e] = "failed" => snapshot'[v][e] \in tried'[e]
      <3>1. delivery'[e].status # "absent" /\ snapshot'[v][e] \in 1..delivery'[e].attempt
        BY <1>1, <1>5, <2>1 DEF RequestsAreKnown
      <3>2. CASE v = w /\ e = d
        BY <1>1, <1>3, <1>4, <3>1, <3>2
      <3>3. CASE v # w \/ e # d
        BY <1>1, <1>3, <1>4, <2>1, <3>1, <3>3 DEF RequestsAreKnown
      <3>. QED
        BY <3>2, <3>3
    <2>. QED
      BY <1>1, <2>1 DEF RequestsAreKnown
  <1>. QED
    BY <1>3, <1>6, <1>7, <1>8

LEMMA StraySendStep ==
  ASSUME DeliveryInv, NEW w \in Worker, NEW d \in Delivery, NEW a \in 1..MaxAttempts,
         NEW outcome \in SendOutcomes, StraySend(w, d, a, outcome)
  PROVE  DeliveryInv'
  <1>. USE DEF DeliveryInv
  <1>1. /\ <<w, d, a>> \in stray /\ stray' = stray \ {<<w, d, a>>}
        /\ Request(d, a, outcome)
        /\ UNCHANGED <<delivery, lock, result, snapshot, connected, faults>>
    BY DEF StraySend
  <1>2. a <= delivery[d].attempt
    BY <1>1 DEF RequestsAreKnown
  <1>3. /\ tried' \in [Delivery -> SUBSET (1..MaxAttempts)]
        /\ accepted' \in [Delivery -> SUBSET (1..MaxAttempts)]
        /\ \A e \in Delivery : tried[e] \subseteq tried'[e] /\ accepted[e] \subseteq accepted'[e]
        /\ VerdictIsTrue'
    BY <1>1, <1>2, RequestFacts
  <1>4. TypeOK'
    BY <1>1, <1>3 DEF TypeOK
  <1>5. LocksAreBatches' /\ ObjectsAreCurrent'
    BY <1>1 DEF LocksAreBatches, ObjectsAreCurrent, Batch
  <1>6. RequestsAreKnown'
    BY <1>1, <1>3 DEF RequestsAreKnown
  <1>. QED
    BY <1>3, <1>4, <1>5, <1>6

(***************************************************************************)
(* The ends of a batch.                                                     *)
(***************************************************************************)
LEMMA EndBatchFacts ==
  ASSUME DeliveryInv, NEW w \in Worker, EndBatch(w)
  PROVE  /\ lock' \in [Delivery -> Worker \cup {NoWorker}]
         /\ result' \in [Worker -> [Delivery -> {"none", "todo", "ok", "failed"}]]
         /\ snapshot' \in [Worker -> [Delivery -> 0..MaxAttempts]]
         /\ connected' \in [Worker -> BOOLEAN] /\ connected'[w]
         /\ \A d \in Delivery : result'[w][d] = "none" /\ snapshot'[w][d] = 0
         /\ \A v \in Worker \ {w} : result'[v] = result[v] /\ snapshot'[v] = snapshot[v]
                                      /\ connected'[v] = connected[v]
         /\ LocksAreBatches'
  <1>. USE LimitsHold DEF DeliveryInv, Limits
  <1>1. /\ lock' \in [Delivery -> Worker \cup {NoWorker}]
        /\ \A d \in Delivery : lock'[d] = IF lock[d] = w THEN NoWorker ELSE lock[d]
    BY DEF EndBatch, Unlocked, TypeOK
  <1>2. /\ NoBatch \in [Delivery -> {"none", "todo", "ok", "failed"}]
        /\ NoSnapshot \in [Delivery -> 0..MaxAttempts]
        /\ \A d \in Delivery : NoBatch[d] = "none" /\ NoSnapshot[d] = 0
    BY DEF NoBatch, NoSnapshot
  <1>3. /\ result' = [result EXCEPT ![w] = NoBatch]
        /\ snapshot' = [snapshot EXCEPT ![w] = NoSnapshot]
        /\ connected' = [connected EXCEPT ![w] = TRUE]
    BY DEF EndBatch
  <1>4. /\ result' \in [Worker -> [Delivery -> {"none", "todo", "ok", "failed"}]]
        /\ snapshot' \in [Worker -> [Delivery -> 0..MaxAttempts]]
        /\ connected' \in [Worker -> BOOLEAN] /\ connected'[w]
        /\ result'[w] = NoBatch /\ snapshot'[w] = NoSnapshot
        /\ \A v \in Worker \ {w} : result'[v] = result[v] /\ snapshot'[v] = snapshot[v]
                                     /\ connected'[v] = connected[v]
    BY <1>2, <1>3 DEF TypeOK
  <1>5. LocksAreBatches'
    <2>1. ASSUME NEW v \in Worker, NEW d \in Delivery
          PROVE  /\ lock'[d] = v <=> connected'[v] /\ result'[v][d] # "none"
                 /\ snapshot'[v][d] = 0 <=> result'[v][d] = "none"
      <3>1. CASE v = w
        BY <1>1, <1>2, <1>4, <3>1
      <3>2. CASE v # w
        <4>1. lock'[d] = v <=> lock[d] = v
          BY <1>1, <3>2
        <4>2. connected'[v] = connected[v] /\ result'[v] = result[v] /\ snapshot'[v] = snapshot[v]
          BY <1>4, <3>2
        <4>3. /\ lock[d] = v <=> connected[v] /\ result[v][d] # "none"
              /\ snapshot[v][d] = 0 <=> result[v][d] = "none"
          BY DEF LocksAreBatches
        <4>. QED
          BY <4>1, <4>2, <4>3
      <3>. QED
        BY <3>1, <3>2
    <2>2. ASSUME NEW v \in Worker, ~connected'[v] PROVE Batch(v)' # {}
      BY <1>4, <2>2 DEF LocksAreBatches, Batch
    <2>. QED
      BY <2>1, <2>2 DEF LocksAreBatches
  <1>. QED
    BY <1>1, <1>2, <1>4, <1>5

\* A batch that ends without a commit: its deliveries are as they were.
LEMMA AbandonStep ==
  ASSUME DeliveryInv, NEW w \in Worker, EndBatch(w), UNCHANGED <<delivery, tried, accepted>>,
         stray' \subseteq Worker \X Delivery \X (1..MaxAttempts), faults' \in 0..MaxFaults,
         \A v \in Worker, d \in Delivery, a \in 1..MaxAttempts : <<v, d, a>> \in stray' =>
           delivery[d].status # "absent" /\ a <= delivery[d].attempt
  PROVE  DeliveryInv'
  <1>. USE DEF DeliveryInv
  <1>1. /\ \A d \in Delivery : result'[w][d] = "none"
        /\ \A v \in Worker \ {w} : result'[v] = result[v] /\ snapshot'[v] = snapshot[v]
                                     /\ connected'[v] = connected[v]
        /\ LocksAreBatches'
    BY EndBatchFacts
  <1>2. TypeOK'
    BY EndBatchFacts DEF TypeOK
  <1>3. ObjectsAreCurrent'
    BY <1>1 DEF ObjectsAreCurrent, Batch
  <1>4. RequestsAreKnown'
    BY <1>1 DEF RequestsAreKnown
  <1>5. VerdictIsTrue'
    BY DEF VerdictIsTrue
  <1>. QED
    BY <1>1, <1>2, <1>3, <1>4, <1>5

LEMMA RollBackStep ==
  ASSUME DeliveryInv, NEW w \in Worker, RollBack(w)
  PROVE  DeliveryInv'
  BY AbandonStep DEF RollBack, DeliveryInv, RequestsAreKnown, TypeOK

LEMMA RestartStep ==
  ASSUME DeliveryInv, NEW w \in Worker, Restart(w)
  PROVE  DeliveryInv'
  <1>1. /\ EndBatch(w) /\ stray' \subseteq stray /\ faults' \in 0..MaxFaults
        /\ UNCHANGED <<delivery, tried, accepted>>
    BY LimitsHold DEF Restart, DeliveryInv, TypeOK, Limits
  <1>. QED
    BY <1>1, AbandonStep DEF DeliveryInv, RequestsAreKnown, TypeOK

LEMMA SendRaisesStep ==
  ASSUME DeliveryInv, NEW w \in Worker, NEW d \in Delivery, SendRaises(w, d)
  PROVE  DeliveryInv'
  <1>. DEFINE left == {<<w, e, snapshot[w][e]>> : e \in Todo(w) \ Raises}
  <1>1. /\ EndBatch(w) /\ stray' = stray \cup left /\ UNCHANGED <<delivery, tried, accepted, faults>>
    BY DEF SendRaises
  <1>2. \A e \in Todo(w) : /\ e \in Delivery /\ snapshot[w][e] \in 1..MaxAttempts
                           /\ delivery[e].status # "absent" /\ snapshot[w][e] <= delivery[e].attempt
    BY DEF DeliveryInv, RequestsAreKnown, TypeOK, Todo
  <1>3. left \subseteq Worker \X Delivery \X (1..MaxAttempts)
    BY <1>2
  <1>4. \A v \in Worker, e \in Delivery, a \in 1..MaxAttempts : <<v, e, a>> \in left =>
          delivery[e].status # "absent" /\ a <= delivery[e].attempt
    BY <1>2
  <1>. HIDE DEF left
  <1>. QED
    BY <1>1, <1>3, <1>4, AbandonStep DEF DeliveryInv, RequestsAreKnown, TypeOK

LEMMA LoseConnectionStep ==
  ASSUME DeliveryInv, NEW w \in Worker, LoseConnection(w)
  PROVE  DeliveryInv'
  <1>. USE DEF DeliveryInv
  <1>1. /\ Batch(w) # {} /\ lock' = Unlocked(w) /\ connected' = [connected EXCEPT ![w] = FALSE]
        /\ faults' \in 0..MaxFaults
        /\ UNCHANGED <<delivery, result, snapshot, stray, tried, accepted>>
    BY LimitsHold DEF LoseConnection, TypeOK, Limits
  <1>2. /\ lock' \in [Delivery -> Worker \cup {NoWorker}]
        /\ \A d \in Delivery : lock'[d] = IF lock[d] = w THEN NoWorker ELSE lock[d]
        /\ connected' \in [Worker -> BOOLEAN] /\ ~connected'[w]
        /\ \A v \in Worker \ {w} : connected'[v] = connected[v]
    BY <1>1 DEF Unlocked, TypeOK
  <1>3. TypeOK'
    BY <1>1, <1>2 DEF TypeOK
  <1>4. LocksAreBatches'
    BY <1>1, <1>2, LimitsHold DEF LocksAreBatches, Batch, Limits
  <1>5. ObjectsAreCurrent'
    BY <1>1, <1>2 DEF ObjectsAreCurrent, Batch
  <1>6. RequestsAreKnown' /\ VerdictIsTrue'
    BY <1>1 DEF RequestsAreKnown, VerdictIsTrue
  <1>. QED
    BY <1>3, <1>4, <1>5, <1>6

(***************************************************************************)
(* The commit.                                                              *)
(***************************************************************************)

\* What _record makes of each delivery, given that the worker's object is current.
LEMMA CommitFacts ==
  ASSUME DeliveryInv, NEW w \in Worker, Commit(w), NEW d \in Delivery
  PROVE  \/ result[w][d] = "none" /\ delivery'[d] = delivery[d]
         \/ /\ result[w][d] = "ok" /\ delivery[d].status = "pending"
            /\ delivery[d].attempt \in accepted[d]
            /\ delivery'[d] = [status |-> "success", attempt |-> delivery[d].attempt, due |-> TRUE]
         \/ /\ result[w][d] = "failed" /\ delivery[d].status = "pending"
            /\ delivery[d].attempt \in tried[d] /\ delivery[d].attempt < MaxAttempts
            /\ delivery'[d] = [status |-> "pending", attempt |-> delivery[d].attempt + 1,
                               due |-> FALSE]
         \/ /\ result[w][d] = "failed" /\ delivery[d].status = "pending"
            /\ delivery[d].attempt \in tried[d] /\ delivery[d].attempt = MaxAttempts
            /\ delivery'[d] = [status |-> "failed", attempt |-> delivery[d].attempt, due |-> TRUE]
  <1>. USE DEF DeliveryInv
  <1>1. connected[w] /\ delivery'[d] = Recorded(w, d) /\ result[w][d] # "todo"
    BY DEF Commit, AllSent, Todo
  <1>2. result[w][d] \in {"none", "ok", "failed"} /\ delivery[d].attempt \in 1..MaxAttempts
    BY <1>1 DEF TypeOK
  <1>3. result[w][d] # "none" =>
          /\ delivery[d].status = "pending" /\ delivery[d].attempt = snapshot[w][d]
          /\ result[w][d] = "ok" => delivery[d].attempt \in accepted[d]
          /\ result[w][d] = "failed" => delivery[d].attempt \in tried[d]
    BY <1>1 DEF ObjectsAreCurrent, RequestsAreKnown, Batch
  <1>4. CASE result[w][d] = "none"
    BY <1>1, <1>4 DEF Recorded
  <1>5. CASE result[w][d] = "ok"
    <2>1. Recorded(w, d) = [status |-> "success", attempt |-> snapshot[w][d], due |-> TRUE]
      BY <1>5 DEF Recorded
    <2>. QED
      BY <1>1, <1>3, <1>5, <2>1
  <1>6. CASE result[w][d] = "failed" /\ snapshot[w][d] < MaxAttempts
    <2>1. Recorded(w, d) = [status |-> "pending", attempt |-> snapshot[w][d] + 1, due |-> FALSE]
      <3>1. ~(snapshot[w][d] >= MaxAttempts)
        BY <1>2, <1>3, <1>6, LimitsHold DEF Limits
      <3>. QED
        BY <1>6, <3>1 DEF Recorded
    <2>. QED
      BY <1>1, <1>3, <1>6, <2>1
  <1>7. CASE result[w][d] = "failed" /\ ~(snapshot[w][d] < MaxAttempts)
    <2>1. snapshot[w][d] >= MaxAttempts /\ delivery[d].attempt = MaxAttempts
      BY <1>2, <1>3, <1>7, LimitsHold DEF Limits
    <2>2. Recorded(w, d) = [status |-> "failed", attempt |-> snapshot[w][d], due |-> TRUE]
      BY <1>7, <2>1 DEF Recorded
    <2>. QED
      BY <1>1, <1>3, <1>7, <2>1, <2>2
  <1>. QED
    BY <1>2, <1>4, <1>5, <1>6, <1>7

LEMMA CommitStep ==
  ASSUME DeliveryInv, NEW w \in Worker, Commit(w)
  PROVE  DeliveryInv'
  <1>. USE DEF DeliveryInv
  <1>1. /\ EndBatch(w) /\ connected[w] /\ UNCHANGED <<stray, tried, accepted, faults>>
        /\ delivery' = [d \in Delivery |-> Recorded(w, d)]
    BY DEF Commit
  <1>2. /\ \A d \in Delivery : result'[w][d] = "none"
        /\ \A v \in Worker \ {w} : result'[v] = result[v] /\ snapshot'[v] = snapshot[v]
                                     /\ connected'[v] = connected[v]
        /\ LocksAreBatches'
    BY <1>1, EndBatchFacts
  <1>3. ASSUME NEW d \in Delivery
        PROVE  /\ delivery[d].attempt \in 1..MaxAttempts /\ delivery'[d].attempt \in 1..MaxAttempts
               /\ delivery'[d].attempt >= delivery[d].attempt
               /\ delivery[d].status # "absent" => delivery'[d].status # "absent"
               /\ delivery'[d] \in [status : {"absent", "pending", "success", "failed"},
                                    attempt : 1..MaxAttempts, due : BOOLEAN]
    <2>1. /\ delivery[d] \in [status : {"absent", "pending", "success", "failed"},
                              attempt : 1..MaxAttempts, due : BOOLEAN]
          /\ MaxAttempts \in Nat
      BY LimitsHold DEF TypeOK, Limits
    <2>. DEFINE a == delivery[d].attempt
    <2>2. a \in 1..MaxAttempts
      BY <2>1
    <2>3. CASE delivery'[d] = delivery[d]
      BY <2>1, <2>3
    <2>4. ASSUME NEW s \in {"success", "failed"},
                 delivery'[d] = [status |-> s, attempt |-> a, due |-> TRUE]
          PROVE  /\ delivery'[d].attempt = a /\ delivery'[d].status = s
                 /\ delivery'[d] \in [status : {"absent", "pending", "success", "failed"},
                                      attempt : 1..MaxAttempts, due : BOOLEAN]
      BY <2>2, <2>4
    <2>5. CASE /\ a < MaxAttempts
               /\ delivery'[d] = [status |-> "pending", attempt |-> a + 1, due |-> FALSE]
      <3>1. a + 1 \in 1..MaxAttempts /\ a + 1 >= a
        BY <2>1, <2>2, <2>5
      <3>. QED
        BY <2>2, <2>5, <3>1
    <2>6. a >= a
      BY <2>1, <2>2
    <2>. QED
      BY CommitFacts, <2>2, <2>3, <2>4, <2>5, <2>6
  <1>4. TypeOK'
    <2>1. delivery' \in [Delivery -> [status : {"absent", "pending", "success", "failed"},
                                      attempt : 1..MaxAttempts, due : BOOLEAN]]
      BY <1>1, <1>3
    <2>. QED
      BY <1>1, <2>1, EndBatchFacts DEF TypeOK
  <1>5. ObjectsAreCurrent'
    <2>1. ASSUME NEW v \in Worker, connected'[v], NEW d \in Delivery, result'[v][d] # "none"
          PROVE  delivery'[d].status = "pending" /\ delivery'[d].attempt = snapshot'[v][d]
      <3>1. v # w /\ result'[v] = result[v] /\ snapshot'[v] = snapshot[v] /\ connected[v]
        BY <1>2, <2>1
      <3>2. lock[d] = v /\ result[w][d] = "none"
        BY <1>1, <2>1, <3>1 DEF LocksAreBatches
      <3>3. delivery'[d] = delivery[d]
        BY <3>2, CommitFacts
      <3>. QED
        BY <2>1, <3>1, <3>3 DEF ObjectsAreCurrent, Batch
    <2>. QED
      BY <2>1 DEF ObjectsAreCurrent, Batch
  <1>6. RequestsAreKnown'
    <2>1. ASSUME NEW v \in Worker, NEW d \in Delivery, result'[v][d] # "none"
          PROVE  /\ delivery'[d].status # "absent" /\ snapshot'[v][d] \in 1..delivery'[d].attempt
                 /\ result'[v][d] = "ok" => snapshot'[v][d] \in accepted'[d]
                 /\ result'[v][d] = "failed" => snapshot'[v][d] \in tried'[d]
      <3>1. v # w /\ result'[v] = result[v] /\ snapshot'[v] = snapshot[v]
        BY <1>2, <2>1
      <3>2. /\ delivery[d].status # "absent" /\ snapshot[v][d] \in 1..delivery[d].attempt
            /\ result[v][d] = "ok" => snapshot[v][d] \in accepted[d]
            /\ result[v][d] = "failed" => snapshot[v][d] \in tried[d]
        BY <2>1, <3>1 DEF RequestsAreKnown
      <3>. QED
        BY <1>1, <1>3, <3>1, <3>2, LimitsHold DEF Limits
    <2>2. ASSUME NEW v \in Worker, NEW d \in Delivery, NEW a \in 1..MaxAttempts,
                 <<v, d, a>> \in stray'
          PROVE  delivery'[d].status # "absent" /\ a <= delivery'[d].attempt
      <3>1. delivery[d].status # "absent" /\ a <= delivery[d].attempt
        BY <1>1, <2>2 DEF RequestsAreKnown
      <3>. QED
        BY <1>3, <3>1, LimitsHold DEF Limits
    <2>. QED
      BY <2>1, <2>2 DEF RequestsAreKnown
  <1>7. VerdictIsTrue'
    <2>1. ASSUME NEW d \in Delivery
          PROVE  /\ accepted'[d] \subseteq tried'[d]
                 /\ tried'[d] \subseteq 1..delivery'[d].attempt
                 /\ 1..(delivery'[d].attempt - 1) \subseteq tried'[d]
                 /\ delivery'[d].status = "success" => delivery'[d].attempt \in accepted'[d]
                 /\ delivery'[d].status = "failed" => tried'[d] = 1..MaxAttempts
      <3>1. /\ accepted[d] \subseteq tried[d]
            /\ tried[d] \subseteq 1..delivery[d].attempt
            /\ 1..(delivery[d].attempt - 1) \subseteq tried[d]
            /\ delivery[d].status = "success" => delivery[d].attempt \in accepted[d]
            /\ delivery[d].status = "failed" => tried[d] = 1..MaxAttempts
        BY DEF VerdictIsTrue
      <3>2. delivery[d].attempt \in 1..MaxAttempts /\ MaxAttempts \in Nat
        BY <1>3, LimitsHold DEF Limits
      <3>3. ASSUME delivery[d].attempt \in tried[d] PROVE tried[d] = 1..delivery[d].attempt
        <4>1. ASSUME NEW k \in 1..delivery[d].attempt PROVE k \in tried[d]
          <5>1. k = delivery[d].attempt \/ k \in 1..(delivery[d].attempt - 1)
            BY <3>2
          <5>. QED
            BY <3>1, <3>3, <5>1
        <4>. QED
          BY <3>1, <4>1
      <3>4. CASE delivery'[d] = delivery[d]
        BY <1>1, <3>1, <3>4
      <3>5. CASE /\ delivery[d].attempt \in accepted[d]
                 /\ delivery'[d] = [status |-> "success", attempt |-> delivery[d].attempt, due |-> TRUE]
        BY <1>1, <3>1, <3>5
      <3>6. CASE /\ delivery[d].attempt \in tried[d]
                 /\ delivery'[d] = [status |-> "pending", attempt |-> delivery[d].attempt + 1,
                                    due |-> FALSE]
        BY <1>1, <3>1, <3>2, <3>3, <3>6
      <3>7. CASE /\ delivery[d].attempt \in tried[d] /\ delivery[d].attempt = MaxAttempts
                 /\ delivery'[d] = [status |-> "failed", attempt |-> delivery[d].attempt, due |-> TRUE]
        BY <1>1, <3>1, <3>3, <3>7
      <3>. QED
        BY CommitFacts, <3>4, <3>5, <3>6, <3>7
    <2>. QED
      BY <2>1 DEF VerdictIsTrue
  <1>. QED
    BY <1>2, <1>4, <1>5, <1>6, <1>7

LEMMA StutterStep ==
  ASSUME DeliveryInv, UNCHANGED vars
  PROVE  DeliveryInv'
  BY DEF DeliveryInv, vars, TypeOK, LocksAreBatches, ObjectsAreCurrent, RequestsAreKnown,
         VerdictIsTrue, Batch

LEMMA InvStep == DeliveryInv /\ [Next]_vars => DeliveryInv'
  <1>. SUFFICES ASSUME DeliveryInv, [Next]_vars PROVE DeliveryInv'
    OBVIOUS
  <1>1. CASE UNCHANGED vars
    BY <1>1, StutterStep
  <1>2. ASSUME NEW d \in Delivery, Create(d) \/ BecomesDue(d) PROVE DeliveryInv'
    BY <1>2, CreateStep, BecomesDueStep
  <1>3. ASSUME NEW w \in Worker,
               Claim(w) \/ Commit(w) \/ RollBack(w) \/ LoseConnection(w) \/ Restart(w)
        PROVE  DeliveryInv'
    BY <1>3, ClaimStep, CommitStep, RollBackStep, LoseConnectionStep, RestartStep
  <1>4. ASSUME NEW w \in Worker, NEW d \in Delivery, SendRaises(w, d) PROVE DeliveryInv'
    BY <1>4, SendRaisesStep
  <1>5. ASSUME NEW w \in Worker, NEW d \in Delivery, NEW outcome \in SendOutcomes,
               Send(w, d, outcome) \/ \E a \in 1..MaxAttempts : StraySend(w, d, a, outcome)
        PROVE  DeliveryInv'
    BY <1>5, SendStep, StraySendStep
  <1>. QED
    BY <1>1, <1>2, <1>3, <1>4, <1>5 DEF Next

(***************************************************************************)
(* The theorems.                                                            *)
(***************************************************************************)

\* The inductive invariant holds in every reachable state.
THEOREM Safety == Spec => []DeliveryInv
  <1>. QED
    BY InitIsRight, InvStep, PTL DEF Spec

\* FOR UPDATE SKIP LOCKED makes up for the unguarded UPDATE: no worker that can still commit
\* holds an object another one has overtaken.
THEOREM NothingOverwritten == Spec => []ObjectsAreCurrent
  <1>1. DeliveryInv => ObjectsAreCurrent
    BY DEF DeliveryInv
  <1>. QED
    BY <1>1, Safety, PTL

\* mark_success, record_failure: what the table says of a delivery is what its receiver was
\* sent and answered.
THEOREM VerdictsAreTrue == Spec => []VerdictIsTrue
  <1>1. DeliveryInv => VerdictIsTrue
    BY DEF DeliveryInv
  <1>. QED
    BY <1>1, Safety, PTL

(***************************************************************************)
(* The contract.  Creation accepts, a request that reaches its receiver     *)
(* publishes (or repeats what was published), a commit resolves.            *)
(***************************************************************************)
StateOfTable == [d \in Delivery |-> StateOf(delivery[d].status)]

LEMMA RequestResolves ==
  ASSUME DeliveryInv, NEW d \in Delivery, NEW a \in 1..MaxAttempts, NEW outcome,
         Request(d, a, outcome), UNCHANGED delivery, delivery[d].status # "absent"
  PROVE  Contract!Next \/ UNCHANGED <<StateOfTable, accepted>>
  <1>1. UNCHANGED StateOfTable
    BY DEF StateOfTable
  <1>2. StateOfTable[d] # "unknown"
    BY DEF StateOfTable, StateOf, DeliveryInv, TypeOK
  <1>3. CASE accepted' = accepted
    BY <1>1, <1>3
  <1>4. CASE accepted' # accepted
    <2>1. accepted' = [accepted EXCEPT ![d] = accepted[d] \cup {a}]
      BY <1>4 DEF Request
    <2>2. a \notin accepted[d]
      <3>1. SUFFICES ASSUME a \in accepted[d] PROVE accepted' = accepted
        BY <1>4
      <3>2. accepted[d] \cup {a} = accepted[d]
        BY <3>1
      <3>. QED
        BY <2>1, <3>2 DEF DeliveryInv, TypeOK
    <2>3. Contract!Publish(d, a)
      BY <1>1, <1>2, <2>1, <2>2 DEF Contract!Publish, StateOfTable
    <2>. QED
      BY <2>3 DEF Contract!Next
  <1>. QED
    BY <1>3, <1>4

LEMMA CommitResolves ==
  ASSUME DeliveryInv, NEW w \in Worker, Commit(w)
  PROVE  Contract!Next
  <1>1. UNCHANGED accepted
    BY DEF Commit
  <1>2. ASSUME NEW d \in Delivery
        PROVE  /\ StateOfTable'[d] \in Contract!State
               /\ Contract!MayBecome(d, StateOfTable'[d])
    <2>1. /\ StateOfTable'[d] = StateOf(delivery'[d].status)
          /\ StateOfTable[d] = StateOf(delivery[d].status)
      BY DEF StateOfTable
    <2>2. delivery[d].status \in {"absent", "pending", "success", "failed"}
      BY DEF DeliveryInv, TypeOK
    <2>3. CASE delivery'[d].status = delivery[d].status
      BY <2>1, <2>2, <2>3 DEF StateOf, Contract!State, Contract!MayBecome, StateOfTable
    <2>4. CASE /\ delivery[d].status = "pending" /\ delivery[d].attempt \in accepted[d]
               /\ delivery'[d].status = "success"
      BY <2>1, <2>4 DEF StateOf, Contract!State, Contract!MayBecome, StateOfTable
    <2>5. CASE delivery[d].status = "pending" /\ delivery'[d].status = "failed"
      BY <2>1, <2>5 DEF StateOf, Contract!State, Contract!MayBecome, StateOfTable
    <2>6. \/ delivery'[d].status = delivery[d].status
          \/ /\ delivery[d].status = "pending" /\ delivery[d].attempt \in accepted[d]
             /\ delivery'[d].status = "success"
          \/ delivery[d].status = "pending" /\ delivery'[d].status = "failed"
      <3>. DEFINE a == delivery[d].attempt
      <3>1. CASE delivery'[d] = delivery[d]
        BY <3>1
      <3>2. CASE /\ delivery[d].status = "pending" /\ a \in accepted[d]
                 /\ delivery'[d] = [status |-> "success", attempt |-> a, due |-> TRUE]
        BY <3>2
      <3>3. CASE /\ delivery[d].status = "pending"
                 /\ delivery'[d] = [status |-> "pending", attempt |-> a + 1, due |-> FALSE]
        BY <3>3
      <3>4. CASE /\ delivery[d].status = "pending"
                 /\ delivery'[d] = [status |-> "failed", attempt |-> a, due |-> TRUE]
        BY <3>4
      <3>. QED
        BY CommitFacts, <3>1, <3>2, <3>3, <3>4
    <2>. QED
      BY <2>3, <2>4, <2>5, <2>6
  <1>3. StateOfTable' \in [Delivery -> Contract!State]
    BY <1>2 DEF StateOfTable
  <1>4. Contract!Resolve
    BY <1>1, <1>2, <1>3 DEF Contract!Resolve, StateOfTable
  <1>. QED
    BY <1>4 DEF Contract!Next

LEMMA ContractStep ==
  ASSUME DeliveryInv, [Next]_vars
  PROVE  Contract!Next \/ UNCHANGED <<StateOfTable, accepted>>
  <1>1. ASSUME UNCHANGED <<delivery, accepted>> PROVE UNCHANGED <<StateOfTable, accepted>>
    BY <1>1 DEF StateOfTable
  <1>2. CASE UNCHANGED vars
    BY <1>1, <1>2 DEF vars
  <1>3. ASSUME NEW d \in Delivery, Create(d) PROVE Contract!Next
    <2>1. delivery' = [delivery EXCEPT ![d].status = "pending"] /\ delivery[d].status = "absent"
          /\ UNCHANGED accepted
      BY <1>3 DEF Create
    <2>2. /\ \A e \in Delivery : delivery'[e].status = IF e = d THEN "pending" ELSE delivery[e].status
          /\ StateOf("absent") = "unknown" /\ StateOf("pending") = "waiting"
      BY <2>1 DEF StateOf, DeliveryInv, TypeOK
    <2>3. StateOfTable' = [StateOfTable EXCEPT ![d] = "waiting"] /\ StateOfTable[d] = "unknown"
      <3>1. \A e \in Delivery :
              StateOfTable'[e] = IF e = d THEN "waiting" ELSE StateOfTable[e]
        BY <2>2 DEF StateOfTable
      <3>2. /\ StateOfTable = [e \in Delivery |-> StateOfTable[e]]
            /\ StateOfTable' = [e \in Delivery |-> StateOfTable'[e]]
        BY DEF StateOfTable
      <3>3. StateOfTable[d] = "unknown"
        BY <2>1, <2>2 DEF StateOfTable
      <3>. HIDE DEF StateOfTable
      <3>. QED
        BY <3>1, <3>2, <3>3
    <2>4. Contract!Accept(d)
      BY <2>1, <2>3 DEF Contract!Accept, StateOfTable
    <2>. QED
      BY <2>4 DEF Contract!Next
  <1>4. ASSUME NEW d \in Delivery, BecomesDue(d) PROVE UNCHANGED <<StateOfTable, accepted>>
    <2>1. \A e \in Delivery : delivery'[e].status = delivery[e].status
      BY <1>4 DEF BecomesDue, DeliveryInv, TypeOK
    <2>. QED
      BY <1>4, <2>1 DEF BecomesDue, StateOfTable
  <1>5. ASSUME NEW w \in Worker, Claim(w) \/ RollBack(w) \/ LoseConnection(w) \/ Restart(w)
        PROVE  UNCHANGED <<StateOfTable, accepted>>
    BY <1>1, <1>5 DEF Claim, RollBack, LoseConnection, Restart
  <1>6. ASSUME NEW w \in Worker, Commit(w) PROVE Contract!Next
    BY <1>6, CommitResolves
  <1>7. ASSUME NEW w \in Worker, NEW d \in Delivery, SendRaises(w, d)
        PROVE  UNCHANGED <<StateOfTable, accepted>>
    BY <1>1, <1>7 DEF SendRaises
  <1>8. ASSUME NEW w \in Worker, NEW d \in Delivery, NEW outcome \in SendOutcomes,
               Send(w, d, outcome)
        PROVE  Contract!Next \/ UNCHANGED <<StateOfTable, accepted>>
    <2>1. /\ snapshot[w][d] \in 1..MaxAttempts /\ delivery[d].status # "absent"
          /\ Request(d, snapshot[w][d], outcome) /\ UNCHANGED delivery
      BY <1>8 DEF Send, DeliveryInv, RequestsAreKnown, TypeOK
    <2>. QED
      BY <2>1, RequestResolves
  <1>9. ASSUME NEW w \in Worker, NEW d \in Delivery, NEW outcome \in SendOutcomes,
               NEW a \in 1..MaxAttempts, StraySend(w, d, a, outcome)
        PROVE  Contract!Next \/ UNCHANGED <<StateOfTable, accepted>>
    <2>1. /\ delivery[d].status # "absent"
          /\ Request(d, a, outcome) /\ UNCHANGED delivery
      BY <1>9 DEF StraySend, DeliveryInv, RequestsAreKnown
    <2>. QED
      BY <2>1, RequestResolves
  <1>. QED
    BY <1>2, <1>3, <1>4, <1>5, <1>6, <1>7, <1>8, <1>9 DEF Next

\* With every rollback, abandoned request and lost lock, the table keeps the at-least-once
\* contract: verdicts are final and a delivery called done has reached its receiver.
THEOREM Refinement == Spec => ContractSpec
  <1>1. Init => Contract!Init
    BY DEF Init, Contract!Init, StateOf
  <1>2. DeliveryInv /\ [Next]_vars => [Contract!Next]_Contract!vars
    BY ContractStep DEF Contract!vars, StateOfTable
  <1>. QED
    BY <1>1, <1>2, Safety, PTL DEF Spec, ContractSpec, Contract!Spec
=============================================================================
