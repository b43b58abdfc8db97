------------------------- MODULE WorkerProcessProofs -------------------------
(***************************************************************************)
(* ProcessInv holds in every reachable state of WorkerProcess: for any      *)
(* number of processes, callbacks and messages, any size of the pool, stops *)
(* and crashes at any step.  One lemma per action; those for the broker and *)
(* the tasks come first.                                                    *)
(***************************************************************************)
EXTENDS WorkerProcess, FiniteSetTheorems, TLAPS

USE DEF Asking, Connected, broker, database

\* The tasks by name.
LEMMA Tasks ==
  /\ Loop \subseteq Role /\ Callback \subseteq Role
  /\ \A r \in Role : r \in Loop \/ r \in Callback
  /\ \A c \in Callback : c \notin Loop
  BY WorkerAssumption DEF WorkerAssumption, Role, Loop

\* The sets of tasks are finite, and one task more is one connection more at most.
LEMMA Finite ==
  ASSUME NEW S \in SUBSET Role, NEW r
  PROVE  /\ IsFiniteSet(S) /\ Cardinality(S) \in Nat
         /\ Cardinality(S \cup {r}) <= Cardinality(S) + 1
         /\ \A T \in SUBSET S : Cardinality(T) <= Cardinality(S)
<1>1. IsFiniteSet({"webhook"}) /\ IsFiniteSet({"outbox"})
  BY FS_Singleton
<1>2. IsFiniteSet({"outbox", "webhook"})
  <2>1. {"outbox", "webhook"} = {"outbox"} \cup {"webhook"}
    OBVIOUS
  <2> QED
    BY <1>1, <2>1, FS_Union, Zenon
<1>3. IsFiniteSet(Role)
  BY <1>2, FS_Union, WorkerAssumption DEF WorkerAssumption, Role, Loop
<1>4. IsFiniteSet(S)
  BY <1>3, FS_Subset
<1>5. Cardinality(S) \in Nat
  BY <1>4, FS_CardinalityType
<1>6. Cardinality(S \cup {r}) <= Cardinality(S) + 1
  <2>1. Cardinality(S \cup {r}) = IF r \in S THEN Cardinality(S) ELSE Cardinality(S) + 1
    BY <1>4, FS_AddElement
  <2> QED
    BY <1>5, <2>1
<1>7. \A T \in SUBSET S : Cardinality(T) <= Cardinality(S)
  BY <1>4, FS_Subset
<1> QED
  BY <1>4, <1>5, <1>6, <1>7

Moves(p, r, step) == at' = [at EXCEPT ![p][r] = step]

\* One task goes on to a step it may be at.
LEMMA TaskMoves ==
  ASSUME ProcessInv, NEW p \in Process, NEW r \in Role, NEW step \in StepsOf(r),
         Moves(p, r, step)
  PROVE  /\ TasksAreTyped'
         /\ \A q \in Process, s \in Role :
              at'[q][s] = IF q = p /\ s = r THEN step ELSE at[q][s]
<1>0. TasksAreTyped
  BY DEF ProcessInv, TypeOK
<1>1. step \in Step
  BY DEF Step
<1>2. \A q \in Process, s \in Role :
        at'[q][s] = IF q = p /\ s = r THEN step ELSE at[q][s]
  BY <1>0 DEF TasksAreTyped, Moves
<1>3. at' \in [Process -> [Role -> Step]]
  BY <1>0, <1>1 DEF TasksAreTyped, Moves
<1> QED
  BY <1>0, <1>2, <1>3 DEF TasksAreTyped, Moves

\* All tasks of a process move at once.
LEMMA TasksMove ==
  ASSUME ProcessInv, NEW p \in Process, NEW f,
         f = [s \in Role |-> f[s]], \A s \in Role : f[s] \in StepsOf(s),
         at' = [at EXCEPT ![p] = f]
  PROVE  /\ TasksAreTyped'
         /\ \A q \in Process, s \in Role : at'[q][s] = IF q = p THEN f[s] ELSE at[q][s]
<1>0. TasksAreTyped
  BY DEF ProcessInv, TypeOK
<1>1. \A s \in Role : f[s] \in Step
  BY DEF Step
<1>2. f \in [Role -> Step]
  BY <1>1
<1>3. at' \in [Process -> [Role -> Step]]
  BY <1>0, <1>2 DEF TasksAreTyped
<1>4. \A q \in Process, s \in Role : at'[q][s] = IF q = p THEN f[s] ELSE at[q][s]
  BY <1>0 DEF TasksAreTyped
<1>5. \A q \in Process, s \in Role : at'[q][s] \in StepsOf(s)
  BY <1>0, <1>4 DEF TasksAreTyped
<1> QED
  BY <1>3, <1>4, <1>5 DEF TasksAreTyped

\* Connections that come back leave the pool within its size.
LEMMA PoolShrinks ==
  ASSUME TypeOK, ConnectionsAreHeld,
         \A q \in Process : out'[q] \in SUBSET out[q]
  PROVE  \A q \in Process : Cardinality(out'[q]) <= PoolSize
<1> SUFFICES ASSUME NEW q \in Process
             PROVE  Cardinality(out'[q]) <= PoolSize
  OBVIOUS
<1>1. out[q] \in SUBSET Role /\ out'[q] \in SUBSET Role
  BY DEF TypeOK
<1>2. Cardinality(out[q]) <= PoolSize
  BY DEF ConnectionsAreHeld
<1>3. Cardinality(out'[q]) <= Cardinality(out[q])
  BY <1>1, Finite
<1>4. Cardinality(out[q]) \in Nat /\ Cardinality(out'[q]) \in Nat
  BY <1>1, Finite
<1> QED
  BY <1>2, <1>3, <1>4, WorkerAssumption DEF WorkerAssumption

\* A process that runs has declared every queue the broker may need.
LEMMA RunningIsReady ==
  ASSUME ProcessInv, NEW p \in Process, phase[p] = "running"
  PROVE  topology = Topology
<1>1. Declared[phase[p]] = Topology
  BY DEF Declared
<1> QED
  BY <1>1 DEF ProcessInv, TypeOK, TopologyIsReady

\* What a callback works on has been published.
LEMMA HeldIsPublished ==
  ASSUME ProcessInv, NEW p \in Process, NEW c \in Callback, at[p][c] \notin {"off", "idle"}
  PROVE  /\ held[p][c] \in Message /\ place[held[p][c]] = "held"
         /\ topology = Topology
<1>1. held[p][c] # NoOne
  BY DEF ProcessInv, MessagesAreHeld
<1>2. held[p][c] \in Message
  BY <1>1 DEF ProcessInv, TypeOK
<1> QED
  BY <1>1, <1>2 DEF ProcessInv, MessagesAreHeld, TopologyIsReady

LEMMA StutterInv ==
  ASSUME ProcessInv, 
         UNCHANGED vars
  PROVE  ProcessInv'
<1> USE WorkerAssumption, Tasks DEF WorkerAssumption, Loop
<1>1. TypeOK'
  BY DEF ProcessInv, TypeOK, vars, TasksAreTyped, StepsOf, Step
<1>2. NothingDropped'
  BY DEF ProcessInv, vars, NothingDropped
<1>3. TopologyIsReady'
  BY DEF ProcessInv, TypeOK, vars, TasksAreTyped, StepsOf, Step, TopologyIsReady
<1>4. ConnectionsAreHeld'
  BY DEF ProcessInv, TypeOK, vars, TasksAreTyped, StepsOf, Step, ConnectionsAreHeld
<1>5. LockersRun'
  BY DEF ProcessInv, TypeOK, vars, TasksAreTyped, StepsOf, Step, LockersRun
<1>6. MessagesAreHeld'
  BY DEF ProcessInv, TypeOK, vars, TasksAreTyped, StepsOf, Step, MessagesAreHeld
<1>7. TasksHaveProcess'
  BY DEF ProcessInv, TypeOK, vars, TasksAreTyped, StepsOf, Step, TasksHaveProcess
<1> QED
  BY <1>1, <1>2, <1>3, <1>4, <1>5, <1>6, <1>7 DEF ProcessInv

LEMMA GetEngineInv ==
  ASSUME ProcessInv, NEW p \in Process, 
         GetEngine(p)
  PROVE  ProcessInv'
<1> USE WorkerAssumption, Tasks DEF WorkerAssumption, Loop
<1>1. TypeOK'
  BY DEF ProcessInv, TypeOK, GetEngine, TasksAreTyped, Declared
<1>2. NothingDropped'
  BY DEF ProcessInv, TypeOK, GetEngine, TasksAreTyped, Declared, NothingDropped
<1>3. TopologyIsReady'
  BY DEF ProcessInv, TypeOK, GetEngine, TasksAreTyped, Declared, TopologyIsReady
<1>4. ConnectionsAreHeld'
  BY DEF ProcessInv, TypeOK, GetEngine, TasksAreTyped, Declared, ConnectionsAreHeld
<1>5. LockersRun'
  BY DEF ProcessInv, TypeOK, GetEngine, TasksAreTyped, Declared, LockersRun
<1>6. MessagesAreHeld'
  BY DEF ProcessInv, TypeOK, GetEngine, TasksAreTyped, Declared, MessagesAreHeld
<1>7. TasksHaveProcess'
  BY DEF ProcessInv, TypeOK, GetEngine, TasksAreTyped, Declared, TasksHaveProcess
<1> QED
  BY <1>1, <1>2, <1>3, <1>4, <1>5, <1>6, <1>7 DEF ProcessInv

LEMMA StartBrokerInv ==
  ASSUME ProcessInv, NEW p \in Process, 
         StartBroker(p)
  PROVE  ProcessInv'
<1> USE WorkerAssumption, Tasks DEF WorkerAssumption, Loop
<1> DEFINE f == [s \in Role |-> IF s \in Callback THEN "idle" ELSE "off"]
<1>1. /\ TasksAreTyped'
      /\ \A q \in Process, s \in Role : at'[q][s] = IF q = p THEN f[s] ELSE at[q][s]
  <2>1. at' = [at EXCEPT ![p] = f]
    BY DEF StartBroker
  <2>2. \A s \in Role : f[s] \in StepsOf(s)
    BY DEF StepsOf
  <2> HIDE DEF f
  <2>3. f = [s \in Role |-> f[s]]
    BY DEF f
  <2> QED
    BY <2>1, <2>2, <2>3, TasksMove
<1>2. \A s \in Role : at[p][s] = "off"
  BY DEF ProcessInv, TasksHaveProcess, StartBroker
<1>3. \A c \in Callback : held[p][c] = NoOne
  BY <1>2 DEF ProcessInv, MessagesAreHeld
<1>5. TypeOK'
  BY <1>1, <1>2, <1>3 DEF ProcessInv, TypeOK, StartBroker, Topology, Declared
<1>6. NothingDropped'
  BY <1>1, <1>2, <1>3 DEF ProcessInv, TypeOK, StartBroker, Topology, Declared, NothingDropped
<1>7. TopologyIsReady'
  BY <1>1, <1>2, <1>3 DEF ProcessInv, TypeOK, StartBroker, Topology, Declared, TopologyIsReady
<1>8. ConnectionsAreHeld'
  BY <1>1, <1>2, <1>3 DEF ProcessInv, TypeOK, StartBroker, Topology, Declared, ConnectionsAreHeld
<1>9. LockersRun'
  BY <1>1, <1>2, <1>3 DEF ProcessInv, TypeOK, StartBroker, Topology, Declared, LockersRun
<1>10. MessagesAreHeld'
  BY <1>1, <1>2, <1>3 DEF ProcessInv, TypeOK, StartBroker, Topology, Declared, MessagesAreHeld
<1>11. TasksHaveProcess'
  BY <1>1, <1>2, <1>3 DEF ProcessInv, TypeOK, StartBroker, Topology, Declared, TasksHaveProcess
<1> QED
  BY <1>5, <1>6, <1>7, <1>8, <1>9, <1>10, <1>11 DEF ProcessInv

LEMMA DeclareInv ==
  ASSUME ProcessInv, NEW p \in Process, NEW now, NEW object, NEW next, 
         <<now, object, next>> \in {<<"consuming", "retry", "retry">>, <<"retry", "dlq", "dlq">>,
                                    <<"dlq", "binding", "running">>},
         Declare(p, now, object, next)
  PROVE  ProcessInv'
<1> USE WorkerAssumption, Tasks DEF WorkerAssumption, Loop
<1>1. /\ TasksAreTyped'
      /\ \A q \in Process, s \in Role :
           at'[q][s] = IF q = p THEN Gathered(p, next)[s] ELSE at[q][s]
  <2>1. at' = [at EXCEPT ![p] = Gathered(p, next)]
    BY DEF Declare
  <2>2. \A s \in Role : Gathered(p, next)[s] \in StepsOf(s)
    BY DEF Gathered, First, StepsOf, ProcessInv, TypeOK, TasksAreTyped
  <2>3. Gathered(p, next) = [s \in Role |-> Gathered(p, next)[s]]
    BY DEF Gathered
  <2> QED
    BY <2>1, <2>2, <2>3, TasksMove
<1>2. \A c \in Callback : at'[p][c] = at[p][c] /\ at[p][c] # "off"
  BY <1>1 DEF Gathered, ProcessInv, TasksHaveProcess, Declare
<1>3. \A s \in Loop : at[p][s] = "off" /\ at'[p][s] = IF next = "running" THEN First[s] ELSE "off"
  BY <1>1 DEF Gathered, ProcessInv, TasksHaveProcess, Declare
<1>4. \A q \in Process, c \in Callback : at'[q][c] = at[q][c]
  BY <1>1, <1>2
<1>5. \A s \in Loop : at'[p][s] = "off" \/ at'[p][s] = First[s]
  BY <1>3
<1>6. \A q \in Process, s \in Role : at'[q][s] \in Connected <=> at[q][s] \in Connected
  BY <1>1, <1>4, <1>3, <1>5 DEF First
<1>7. TypeOK'
  BY <1>1, <1>4 DEF ProcessInv, TypeOK, Declare, Topology, Declared
<1>8. NothingDropped'
  BY <1>1, <1>4 DEF ProcessInv, TypeOK, Declare, Topology, Declared, NothingDropped
<1>9. TopologyIsReady'
  BY <1>1, <1>4 DEF ProcessInv, TypeOK, Declare, Topology, Declared, TopologyIsReady
<1>10. ConnectionsAreHeld'
  BY <1>6 DEF ProcessInv, TypeOK, Declare, Topology, Declared, ConnectionsAreHeld
<1>11. LockersRun'
  BY <1>1, <1>4 DEF ProcessInv, TypeOK, Declare, Topology, Declared, LockersRun
<1>12. MessagesAreHeld'
  BY <1>1, <1>4 DEF ProcessInv, TypeOK, Declare, Topology, Declared, MessagesAreHeld
<1>13. TasksHaveProcess'
  <2>1. \A q \in Process : phase'[q] = IF q = p THEN next ELSE phase[q]
    BY DEF Declare, ProcessInv, TypeOK
  <2>2. next \in {"retry", "dlq", "running"}
    OBVIOUS
  <2>3. \A q \in Process, c \in Callback : at'[q][c] = "off" <=> phase'[q] \in {"down", "engine"}
    BY <1>2, <1>4, <2>1, <2>2 DEF ProcessInv, TasksHaveProcess
  <2>4. \A s \in Loop : at'[p][s] = "off" <=> phase'[p] # "running"
    BY <1>3, <2>1 DEF First
  <2>5. \A q \in Process, s \in Loop : q # p => (at'[q][s] = "off" <=> phase'[q] # "running")
    BY <1>1, <2>1 DEF ProcessInv, TasksHaveProcess
  <2> QED
    BY <2>3, <2>4, <2>5 DEF TasksHaveProcess
<1> QED
  BY <1>7, <1>8, <1>9, <1>10, <1>11, <1>12, <1>13 DEF ProcessInv

LEMMA CheckoutInv ==
  ASSUME ProcessInv, NEW p \in Process, NEW r \in Role, 
         Checkout(p, r)
  PROVE  ProcessInv'
<1> USE WorkerAssumption, Tasks DEF WorkerAssumption, Loop
<1> DEFINE step == IF r = "outbox" THEN Granted[at[p][r]]
                   ELSE IF r = "webhook" THEN "sending" ELSE "connected"
<1>1. step \in StepsOf(r) /\ step \in Connected /\ step # "charging"
  BY DEF StepsOf, ProcessInv, TypeOK, TasksAreTyped, Checkout, Granted
<1>2. Moves(p, r, step)
  BY DEF Moves, Checkout
<1> HIDE DEF step
<1>3. /\ TasksAreTyped'
      /\ \A q \in Process, s \in Role :
           at'[q][s] = IF q = p /\ s = r THEN step ELSE at[q][s]
  BY <1>1, <1>2, TaskMoves
<1>4. at[p][r] \in Asking /\ step \notin {"off", "idle"}
  BY <1>1 DEF Checkout
<1>7. TypeOK'
  BY <1>1, <1>3, <1>4 DEF ProcessInv, TypeOK, Checkout
<1>8. NothingDropped'
  BY <1>1, <1>3, <1>4 DEF ProcessInv, TypeOK, Checkout, NothingDropped
<1>9. TopologyIsReady'
  BY <1>1, <1>3, <1>4 DEF ProcessInv, TypeOK, Checkout, TopologyIsReady
<1>10. ConnectionsAreHeld'
  <2>1. \A q \in Process : out'[q] = IF q = p THEN out[q] \cup {r} ELSE out[q]
    BY DEF ProcessInv, TypeOK, Checkout
  <2>2. \A q \in Process : out'[q] = {s \in Role : at'[q][s] \in Connected}
    <3> SUFFICES ASSUME NEW q \in Process
                 PROVE  out'[q] = {s \in Role : at'[q][s] \in Connected}
      OBVIOUS
    <3>1. out[q] = {s \in Role : at[q][s] \in Connected}
      BY DEF ProcessInv, ConnectionsAreHeld
    <3>2. \A s \in Role : at'[q][s] \in Connected <=> at[q][s] \in Connected \/ (q = p /\ s = r)
      BY <1>1, <1>3
    <3>3. \A s : s \in out'[q] <=> s \in Role /\ at'[q][s] \in Connected
      <4>1. CASE q = p
        <5>1. out'[q] = out[q] \cup {r}
          BY <2>1, <4>1
        <5>2. \A s \in Role : at'[q][s] \in Connected <=> at[q][s] \in Connected \/ s = r
          BY <3>2, <4>1
        <5> HIDE DEF Connected
        <5> QED
          BY <3>1, <5>1, <5>2, Zenon
      <4>2. CASE q # p
        <5>1. \A s \in Role : at'[q][s] \in Connected <=> at[q][s] \in Connected
          BY <3>2, <4>2
        <5> HIDE DEF Connected
        <5> QED
          BY <2>1, <3>1, <4>2, <5>1
      <4> QED
        BY <4>1, <4>2
    <3> QED
      BY <3>3
  <2>3. Cardinality(out[p] \cup {r}) <= PoolSize
    <3>1. Cardinality(out[p] \cup {r}) <= Cardinality(out[p]) + 1 /\ Cardinality(out[p]) \in Nat
      BY Finite DEF ProcessInv, TypeOK
    <3>2. Cardinality(out[p] \cup {r}) \in Nat
      BY Finite DEF ProcessInv, TypeOK
    <3> QED
      BY <3>1, <3>2 DEF Checkout, PoolIsFree
  <2> QED
    BY <2>1, <2>2, <2>3 DEF ProcessInv, ConnectionsAreHeld
<1>11. LockersRun'
  BY <1>1, <1>3, <1>4 DEF ProcessInv, TypeOK, Checkout, LockersRun
<1>12. MessagesAreHeld'
  BY <1>1, <1>3, <1>4 DEF ProcessInv, TypeOK, Checkout, MessagesAreHeld
<1>13. TasksHaveProcess'
  BY <1>1, <1>3, <1>4 DEF ProcessInv, TypeOK, Checkout, TasksHaveProcess
<1> QED
  BY <1>7, <1>8, <1>9, <1>10, <1>11, <1>12, <1>13 DEF ProcessInv

LEMMA PoolTimeoutInv ==
  ASSUME ProcessInv, NEW p \in Process, NEW r \in Role, 
         PoolTimeout(p, r)
  PROVE  ProcessInv'
<1> USE WorkerAssumption, Tasks DEF WorkerAssumption, Loop
<1> DEFINE step == IF r \in Callback THEN "failed" ELSE First[r]
<1>1. step \in StepsOf(r) /\ step \notin Connected \cup {"off", "idle"}
  BY DEF StepsOf, First
<1>2. Moves(p, r, step)
  BY DEF Moves, PoolTimeout
<1> HIDE DEF step
<1>3. /\ TasksAreTyped'
      /\ \A q \in Process, s \in Role :
           at'[q][s] = IF q = p /\ s = r THEN step ELSE at[q][s]
  BY <1>1, <1>2, TaskMoves
<1>4. at[p][r] \in Asking
  BY DEF PoolTimeout
<1>7. TypeOK'
  BY <1>1, <1>3, <1>4 DEF ProcessInv, TypeOK, PoolTimeout
<1>8. NothingDropped'
  BY <1>1, <1>3, <1>4 DEF ProcessInv, TypeOK, PoolTimeout, NothingDropped
<1>9. TopologyIsReady'
  BY <1>1, <1>3, <1>4 DEF ProcessInv, TypeOK, PoolTimeout, TopologyIsReady
<1>10. ConnectionsAreHeld'
  BY <1>1, <1>3, <1>4 DEF ProcessInv, TypeOK, PoolTimeout, ConnectionsAreHeld
<1>11. LockersRun'
  BY <1>1, <1>3, <1>4 DEF ProcessInv, TypeOK, PoolTimeout, LockersRun
<1>12. MessagesAreHeld'
  BY <1>1, <1>3, <1>4 DEF ProcessInv, TypeOK, PoolTimeout, MessagesAreHeld
<1>13. TasksHaveProcess'
  BY <1>1, <1>3, <1>4 DEF ProcessInv, TypeOK, PoolTimeout, TasksHaveProcess
<1> QED
  BY <1>7, <1>8, <1>9, <1>10, <1>11, <1>12, <1>13 DEF ProcessInv

LEMMA ClaimedInv ==
  ASSUME ProcessInv, NEW p \in Process, 
         Claimed(p)
  PROVE  ProcessInv'
<1> USE WorkerAssumption, Tasks DEF WorkerAssumption, Loop
<1>1. /\ TasksAreTyped'
      /\ \A q \in Process, s \in Role :
           at'[q][s] = IF q = p /\ s = "outbox" THEN "publishing" ELSE at[q][s]
  <2>1. "publishing" \in StepsOf("outbox")
    BY DEF StepsOf, First, Claimed, EndUnitOfWork, Returned
  <2>2. Moves(p, "outbox", "publishing")
    BY DEF Moves, Claimed, EndUnitOfWork, Returned
  <2> QED
    BY <2>1, <2>2, TaskMoves
<1>2. at[p]["outbox"] = "claimed"
  BY DEF Claimed, EndUnitOfWork, Returned
<1>3. TypeOK'
  BY <1>1, <1>2 DEF ProcessInv, TypeOK, Claimed, EndUnitOfWork, Returned
<1>4. NothingDropped'
  BY <1>1, <1>2 DEF ProcessInv, TypeOK, Claimed, EndUnitOfWork, Returned, NothingDropped
<1>5. TopologyIsReady'
  BY <1>1, <1>2 DEF ProcessInv, TypeOK, Claimed, EndUnitOfWork, Returned, TopologyIsReady
<1>6. ConnectionsAreHeld'
  <2>1. \A q \in Process : out'[q] = {s \in Role : at'[q][s] \in Connected}
    BY <1>1, <1>2 DEF ProcessInv, TypeOK, ConnectionsAreHeld, Claimed, EndUnitOfWork, Returned
  <2>2. \A q \in Process : out'[q] \in SUBSET out[q]
    BY DEF ProcessInv, TypeOK, Claimed, EndUnitOfWork, Returned
  <2>3. \A q \in Process : Cardinality(out'[q]) <= PoolSize
    BY <2>2, PoolShrinks DEF ProcessInv
  <2> QED
    BY <2>1, <2>3 DEF ConnectionsAreHeld
<1>7. LockersRun'
  BY <1>1, <1>2 DEF ProcessInv, TypeOK, Claimed, EndUnitOfWork, Returned, LockersRun
<1>8. MessagesAreHeld'
  BY <1>1, <1>2 DEF ProcessInv, TypeOK, Claimed, EndUnitOfWork, Returned, MessagesAreHeld
<1>9. TasksHaveProcess'
  BY <1>1, <1>2 DEF ProcessInv, TypeOK, Claimed, EndUnitOfWork, Returned, TasksHaveProcess
<1> QED
  BY <1>3, <1>4, <1>5, <1>6, <1>7, <1>8, <1>9 DEF ProcessInv

LEMMA PublishInv ==
  ASSUME ProcessInv, NEW p \in Process, NEW m \in Message, 
         Publish(p, m)
  PROVE  ProcessInv'
<1> USE WorkerAssumption, Tasks DEF WorkerAssumption, Loop
<1>1. topology = Topology
  <2>1. phase[p] = "running"
    BY DEF ProcessInv, TasksHaveProcess, Publish
  <2> QED
    BY <2>1, RunningIsReady
<1>2. TypeOK'
  BY <1>1 DEF ProcessInv, TypeOK, Publish, Topology, TasksAreTyped
<1>3. NothingDropped'
  BY <1>1 DEF ProcessInv, TypeOK, Publish, Topology, TasksAreTyped, NothingDropped
<1>4. TopologyIsReady'
  BY <1>1 DEF ProcessInv, TypeOK, Publish, Topology, TasksAreTyped, TopologyIsReady
<1>5. ConnectionsAreHeld'
  BY <1>1 DEF ProcessInv, TypeOK, Publish, Topology, TasksAreTyped, ConnectionsAreHeld
<1>6. LockersRun'
  BY <1>1 DEF ProcessInv, TypeOK, Publish, Topology, TasksAreTyped, LockersRun
<1>7. MessagesAreHeld'
  BY <1>1 DEF ProcessInv, TypeOK, Publish, Topology, TasksAreTyped, MessagesAreHeld
<1>8. TasksHaveProcess'
  BY <1>1 DEF ProcessInv, TypeOK, Publish, Topology, TasksAreTyped, TasksHaveProcess
<1> QED
  BY <1>2, <1>3, <1>4, <1>5, <1>6, <1>7, <1>8 DEF ProcessInv

LEMMA PublishedInv ==
  ASSUME ProcessInv, NEW p \in Process, NEW r \in Role, 
         Published(p, r)
  PROVE  ProcessInv'
<1> USE WorkerAssumption, Tasks DEF WorkerAssumption, Loop
<1>1. /\ TasksAreTyped'
      /\ \A q \in Process, s \in Role :
           at'[q][s] = IF q = p /\ s = r THEN "marking" ELSE at[q][s]
  <2>1. "marking" \in StepsOf(r)
    BY DEF StepsOf, First, Published
  <2>2. Moves(p, r, "marking")
    BY DEF Moves, Published
  <2> QED
    BY <2>1, <2>2, TaskMoves
<1>2. r = "outbox" /\ at[p][r] = "publishing"
  BY DEF Published
<1>3. TypeOK'
  BY <1>1, <1>2 DEF ProcessInv, TypeOK, Published
<1>4. NothingDropped'
  BY <1>1, <1>2 DEF ProcessInv, TypeOK, Published, NothingDropped
<1>5. TopologyIsReady'
  BY <1>1, <1>2 DEF ProcessInv, TypeOK, Published, TopologyIsReady
<1>6. ConnectionsAreHeld'
  BY <1>1, <1>2 DEF ProcessInv, TypeOK, Published, ConnectionsAreHeld
<1>7. LockersRun'
  BY <1>1, <1>2 DEF ProcessInv, TypeOK, Published, LockersRun
<1>8. MessagesAreHeld'
  BY <1>1, <1>2 DEF ProcessInv, TypeOK, Published, MessagesAreHeld
<1>9. TasksHaveProcess'
  BY <1>1, <1>2 DEF ProcessInv, TypeOK, Published, TasksHaveProcess
<1> QED
  BY <1>3, <1>4, <1>5, <1>6, <1>7, <1>8, <1>9 DEF ProcessInv

LEMMA EndBatchInv ==
  ASSUME ProcessInv, NEW p \in Process, NEW r \in Role, 
         EndBatch(p, r)
  PROVE  ProcessInv'
<1> USE WorkerAssumption, Tasks DEF WorkerAssumption, Loop
<1>1. /\ TasksAreTyped'
      /\ \A q \in Process, s \in Role :
           at'[q][s] = IF q = p /\ s = r THEN First[r] ELSE at[q][s]
  <2>1. First[r] \in StepsOf(r)
    BY DEF StepsOf, First, EndBatch, EndUnitOfWork, Returned
  <2>2. Moves(p, r, First[r])
    BY DEF Moves, EndBatch, EndUnitOfWork, Returned
  <2> QED
    BY <2>1, <2>2, TaskMoves
<1>2. r \in Loop /\ at[p][r] \in Connected /\ First[r] \notin Connected \cup {"off"}
  BY DEF EndBatch, EndUnitOfWork, Returned, First
<1>3. TypeOK'
  BY <1>1, <1>2 DEF ProcessInv, TypeOK, EndBatch, EndUnitOfWork, Returned
<1>4. NothingDropped'
  BY <1>1, <1>2 DEF ProcessInv, TypeOK, EndBatch, EndUnitOfWork, Returned, NothingDropped
<1>5. TopologyIsReady'
  BY <1>1, <1>2 DEF ProcessInv, TypeOK, EndBatch, EndUnitOfWork, Returned, TopologyIsReady
<1>6. ConnectionsAreHeld'
  <2>1. \A q \in Process : out'[q] = {s \in Role : at'[q][s] \in Connected}
    BY <1>1, <1>2 DEF ProcessInv, TypeOK, ConnectionsAreHeld, EndBatch, EndUnitOfWork, Returned
  <2>2. \A q \in Process : out'[q] \in SUBSET out[q]
    BY DEF ProcessInv, TypeOK, EndBatch, EndUnitOfWork, Returned
  <2>3. \A q \in Process : Cardinality(out'[q]) <= PoolSize
    BY <2>2, PoolShrinks DEF ProcessInv
  <2> QED
    BY <2>1, <2>3 DEF ConnectionsAreHeld
<1>7. LockersRun'
  BY <1>1, <1>2 DEF ProcessInv, TypeOK, EndBatch, EndUnitOfWork, Returned, LockersRun
<1>8. MessagesAreHeld'
  BY <1>1, <1>2 DEF ProcessInv, TypeOK, EndBatch, EndUnitOfWork, Returned, MessagesAreHeld
<1>9. TasksHaveProcess'
  BY <1>1, <1>2 DEF ProcessInv, TypeOK, EndBatch, EndUnitOfWork, Returned, TasksHaveProcess
<1> QED
  BY <1>3, <1>4, <1>5, <1>6, <1>7, <1>8, <1>9 DEF ProcessInv

LEMMA DeliverInv ==
  ASSUME ProcessInv, NEW p \in Process, NEW c \in Callback, NEW m \in Message, 
         Deliver(p, c, m)
  PROVE  ProcessInv'
<1> USE WorkerAssumption, Tasks DEF WorkerAssumption, Loop
<1> DEFINE step == IF rejected[m] < MaxRetries THEN "asking" ELSE "exhausted"
<1>1. step \in StepsOf(c) /\ step \notin Connected \cup {"off", "idle"}
  BY WorkerAssumption DEF StepsOf
<1>2. Moves(p, c, step)
  BY DEF Moves, Deliver
<1> HIDE DEF step
<1>3. /\ TasksAreTyped'
      /\ \A q \in Process, s \in Role :
           at'[q][s] = IF q = p /\ s = c THEN step ELSE at[q][s]
  BY <1>1, <1>2, TaskMoves
<1>4. at[p][c] = "idle" /\ held[p][c] = NoOne
  BY DEF Deliver, ProcessInv, MessagesAreHeld
<1>7. TypeOK'
  BY <1>1, <1>3, <1>4 DEF ProcessInv, TypeOK, Deliver
<1>8. NothingDropped'
  BY <1>1, <1>3, <1>4 DEF ProcessInv, TypeOK, Deliver, NothingDropped
<1>9. TopologyIsReady'
  BY <1>1, <1>3, <1>4 DEF ProcessInv, TypeOK, Deliver, TopologyIsReady
<1>10. ConnectionsAreHeld'
  BY <1>1, <1>3, <1>4 DEF ProcessInv, TypeOK, Deliver, ConnectionsAreHeld
<1>11. LockersRun'
  BY <1>1, <1>3, <1>4 DEF ProcessInv, TypeOK, Deliver, LockersRun
<1>12. MessagesAreHeld'
  BY <1>1, <1>3, <1>4 DEF ProcessInv, TypeOK, Deliver, MessagesAreHeld
<1>13. TasksHaveProcess'
  BY <1>1, <1>3, <1>4 DEF ProcessInv, TypeOK, Deliver, TasksHaveProcess
<1> QED
  BY <1>7, <1>8, <1>9, <1>10, <1>11, <1>12, <1>13 DEF ProcessInv

\* The payment is settled, or its row is locked now.
LEMMA ClaimInv ==
  ASSUME ProcessInv, NEW p \in Process, NEW c \in Callback,
         Claim(p, c)
  PROVE  ProcessInv'
<1> USE WorkerAssumption, Tasks DEF WorkerAssumption, Loop
<1> DEFINE x == PaymentOf[held[p][c]]
<1> DEFINE step == IF x \in settled THEN "done" ELSE "charging"
<1>1. at[p][c] = "connected" /\ held[p][c] \in Message /\ x \in Payment
  BY HeldIsPublished DEF Claim
<1>2. step \in StepsOf(c) /\ step \notin {"off", "idle"} /\ (step \in Connected <=> x \notin settled)
  BY DEF StepsOf
<1>3. step = "charging" <=> x \notin settled
  OBVIOUS
<1>4. Moves(p, c, step)
  BY DEF Moves, Claim, EndUnitOfWork
<1>5. out' = IF x \in settled THEN [out EXCEPT ![p] = out[p] \ {c}] ELSE out
  BY DEF Claim, EndUnitOfWork, Returned
<1>6. /\ x \notin settled => lock[x] = NoOne
      /\ lock' = IF x \in settled THEN lock ELSE [lock EXCEPT ![x] = <<p, c>>]
  BY DEF Claim
<1>7. UNCHANGED <<phase, settled, faults, topology, place, held, rejected>>
  BY DEF Claim
<1> HIDE DEF step
<1>8. /\ TasksAreTyped'
      /\ \A q \in Process, s \in Role :
           at'[q][s] = IF q = p /\ s = c THEN step ELSE at[q][s]
  BY <1>2, <1>4, TaskMoves
<1>9. TypeOK'
  BY <1>1, <1>5, <1>6, <1>7, <1>8 DEF ProcessInv, TypeOK
<1>10. NothingDropped' /\ TopologyIsReady'
  BY <1>7 DEF ProcessInv, NothingDropped, TopologyIsReady
<1>11. ConnectionsAreHeld'
  <2>1. \A q \in Process : out'[q] = {s \in Role : at'[q][s] \in Connected}
    BY <1>1, <1>2, <1>5, <1>8 DEF ProcessInv, TypeOK, ConnectionsAreHeld
  <2>2. \A q \in Process : out'[q] \in SUBSET out[q]
    BY <1>5 DEF ProcessInv, TypeOK
  <2>3. \A q \in Process : Cardinality(out'[q]) <= PoolSize
    BY <2>2, PoolShrinks DEF ProcessInv
  <2> QED
    BY <2>1, <2>3 DEF ConnectionsAreHeld
<1>12. LockersRun'
  <2> SUFFICES ASSUME NEW y \in Payment, NEW q \in Process, NEW d \in Callback
               PROVE  lock'[y] = <<q, d>> <=> at'[q][d] = "charging" /\ PaymentOf[held'[q][d]] = y
    BY DEF LockersRun
  <2>1. lock[y] = <<q, d>> <=> at[q][d] = "charging" /\ PaymentOf[held[q][d]] = y
    BY DEF ProcessInv, LockersRun
  <2>2. lock'[y] = IF x \notin settled /\ y = x THEN <<p, c>> ELSE lock[y]
    BY <1>1, <1>6 DEF ProcessInv, TypeOK
  <2>3. at'[q][d] = IF q = p /\ d = c THEN step ELSE at[q][d]
    BY <1>8
  <2>4. NoOne # <<q, d>>
    OBVIOUS
  <2>5. <<p, c>> = <<q, d>> <=> q = p /\ d = c
    OBVIOUS
  <2>6. CASE q = p /\ d = c
    BY <1>1, <1>3, <1>6, <1>7, <2>1, <2>2, <2>3, <2>4, <2>6
  <2>7. CASE ~(q = p /\ d = c)
    BY <1>1, <1>3, <1>6, <1>7, <2>1, <2>2, <2>3, <2>4, <2>5, <2>7
  <2> QED
    BY <2>6, <2>7
<1>13. MessagesAreHeld'
  BY <1>1, <1>2, <1>7, <1>8 DEF ProcessInv, MessagesAreHeld
<1>14. TasksHaveProcess'
  BY <1>1, <1>2, <1>7, <1>8 DEF ProcessInv, TasksHaveProcess
<1> QED
  BY <1>9, <1>10, <1>11, <1>12, <1>13, <1>14 DEF ProcessInv

LEMMA CommitInv ==
  ASSUME ProcessInv, NEW p \in Process, NEW c \in Callback, 
         Commit(p, c)
  PROVE  ProcessInv'
<1> USE WorkerAssumption, Tasks DEF WorkerAssumption, Loop
<1>1. /\ TasksAreTyped'
      /\ \A q \in Process, s \in Role :
           at'[q][s] = IF q = p /\ s = c THEN "done" ELSE at[q][s]
  <2>1. "done" \in StepsOf(c)
    BY DEF StepsOf, First, Commit, EndUnitOfWork, Returned
  <2>2. Moves(p, c, "done")
    BY DEF Moves, Commit, EndUnitOfWork, Returned
  <2> QED
    BY <2>1, <2>2, TaskMoves
<1>2. at[p][c] = "charging"
  BY DEF Commit, EndUnitOfWork, Returned
<1>3. \A y \in Payment : lock'[y] = IF lock[y] = <<p, c>> THEN NoOne ELSE lock[y]
  BY DEF Commit, Unlocked
<1>4. held[p][c] \in Message /\ held' = held
  BY <1>2, HeldIsPublished DEF Commit
<1>5. TypeOK'
  BY <1>1, <1>3, <1>4 DEF ProcessInv, TypeOK, Commit, EndUnitOfWork, Returned, Unlocked
<1>6. NothingDropped'
  BY <1>1, <1>2, <1>3, <1>4 DEF ProcessInv, TypeOK, Commit, EndUnitOfWork, Returned, NothingDropped
<1>7. TopologyIsReady'
  BY <1>1, <1>2, <1>3, <1>4 DEF ProcessInv, TypeOK, Commit, EndUnitOfWork, Returned, TopologyIsReady
<1>8. ConnectionsAreHeld'
  <2>1. \A q \in Process : out'[q] = {s \in Role : at'[q][s] \in Connected}
    BY <1>1, <1>2, <1>3, <1>4 DEF ProcessInv, TypeOK, ConnectionsAreHeld, Commit, EndUnitOfWork, Returned
  <2>2. \A q \in Process : out'[q] \in SUBSET out[q]
    BY DEF ProcessInv, TypeOK, Commit, EndUnitOfWork, Returned
  <2>3. \A q \in Process : Cardinality(out'[q]) <= PoolSize
    BY <2>2, PoolShrinks DEF ProcessInv
  <2> QED
    BY <2>1, <2>3 DEF ConnectionsAreHeld
<1>9. LockersRun'
  <2> SUFFICES ASSUME NEW y \in Payment, NEW q \in Process, NEW d \in Callback
               PROVE  lock'[y] = <<q, d>> <=> at'[q][d] = "charging" /\ PaymentOf[held'[q][d]] = y
    BY DEF LockersRun
  <2>1. lock[y] = <<q, d>> <=> at[q][d] = "charging" /\ PaymentOf[held[q][d]] = y
    BY DEF ProcessInv, LockersRun
  <2>2. <<p, c>> = <<q, d>> <=> q = p /\ d = c
    OBVIOUS
  <2>3. NoOne # <<q, d>>
    OBVIOUS
  <2> QED
    BY <1>1, <1>3, <1>4, <2>1, <2>2, <2>3
<1>10. MessagesAreHeld'
  BY <1>1, <1>2, <1>3, <1>4 DEF ProcessInv, TypeOK, Commit, EndUnitOfWork, Returned, MessagesAreHeld
<1>11. TasksHaveProcess'
  BY <1>1, <1>2, <1>3, <1>4 DEF ProcessInv, TypeOK, Commit, EndUnitOfWork, Returned, TasksHaveProcess
<1> QED
  BY <1>5, <1>6, <1>7, <1>8, <1>9, <1>10, <1>11 DEF ProcessInv

LEMMA RollBackInv ==
  ASSUME ProcessInv, NEW p \in Process, NEW c \in Callback, 
         RollBack(p, c)
  PROVE  ProcessInv'
<1> USE WorkerAssumption, Tasks DEF WorkerAssumption, Loop
<1>1. /\ TasksAreTyped'
      /\ \A q \in Process, s \in Role :
           at'[q][s] = IF q = p /\ s = c THEN "failed" ELSE at[q][s]
  <2>1. "failed" \in StepsOf(c)
    BY DEF StepsOf, First, RollBack, EndUnitOfWork, Returned
  <2>2. Moves(p, c, "failed")
    BY DEF Moves, RollBack, EndUnitOfWork, Returned
  <2> QED
    BY <2>1, <2>2, TaskMoves
<1>2. at[p][c] \in {"connected", "charging"}
  BY DEF RollBack, EndUnitOfWork, Returned
<1>3. \A y \in Payment : lock'[y] = IF lock[y] = <<p, c>> THEN NoOne ELSE lock[y]
  BY DEF RollBack, Unlocked
<1>4. held[p][c] \in Message /\ held' = held
  BY <1>2, HeldIsPublished DEF RollBack
<1>5. TypeOK'
  BY <1>1, <1>3, <1>4 DEF ProcessInv, TypeOK, RollBack, EndUnitOfWork, Returned, Unlocked
<1>6. NothingDropped'
  BY <1>1, <1>2, <1>3, <1>4 DEF ProcessInv, TypeOK, RollBack, EndUnitOfWork, Returned, NothingDropped
<1>7. TopologyIsReady'
  BY <1>1, <1>2, <1>3, <1>4 DEF ProcessInv, TypeOK, RollBack, EndUnitOfWork, Returned, TopologyIsReady
<1>8. ConnectionsAreHeld'
  <2>1. \A q \in Process : out'[q] = {s \in Role : at'[q][s] \in Connected}
    BY <1>1, <1>2, <1>3, <1>4 DEF ProcessInv, TypeOK, ConnectionsAreHeld, RollBack, EndUnitOfWork, Returned
  <2>2. \A q \in Process : out'[q] \in SUBSET out[q]
    BY DEF ProcessInv, TypeOK, RollBack, EndUnitOfWork, Returned
  <2>3. \A q \in Process : Cardinality(out'[q]) <= PoolSize
    BY <2>2, PoolShrinks DEF ProcessInv
  <2> QED
    BY <2>1, <2>3 DEF ConnectionsAreHeld
<1>9. LockersRun'
  <2> SUFFICES ASSUME NEW y \in Payment, NEW q \in Process, NEW d \in Callback
               PROVE  lock'[y] = <<q, d>> <=> at'[q][d] = "charging" /\ PaymentOf[held'[q][d]] = y
    BY DEF LockersRun
  <2>1. lock[y] = <<q, d>> <=> at[q][d] = "charging" /\ PaymentOf[held[q][d]] = y
    BY DEF ProcessInv, LockersRun
  <2>2. <<p, c>> = <<q, d>> <=> q = p /\ d = c
    OBVIOUS
  <2>3. NoOne # <<q, d>>
    OBVIOUS
  <2> QED
    BY <1>1, <1>3, <1>4, <2>1, <2>2, <2>3
<1>10. MessagesAreHeld'
  BY <1>1, <1>2, <1>3, <1>4 DEF ProcessInv, TypeOK, RollBack, EndUnitOfWork, Returned, MessagesAreHeld
<1>11. TasksHaveProcess'
  BY <1>1, <1>2, <1>3, <1>4 DEF ProcessInv, TypeOK, RollBack, EndUnitOfWork, Returned, TasksHaveProcess
<1> QED
  BY <1>5, <1>6, <1>7, <1>8, <1>9, <1>10, <1>11 DEF ProcessInv

\* A copy to the DLQ that fails: the message is about to be rejected.
LEMMA SendFailsInv ==
  ASSUME ProcessInv, NEW p \in Process, NEW c \in Callback,
         SendFails(p, c)
  PROVE  ProcessInv'
<1> USE WorkerAssumption, Tasks DEF WorkerAssumption, Loop
<1>1. /\ TasksAreTyped'
      /\ \A q \in Process, s \in Role :
           at'[q][s] = IF q = p /\ s = c THEN "failed" ELSE at[q][s]
  <2>1. "failed" \in StepsOf(c)
    BY DEF StepsOf
  <2>2. Moves(p, c, "failed")
    BY DEF Moves, SendFails
  <2> QED
    BY <2>1, <2>2, TaskMoves
<1>2. at[p][c] = "exhausted" /\ UNCHANGED <<phase, faults, broker, database>>
  BY DEF SendFails
<1>0. /\ UNCHANGED <<phase, faults, topology, place, held, rejected, out, lock, settled>>
      /\ \A q \in Process, d \in Callback :
           /\ at'[q][d] = "charging" <=> at[q][d] = "charging"
           /\ at'[q][d] \in {"off", "idle"} <=> at[q][d] \in {"off", "idle"}
  BY <1>1, <1>2 DEF broker, database
<1>3. TypeOK' /\ NothingDropped' /\ TopologyIsReady'
  BY <1>0, <1>1 DEF ProcessInv, TypeOK, NothingDropped, TopologyIsReady
<1>4. ConnectionsAreHeld'
  BY <1>0, <1>1, <1>2 DEF ProcessInv, ConnectionsAreHeld
<1>5. LockersRun'
  BY <1>0 DEF ProcessInv, LockersRun
<1>6. MessagesAreHeld'
  BY <1>0 DEF ProcessInv, MessagesAreHeld
<1>7. TasksHaveProcess'
  BY <1>0, <1>1, <1>2 DEF ProcessInv, TasksHaveProcess
<1> QED
  BY <1>3, <1>4, <1>5, <1>6, <1>7 DEF ProcessInv

\* ack, nack or a copy to the DLQ: the topology is complete, since the message was published.
LEMMA AnswerInv ==
  ASSUME ProcessInv, NEW p \in Process, NEW c \in Callback,
         Ack(p, c) \/ Nack(p, c) \/ SendToDlq(p, c)
  PROVE  ProcessInv'
<1> USE WorkerAssumption, Tasks DEF WorkerAssumption, Loop
<1>1. at[p][c] \in {"done", "failed", "exhausted"}
  BY DEF Ack, Nack, SendToDlq, Answer
<1>2. held[p][c] \in Message /\ place[held[p][c]] = "held" /\ topology = Topology
  BY <1>1, HeldIsPublished
<1>3. PICK destination \in {"acked", "retry", "dlq"} :
        place' = [place EXCEPT ![held[p][c]] = destination]
  BY <1>2 DEF Ack, Nack, SendToDlq, Answer, Topology
<1>4. /\ TasksAreTyped'
      /\ \A q \in Process, s \in Role :
           at'[q][s] = IF q = p /\ s = c THEN "idle" ELSE at[q][s]
  <2>1. "idle" \in StepsOf(c)
    BY DEF StepsOf
  <2>2. Moves(p, c, "idle")
    BY DEF Moves, Ack, Nack, SendToDlq, Answer
  <2> QED
    BY <2>1, <2>2, TaskMoves
<1>5. /\ held' = [held EXCEPT ![p][c] = NoOne]
      /\ UNCHANGED <<phase, topology, faults, out, lock, settled>>
  BY DEF Ack, Nack, SendToDlq, Answer
<1>6. rejected' \in [Message -> Nat]
  BY <1>2 DEF Ack, Nack, OneMore, SendToDlq, ProcessInv, TypeOK
<1>7. \A q \in Process, d \in Callback :
        held'[q][d] = IF q = p /\ d = c THEN NoOne ELSE held[q][d]
  BY <1>5 DEF ProcessInv, TypeOK
<1>8. TypeOK'
  BY <1>2, <1>3, <1>4, <1>5, <1>6 DEF ProcessInv, TypeOK
<1>9. NothingDropped' /\ TopologyIsReady'
  BY <1>2, <1>3, <1>5 DEF ProcessInv, TypeOK, NothingDropped, TopologyIsReady
<1>10. ConnectionsAreHeld'
  BY <1>1, <1>4, <1>5 DEF ProcessInv, ConnectionsAreHeld
<1>11. LockersRun'
  <2> SUFFICES ASSUME NEW y \in Payment, NEW q \in Process, NEW d \in Callback
               PROVE  lock'[y] = <<q, d>> <=> at'[q][d] = "charging" /\ PaymentOf[held'[q][d]] = y
    BY DEF LockersRun
  <2>1. lock[y] = <<q, d>> <=> at[q][d] = "charging" /\ PaymentOf[held[q][d]] = y
    BY DEF ProcessInv, LockersRun
  <2> QED
    BY <1>1, <1>4, <1>5, <1>7, <2>1
<1>12. MessagesAreHeld'
  <2>1. \A q \in Process, d \in Callback :
          /\ at'[q][d] \in {"off", "idle"} <=> held'[q][d] = NoOne
          /\ held'[q][d] # NoOne => held'[q][d] \in Message /\ held'[q][d] # held[p][c]
    <3>1. \A q \in Process, d \in Callback :
            held[q][d] = held[p][c] /\ held[q][d] # NoOne => q = p /\ d = c
      BY DEF ProcessInv, MessagesAreHeld
    <3>2. \A q \in Process, d \in Callback : at[q][d] \in {"off", "idle"} <=> held[q][d] = NoOne
      BY DEF ProcessInv, MessagesAreHeld
    <3> QED
      <4> SUFFICES ASSUME NEW q \in Process, NEW d \in Callback
                   PROVE  /\ at'[q][d] \in {"off", "idle"} <=> held'[q][d] = NoOne
                          /\ held'[q][d] # NoOne =>
                               held'[q][d] \in Message /\ held'[q][d] # held[p][c]
        OBVIOUS
      <4>1. CASE q = p /\ d = c
        BY <1>4, <1>7, <4>1
      <4>2. CASE ~(q = p /\ d = c)
        <5>1. at'[q][d] = at[q][d] /\ held'[q][d] = held[q][d]
          BY <1>4, <1>7, <4>2
        <5>2. held[q][d] \in Message \cup {NoOne}
          BY DEF ProcessInv, TypeOK
        <5> QED
          BY <3>1, <3>2, <4>2, <5>1, <5>2
      <4> QED
        BY <4>1, <4>2
  <2>2. \A m \in Message : place'[m] = "held" => \E q \in Process, d \in Callback : held'[q][d] = m
    <3> SUFFICES ASSUME NEW m \in Message, place'[m] = "held"
                 PROVE  \E q \in Process, d \in Callback : held'[q][d] = m
      OBVIOUS
    <3>1. m # held[p][c] /\ place[m] = "held"
      BY <1>3 DEF ProcessInv, TypeOK
    <3>2. PICK q \in Process, d \in Callback : held[q][d] = m
      BY <3>1 DEF ProcessInv, MessagesAreHeld
    <3>3. held'[q][d] = m
      BY <1>7, <3>1, <3>2
    <3> QED
      BY <3>3
  <2>3. \A q \in Process, d \in Callback : held'[q][d] # NoOne => place'[held'[q][d]] = "held"
    BY <1>3, <1>7, <2>1 DEF ProcessInv, TypeOK, MessagesAreHeld
  <2>4. \A q1, q2 \in Process, d1, d2 \in Callback :
          held'[q1][d1] = held'[q2][d2] /\ held'[q1][d1] # NoOne => q1 = q2 /\ d1 = d2
    BY <1>7 DEF ProcessInv, MessagesAreHeld
  <2> QED
    BY <2>1, <2>2, <2>3, <2>4 DEF MessagesAreHeld
<1>13. TasksHaveProcess'
  BY <1>1, <1>4, <1>5 DEF ProcessInv, TasksHaveProcess
<1> QED
  BY <1>8, <1>9, <1>10, <1>11, <1>12, <1>13 DEF ProcessInv

LEMMA RetryExpiresInv ==
  ASSUME ProcessInv, NEW m \in Message, 
         RetryExpires(m)
  PROVE  ProcessInv'
<1> USE WorkerAssumption, Tasks DEF WorkerAssumption, Loop
<1>1. TypeOK'
  BY DEF ProcessInv, TypeOK, RetryExpires, TasksAreTyped
<1>2. NothingDropped'
  BY DEF ProcessInv, TypeOK, RetryExpires, TasksAreTyped, NothingDropped
<1>3. TopologyIsReady'
  BY DEF ProcessInv, TypeOK, RetryExpires, TasksAreTyped, TopologyIsReady
<1>4. ConnectionsAreHeld'
  BY DEF ProcessInv, TypeOK, RetryExpires, TasksAreTyped, ConnectionsAreHeld
<1>5. LockersRun'
  BY DEF ProcessInv, TypeOK, RetryExpires, TasksAreTyped, LockersRun
<1>6. MessagesAreHeld'
  BY DEF ProcessInv, TypeOK, RetryExpires, TasksAreTyped, MessagesAreHeld
<1>7. TasksHaveProcess'
  BY DEF ProcessInv, TypeOK, RetryExpires, TasksAreTyped, TasksHaveProcess
<1> QED
  BY <1>1, <1>2, <1>3, <1>4, <1>5, <1>6, <1>7 DEF ProcessInv

LEMMA StopInv ==
  ASSUME ProcessInv, NEW p \in Process, 
         Stop(p)
  PROVE  ProcessInv'
<1> USE WorkerAssumption, Tasks DEF WorkerAssumption, Loop
<1> DEFINE f == [s \in Role |-> IF s \in Loop THEN "off" ELSE at[p][s]]
<1>1. /\ TasksAreTyped'
      /\ \A q \in Process, s \in Role : at'[q][s] = IF q = p THEN f[s] ELSE at[q][s]
  <2>1. at' = [at EXCEPT ![p] = f]
    BY DEF Stop
  <2>2. \A s \in Role : f[s] \in StepsOf(s)
    BY DEF StepsOf, ProcessInv, TypeOK, TasksAreTyped
  <2> HIDE DEF f
  <2>3. f = [s \in Role |-> f[s]]
    BY DEF f
  <2> QED
    BY <2>1, <2>2, <2>3, TasksMove
<1>2. \A q \in Process, c \in Callback : at'[q][c] = at[q][c]
  BY <1>1
<1>4. TypeOK'
  BY <1>1, <1>2 DEF ProcessInv, TypeOK, Stop, Declared
<1>5. NothingDropped'
  BY <1>1, <1>2 DEF ProcessInv, TypeOK, Stop, Declared, NothingDropped
<1>6. TopologyIsReady'
  BY <1>1, <1>2 DEF ProcessInv, TypeOK, Stop, Declared, TopologyIsReady
<1>7. ConnectionsAreHeld'
  <2>1. \A q \in Process : out'[q] = {s \in Role : at'[q][s] \in Connected}
    BY <1>1, <1>2 DEF ProcessInv, TypeOK, ConnectionsAreHeld, Stop
  <2>2. \A q \in Process : out'[q] \in SUBSET out[q]
    BY DEF ProcessInv, TypeOK, Stop
  <2>3. \A q \in Process : Cardinality(out'[q]) <= PoolSize
    BY <2>2, PoolShrinks DEF ProcessInv
  <2> QED
    BY <2>1, <2>3 DEF ConnectionsAreHeld
<1>8. LockersRun'
  BY <1>1, <1>2 DEF ProcessInv, TypeOK, Stop, Declared, LockersRun
<1>9. MessagesAreHeld'
  BY <1>1, <1>2 DEF ProcessInv, TypeOK, Stop, Declared, MessagesAreHeld
<1>10. TasksHaveProcess'
  BY <1>1, <1>2 DEF ProcessInv, TypeOK, Stop, Declared, TasksHaveProcess
<1> QED
  BY <1>4, <1>5, <1>6, <1>7, <1>8, <1>9, <1>10 DEF ProcessInv

\* A process is gone: its transactions with it, and what it had not answered is queued again.
LEMMA GoneInv ==
  ASSUME ProcessInv, NEW p \in Process,
         Exit(p) \/ Crash(p)
  PROVE  ProcessInv'
<1> USE WorkerAssumption, Tasks DEF WorkerAssumption, Loop
<1> DEFINE f == [s \in Role |-> "off"]
<1>1. /\ TasksAreTyped'
      /\ \A q \in Process, s \in Role : at'[q][s] = IF q = p THEN "off" ELSE at[q][s]
  <2>1. at' = [at EXCEPT ![p] = f]
    BY DEF Exit, Crash, Gone
  <2>2. \A s \in Role : f[s] \in StepsOf(s)
    BY DEF StepsOf
  <2>3. \A s \in Role : f[s] = "off"
    OBVIOUS
  <2> HIDE DEF f
  <2>4. f = [s \in Role |-> f[s]]
    BY DEF f
  <2> QED
    BY <2>1, <2>2, <2>3, <2>4, TasksMove
<1>2. \A q \in Process, c \in Callback : held'[q][c] = IF q = p THEN NoOne ELSE held[q][c]
  BY DEF Exit, Crash, Gone, ProcessInv, TypeOK
<1>3. \A m \in Message :
        place'[m] = IF \E c \in Callback : held[p][c] = m THEN "new" ELSE place[m]
  BY DEF Exit, Crash, Gone, HeldBy
<1>4. \A x \in Payment :
        lock'[x] = IF lock[x] \in {p} \X Callback THEN NoOne ELSE lock[x]
  BY DEF Exit, Crash, Gone
<1>5. \A q \in Process : out'[q] = IF q = p THEN {} ELSE out[q]
  BY DEF Exit, Crash, Gone, ProcessInv, TypeOK
<1>6. \A q \in Process : phase'[q] = IF q = p THEN "down" ELSE phase[q]
  BY DEF Exit, Crash, Gone, ProcessInv, TypeOK
<1>7. TypeOK'
  <2>1. TypeOK
    BY DEF ProcessInv
  <2>2. /\ phase' = [phase EXCEPT ![p] = "down"]
        /\ out' = [out EXCEPT ![p] = {}]
        /\ held' = [held EXCEPT ![p] = [c \in Callback |-> NoOne]]
        /\ UNCHANGED <<topology, settled, rejected>>
    BY DEF Exit, Crash, Gone
  <2>3. place' \in [Message -> {"stored", "new", "held", "retry", "acked", "dlq", "dropped"}]
    BY <2>1 DEF Exit, Crash, Gone, TypeOK
  <2>4. lock' \in [Payment -> (Process \X Callback) \cup {NoOne}]
    <3>1. \A x \in Payment : lock[x] \in (Process \X Callback) \cup {NoOne}
      BY <2>1 DEF TypeOK
    <3> QED
      BY <3>1 DEF Exit, Crash, Gone
  <2>5. faults' \in 0..MaxFaults
    BY <2>1 DEF Exit, Crash, TypeOK
  <2>6. held' \in [Process -> [Callback -> Message \cup {NoOne}]]
    BY <2>1, <2>2 DEF TypeOK
  <2> QED
    BY <1>1, <2>1, <2>2, <2>3, <2>4, <2>5, <2>6 DEF TypeOK
<1>8. \A m \in Message : place'[m] = "stored" <=> place[m] = "stored"
  <2> SUFFICES ASSUME NEW m \in Message
               PROVE  place'[m] = "stored" <=> place[m] = "stored"
    OBVIOUS
  <2>1. CASE \E c \in Callback : held[p][c] = m
    <3>1. place[m] = "held"
      BY <2>1 DEF ProcessInv, MessagesAreHeld
    <3> QED
      BY <1>3, <2>1, <3>1
  <2>2. CASE ~\E c \in Callback : held[p][c] = m
    BY <1>3, <2>2
  <2> QED
    BY <2>1, <2>2
<1>9. NothingDropped'
  BY <1>3 DEF ProcessInv, NothingDropped
<1>10. TopologyIsReady'
  <2>1. topology' = topology
    BY DEF Exit, Crash, Gone
  <2>2. \A q \in Process : Declared[phase'[q]] \subseteq topology
    <3>1. Declared["down"] = {}
      BY DEF Declared
    <3>2. \A q \in Process : Declared[phase[q]] \subseteq topology
      BY DEF ProcessInv, TopologyIsReady
    <3> QED
      BY <1>6, <3>1, <3>2
  <2>3. (\E m \in Message : place'[m] # "stored") => topology = Topology
    BY <1>8 DEF ProcessInv, TopologyIsReady
  <2> QED
    BY <2>1, <2>2, <2>3 DEF TopologyIsReady
<1>11. ConnectionsAreHeld'
  <2>1. \A q \in Process : out'[q] = {s \in Role : at'[q][s] \in Connected}
    BY <1>1, <1>5 DEF ProcessInv, ConnectionsAreHeld
  <2>2. \A q \in Process : out'[q] \in SUBSET out[q]
    BY <1>5
  <2>3. \A q \in Process : Cardinality(out'[q]) <= PoolSize
    BY <2>2, PoolShrinks DEF ProcessInv
  <2> QED
    BY <2>1, <2>3 DEF ConnectionsAreHeld
<1>12. LockersRun'
  <2> SUFFICES ASSUME NEW y \in Payment, NEW q \in Process, NEW d \in Callback
               PROVE  lock'[y] = <<q, d>> <=> at'[q][d] = "charging" /\ PaymentOf[held'[q][d]] = y
    BY DEF LockersRun
  <2>1. lock[y] = <<q, d>> <=> at[q][d] = "charging" /\ PaymentOf[held[q][d]] = y
    BY DEF ProcessInv, LockersRun
  <2>2. NoOne # <<q, d>>
    OBVIOUS
  <2>3. CASE q = p
    <3>1. lock'[y] # <<q, d>>
      BY <1>4, <2>2, <2>3
    <3> QED
      BY <1>1, <2>3, <3>1
  <2>4. CASE q # p
    <3>1. lock'[y] = <<q, d>> <=> lock[y] = <<q, d>>
      BY <1>4, <2>2, <2>4
    <3> QED
      BY <1>1, <1>2, <2>1, <2>4, <3>1
  <2> QED
    BY <2>3, <2>4
<1>13. MessagesAreHeld'
  <2>1. \A m \in Message : place'[m] = "held" => \E q \in Process, d \in Callback : held'[q][d] = m
    <3> SUFFICES ASSUME NEW m \in Message, place'[m] = "held"
                 PROVE  \E q \in Process, d \in Callback : held'[q][d] = m
      OBVIOUS
    <3>1. place[m] = "held" /\ ~\E c \in Callback : held[p][c] = m
      BY <1>3
    <3>2. PICK q \in Process, d \in Callback : held[q][d] = m
      BY <3>1 DEF ProcessInv, MessagesAreHeld
    <3>3. held'[q][d] = m
      BY <1>2, <3>1, <3>2
    <3> QED
      BY <3>3
  <2>2. \A q \in Process, d \in Callback : at'[q][d] \in {"off", "idle"} <=> held'[q][d] = NoOne
    BY <1>1, <1>2 DEF ProcessInv, MessagesAreHeld
  <2>3. \A q \in Process, d \in Callback : held'[q][d] # NoOne => place'[held'[q][d]] = "held"
    <3> SUFFICES ASSUME NEW q \in Process, NEW d \in Callback, held'[q][d] # NoOne
                 PROVE  place'[held'[q][d]] = "held"
      OBVIOUS
    <3>1. q # p /\ held'[q][d] = held[q][d] /\ held[q][d] \in Message
      BY <1>2 DEF ProcessInv, TypeOK
    <3>2. place[held[q][d]] = "held" /\ ~\E c \in Callback : held[p][c] = held[q][d]
      BY <3>1 DEF ProcessInv, MessagesAreHeld
    <3> QED
      BY <1>3, <3>1, <3>2
  <2>4. \A q1, q2 \in Process, d1, d2 \in Callback :
          held'[q1][d1] = held'[q2][d2] /\ held'[q1][d1] # NoOne => q1 = q2 /\ d1 = d2
    BY <1>2 DEF ProcessInv, MessagesAreHeld
  <2> QED
    BY <2>1, <2>2, <2>3, <2>4 DEF MessagesAreHeld
<1>14. TasksHaveProcess'
  BY <1>1, <1>6 DEF ProcessInv, TasksHaveProcess
<1> QED
  BY <1>7, <1>9, <1>10, <1>11, <1>12, <1>13, <1>14 DEF ProcessInv

LEMMA InitInv ==
  ASSUME Init
  PROVE  ProcessInv
<1> USE WorkerAssumption, Tasks DEF WorkerAssumption, Loop, Init
<1>1. TasksAreTyped
  BY DEF TasksAreTyped, Step, StepsOf
<1>2. TypeOK
  BY <1>1 DEF TypeOK
<1>3. NothingDropped /\ TopologyIsReady
  BY DEF NothingDropped, TopologyIsReady, Declared
<1>4. ConnectionsAreHeld
  BY FS_EmptySet DEF ConnectionsAreHeld
<1>5. LockersRun
  BY DEF LockersRun
<1>6. MessagesAreHeld /\ TasksHaveProcess
  BY DEF MessagesAreHeld, TasksHaveProcess
<1> QED
  BY <1>2, <1>3, <1>4, <1>5, <1>6 DEF ProcessInv

LEMMA NextInv ==
  ASSUME ProcessInv, [Next]_vars
  PROVE  ProcessInv'
<1>1. CASE UNCHANGED vars
  BY <1>1, StutterInv
<1>2. ASSUME NEW m \in Message, RetryExpires(m)
      PROVE  ProcessInv'
  BY <1>2, RetryExpiresInv
<1>3. ASSUME NEW p \in Process, NEW m \in Message, Publish(p, m)
      PROVE  ProcessInv'
  BY <1>3, PublishInv
<1>4. ASSUME NEW p \in Process, NEW c \in Callback, NEW m \in Message, Deliver(p, c, m)
      PROVE  ProcessInv'
  BY <1>4, DeliverInv
<1>5. ASSUME NEW p \in Process, Start(p) \/ Claimed(p) \/ Stop(p) \/ Exit(p) \/ Crash(p)
      PROVE  ProcessInv'
  <2>1. CASE DeclareTopology(p)
    <3>1. CASE Declare(p, "consuming", "retry", "retry")
      BY <3>1, DeclareInv
    <3>2. CASE Declare(p, "retry", "dlq", "dlq")
      BY <3>2, DeclareInv
    <3>3. CASE Declare(p, "dlq", "binding", "running")
      BY <3>3, DeclareInv
    <3> QED
      BY <2>1, <3>1, <3>2, <3>3 DEF DeclareTopology
  <2> QED
    BY <1>5, <2>1, GetEngineInv, StartBrokerInv, ClaimedInv, StopInv, GoneInv DEF Start
<1>6. ASSUME NEW p \in Process, NEW r \in Role,
             Work(p, r) \/ Checkout(p, r) \/ PoolTimeout(p, r) \/ RollBack(p, r) \/ SendFails(p, r)
      PROVE  ProcessInv'
  <2>1. \/ Claim(p, r) \/ Commit(p, r) \/ RollBack(p, r)
        \/ Ack(p, r) \/ Nack(p, r) \/ SendToDlq(p, r) \/ SendFails(p, r)
        => r \in Callback
    BY DEF Claim, Commit, RollBack, Ack, Nack, SendToDlq, SendFails, Answer
  <2> QED
    BY <1>6, <2>1, PublishedInv, EndBatchInv, CheckoutInv, PoolTimeoutInv, ClaimInv, CommitInv,
       RollBackInv, AnswerInv, SendFailsInv DEF Work
<1> QED
  BY <1>1, <1>2, <1>3, <1>4, <1>5, <1>6 DEF Next

\* The inductive invariant of the worker process, for any processes, callbacks and pool.
THEOREM Safety == Spec => []ProcessInv
<1>1. Init => ProcessInv
  BY InitInv
<1>2. ProcessInv /\ [Next]_vars => ProcessInv'
  BY NextInv
<1> QED
  BY <1>1, <1>2, PTL DEF Spec

\* broker.start before declare_topology drops no message, whoever publishes and dies when.
THEOREM TopologySuffices == Spec => []NothingDropped
<1>1. ProcessInv => NothingDropped
  BY DEF ProcessInv
<1> QED
  BY <1>1, Safety, PTL

\* A unit of work has one connection, the pool is never overdrawn, and what a process held is
\* free once it is gone.
THEOREM ConnectionsComeBack == Spec => []ConnectionsAreHeld
<1>1. ProcessInv => ConnectionsAreHeld
  BY DEF ProcessInv
<1> QED
  BY <1>1, Safety, PTL

\* No callback that has locked a payment's row waits for a connection or for another lock.
THEOREM NoCircularWait == Spec => []LockersRun
<1>1. ProcessInv => LockersRun
  BY DEF ProcessInv
<1> QED
  BY <1>1, Safety, PTL
=============================================================================
