------------------------- MODULE BlueGreenDeployProofs -------------------------
(***************************************************************************)
(* Proofs about BlueGreenDeploy, for any number of deployments and any of   *)
(* its failures.  Undisturbed, one run works at a time, so that what is     *)
(* known of the host is told by how far that run is (RunIsRight), or else   *)
(* by whether a deployment has succeeded before (RestIsRight).              *)
(***************************************************************************)
EXTENDS BlueGreenDeploy, TLAPS

\* There are two colours.
LEMMA Colours ==
  /\ Other("blue") = "green" /\ Other("green") = "blue"
  /\ \A c \in Colour : Other(c) \in Colour \ {c} /\ Other(Other(c)) = c
  /\ \A c, o \in Colour : o # c => o = Other(c)
<1>1. Other("blue") = "green" /\ Other("green") = "blue"
  BY DEF Other, Colour
<1> QED
  BY <1>1 DEF Colour

\* Nothing runs, nothing has happened.
LEMMA InitInv == Init => DeployInv
<1> SUFFICES ASSUME Init
             PROVE  DeployInv
  OBVIOUS
<1> USE DEF Init
<1>1. TypeOK
  BY DEF TypeOK, Colour, Working, Switching
<1>2. OneAtATime /\ \A d \in Deploy : pc[d] \notin Working
  BY DEF OneAtATime, Working, Switching
<1>3. RestIsRight
  <2>1. ~Deployed
    BY DEF Deployed
  <2>2. backend = "blue" /\ snippet = "blue" /\ ~Runs("green")
    BY DEF Runs, Colour
  <2> QED
    BY <2>1, <2>2 DEF RestIsRight, Misleading
<1> QED
  BY <1>1, <1>2, <1>3 DEF DeployInv

\* What the next command finds when nothing has disturbed the runs.
LEMMA Undisturbing ==
  ASSUME DeployInv, Undisturbed, NEW d \in Deploy, pc[d] \in Working
  PROVE  /\ RunIsRight(d)
         /\ \A e \in Deploy : e # d => pc[e] \notin Working
         /\ target[d] \in Colour /\ active[d] \in Colour \cup {NoColour}
         /\ Deployed => active[d] \in Colour
BY Colours, ColourAssumption DEF DeployInv, OneAtATime, TypeOK, RunIsRight

\* A command of run d concerns no other run: there is none.
LEMMA CommandOf ==
  ASSUME DeployInv, TypeOK', NEW d \in Deploy, pc[d] \in Working, NEW place, Goto(d, place),
         disturbed \subseteq disturbed',
         Undisturbed' => IF place \in Working THEN RunIsRight(d)' ELSE RestIsRight'
  PROVE  DeployInv'
<1> SUFFICES ASSUME Undisturbed'
             PROVE  /\ OneAtATime'
                    /\ \A e \in Deploy : pc'[e] \in Working => RunIsRight(e)'
                    /\ Resting' => RestIsRight'
  BY DEF DeployInv
<1>1. Undisturbed
  BY DEF Undisturbed
<1>2. pc'[d] = place /\ \A e \in Deploy : e # d => pc'[e] = pc[e] /\ pc'[e] \notin Working
  BY <1>1, Undisturbing DEF Goto, DeployInv, TypeOK
<1>3. OneAtATime'
  BY <1>2 DEF OneAtATime
<1>4. ASSUME NEW e \in Deploy, pc'[e] \in Working
      PROVE  RunIsRight(e)'
  BY <1>2, <1>4
<1>5. Resting' => RestIsRight'
  BY <1>2 DEF Resting
<1> QED
  BY <1>3, <1>4, <1>5

\* As long as no run ends well, the same deployments have succeeded.
LEMMA StillDeployed ==
  ASSUME TypeOK, NEW d \in Deploy, NEW place, Goto(d, place), pc[d] # "done", place # "done"
  PROVE  Deployed' <=> Deployed
BY DEF Deployed, Goto, TypeOK

-----------------------------------------------------------------------------
(* The commands. *)

\* The running colour is the serving one; the other becomes the target.
LEMMA DetectInv ==
  ASSUME DeployInv, NEW d \in Deploy, Detect(d)
  PROVE  DeployInv'
<1> USE DEF DeployInv, Detect, Begin, host, Goto
<1>0. Found \in Colour \cup {NoColour}
      /\ (Found = NoColour => ~Runs("blue") /\ ~Runs("green"))
      /\ (Found # NoColour => Runs(Found))
      /\ (Found = "green" => ~Runs("blue"))
  BY ColourAssumption DEF Found, Colour
<1>1. TypeOK'
  <2>1. Found # NoColour => Other(Found) \in Colour \ {Found}
    BY <1>0, Colours
  <2>2. active' \in [Deploy -> Colour \cup {NoColour}] /\ target' \in [Deploy -> Colour \cup {NoColour}]
    BY <1>0, <2>1 DEF TypeOK, Colour
  <2>3. target'[d] \in Colour \ {active'[d]}
    BY <1>0, <2>1, ColourAssumption DEF TypeOK, Colour
  <2>4. \A e \in Deploy : e # d =>
          pc'[e] = pc[e] /\ target'[e] = target[e] /\ active'[e] = active[e]
    BY DEF TypeOK
  <2>5. pc' \in [Deploy -> {"begin"} \cup Working \cup Ended] /\ disturbed' \subseteq {"overlap", "leftover", "switch", "config"}
    BY DEF TypeOK, Working, Disturb
  <2>6. \A e \in Deploy : pc'[e] \in Working => target'[e] \in Colour \ {active'[e]}
    BY <2>3, <2>4 DEF TypeOK
  <2> QED
    BY <2>2, <2>5, <2>6 DEF TypeOK
<1> SUFFICES ASSUME Undisturbed'
             PROVE  /\ OneAtATime'
                    /\ \A e \in Deploy : pc'[e] \in Working => RunIsRight(e)'
                    /\ Resting' => RestIsRight'
  BY <1>1
<1>2. Undisturbed /\ Resting
  BY DEF Undisturbed, Disturb, Resting
<1>3. pc'[d] = "detected" /\ \A e \in Deploy : e # d => pc'[e] = pc[e] /\ pc'[e] \notin Working
  BY <1>2 DEF TypeOK, Resting
<1>4. Deployed' <=> Deployed
  BY StillDeployed
<1>5. active'[d] = Found /\ target'[d] = (IF Found = NoColour THEN "blue" ELSE Other(Found))
  BY DEF TypeOK
<1>6. RunIsRight(d)'
  <2>0. /\ backend = snippet /\ ~Misleading /\ backend \in Colour
        /\ IF Deployed THEN Serving ELSE backend = "blue" /\ (Runs("green") => Runs("blue"))
    BY <1>2 DEF RestIsRight, TypeOK
  <2>1. CASE Found = NoColour
    <3>1. ~Runs("blue") /\ ~Runs("green")
      BY <1>0, <2>1
    <3>2. ~Deployed
      BY <2>0, <3>1 DEF Serving, Runs, Colour
    <3> QED
      BY <1>3, <1>4, <1>5, <2>0, <2>1, <3>1, <3>2 DEF RunIsRight, Runs
  <2>2. CASE Found # NoColour
    <3>1. Found = backend
      BY <1>0, <2>0, <2>2 DEF Misleading, Serving, Runs, Colour
    <3>2. active'[d] = backend /\ target'[d] = Other(backend) /\ backend = Other(Other(backend))
      BY <1>5, <2>0, <2>2, <3>1, Colours
    <3>3. Runs(backend) /\ backend # NoColour
      BY <1>0, <2>2, <3>1
    <3> QED
      BY <1>3, <1>4, <2>0, <3>2, <3>3 DEF RunIsRight, Serving, Runs
  <2> QED
    BY <2>1, <2>2
<1>7. OneAtATime' /\ ~Resting'
  BY <1>3 DEF OneAtATime, Resting, Working
<1> QED
  BY <1>3, <1>6, <1>7

\* A run goes on or ends; the types of what it does to the host are left to show.
LEMMA TypesOfCommand ==
  ASSUME TypeOK, NEW d \in Deploy, pc[d] \in Working, NEW place \in Working \cup Ended,
         Goto(d, place), UNCHANGED <<active, target>>,
         container' \in [Colour -> {"none", "starting", "healthy", "stopped"}],
         attached' \subseteq Colour, snippet' \in Colour, backend' \in Colour,
         disturbed' \subseteq {"overlap", "leftover", "switch", "config"}
  PROVE  TypeOK'
<1>1. pc' \in [Deploy -> {"begin"} \cup Working \cup Ended]
  BY DEF TypeOK, Goto
<1>2. \A e \in Deploy : pc'[e] \in Working => pc[e] \in Working
  BY DEF TypeOK, Goto
<1> QED
  BY <1>1, <1>2 DEF TypeOK

\* Where a run goes.
LEMMA Went ==
  ASSUME TypeOK, NEW d \in Deploy, NEW place, Goto(d, place)
  PROVE  pc'[d] = place
BY DEF TypeOK, Goto

\* A container that is stopped and removed, as far as this succeeds, is the only one touched.
LEMMA RemovedOnly ==
  ASSUME TypeOK, NEW c \in Colour, StopAndRemove(c)
  PROVE  /\ container' \in [Colour -> {"none", "starting", "healthy", "stopped"}]
         /\ attached' \subseteq Colour
         /\ container'[Other(c)] = container[Other(c)]
         /\ Other(c) \in attached => Other(c) \in attached'
<1>1. CASE Removed(c)
  BY <1>1, Colours DEF TypeOK, Removed
<1>2. CASE ~Removed(c)
  <2>1. PICK left \in {"stopped", container[c]} :
          container' = [container EXCEPT ![c] = IF Runs(c) THEN left ELSE container[c]]
    BY <1>2 DEF StopAndRemove
  <2>2. UNCHANGED attached
    BY <1>2 DEF StopAndRemove
  <2> QED
    BY <2>1, <2>2, Colours DEF TypeOK
<1> QED
  BY <1>1, <1>2

\* What is noted when a run ends.
LEMMA EndNotes ==
  ASSUME TypeOK, NEW d \in Deploy, NEW place \in Ended, End(d, place)
  PROVE  /\ Goto(d, place)
         /\ disturbed \subseteq disturbed'
         /\ disturbed' \subseteq {"overlap", "leftover", "switch", "config"}
         /\ Undisturbed' => Undisturbed /\ ~Misleading' /\ pc[d] \notin Switching
<1>1. disturbed' = disturbed \cup ({what \in {"leftover"} : Misleading'}
                                   \cup {what \in {"switch"} : pc[d] \in Switching})
  BY DEF End, Disturb
<1> QED
  BY <1>1 DEF End, TypeOK, Undisturbed

\* A run that fails leaves the other colour alone: what served goes on, and the new container,
\* if it runs, misleads nobody, or else the run is noted.
LEMMA FailureLeaves ==
  ASSUME DeployInv, TypeOK', NEW d \in Deploy, pc[d] \in Working, End(d, "failed"),
         UNCHANGED <<snippet, backend>>,
         container'[Other(target[d])] = container[Other(target[d])],
         Other(target[d]) \in attached => Other(target[d]) \in attached',
         pc[d] = "reloaded" => UNCHANGED <<container, attached>>
  PROVE  DeployInv'
<1>1. TypeOK /\ target[d] \in Colour \ {active[d]}
  BY DEF DeployInv, TypeOK
<1>2. /\ Goto(d, "failed") /\ disturbed \subseteq disturbed'
      /\ Undisturbed' => Undisturbed /\ ~Misleading' /\ pc[d] \notin Switching
  BY <1>1, EndNotes DEF Ended
<1>3. ASSUME Undisturbed'
      PROVE  RestIsRight'
  <2>. DEFINE old == active[d]  new == target[d]
  <2>1. RunIsRight(d) /\ Undisturbed /\ ~Misleading' /\ pc[d] \notin Switching
    BY <1>2, <1>3, Undisturbing
  <2>2. Deployed' <=> Deployed
    BY <1>1, <1>2, StillDeployed DEF Working, Switching
  <2>3. backend' = backend /\ backend = snippet /\ snippet' = snippet
    BY <2>1 DEF RunIsRight, Switching
  <2>4. CASE Deployed
    <3>1. old = Other(new) /\ old # NoColour /\ container[old] = "healthy"
      BY <2>1, <2>4 DEF RunIsRight
    <3>2. CASE pc[d] = "reloaded"
      BY <2>1, <2>2, <2>3, <2>4, <3>1, <3>2 DEF RunIsRight, RestIsRight, Serving
    <3>3. CASE pc[d] # "reloaded"
      <4>1. backend = old /\ old \in attached
        BY <2>1, <2>4, <3>1, <3>3 DEF RunIsRight
      <4> QED
        BY <2>1, <2>2, <2>3, <2>4, <3>1, <4>1 DEF RestIsRight, Serving
    <3> QED
      BY <3>2, <3>3
  <2>5. CASE ~Deployed
    <3>1. CASE old = NoColour
      <4>1. backend = "blue" /\ Other(new) = "green" /\ ~Runs("green")
        BY <2>1, <3>1, Colours DEF RunIsRight
      <4> QED
        BY <2>1, <2>2, <2>3, <2>5, <4>1 DEF RestIsRight, Runs
    <3>2. CASE old # NoColour
      <4>1. old = "blue" /\ old = Other(new) /\ Runs("blue")
        BY <2>1, <2>5, <3>2 DEF RunIsRight
      <4>2. Runs("blue")'
        BY <4>1 DEF Runs
      <4>3. new = "green"
        BY <1>1, <4>1, Colours DEF Colour
      <4>4. backend = "blue"
        BY <2>1, <2>3, <3>2, <4>1, <4>2, <4>3 DEF RunIsRight, Misleading
      <4> QED
        BY <2>1, <2>2, <2>3, <2>5, <4>2, <4>4 DEF RestIsRight
    <3> QED
      BY <3>1, <3>2
  <2> QED
    BY <2>4, <2>5
<1> QED
  BY <1>2, <1>3, CommandOf DEF Working, Switching

\* The colour to be removed before it is started anew is not the one that serves.
LEMMA RemoveTargetInv ==
  ASSUME DeployInv, NEW d \in Deploy, RemoveTarget(d)
  PROVE  DeployInv'
<1> USE DEF RemoveTarget
<1>1. TypeOK /\ pc[d] \in Working /\ target[d] \in Colour
  BY DEF DeployInv, TypeOK, Working
<1>2. TypeOK'
  BY <1>1, RemovedOnly, TypesOfCommand DEF TypeOK, Working
<1>3. ASSUME Undisturbed'
      PROVE  RunIsRight(d)'
  <2>1. RunIsRight(d)
    BY <1>1, <1>3, Undisturbing DEF Undisturbed
  <2>2. (Deployed' <=> Deployed) /\ pc'[d] = "removed"
    BY <1>1, StillDeployed, Went
  <2>3. container'[Other(target[d])] = container[Other(target[d])]
        /\ (Other(target[d]) \in attached => Other(target[d]) \in attached')
    BY <1>1, RemovedOnly
  <2> QED
    BY <2>1, <2>2, <2>3, Colours DEF RunIsRight, Runs, Switching
<1> QED
  BY <1>1, <1>2, <1>3, CommandOf DEF Working

\* Whatever was left of the target, it is started; the other colour is as it was.
LEMMA StartTargetInv ==
  ASSUME DeployInv, NEW d \in Deploy, StartTarget(d)
  PROVE  DeployInv'
<1> USE DEF StartTarget
<1>1. TypeOK /\ pc[d] \in Working /\ target[d] \in Colour
  BY DEF DeployInv, TypeOK, Working
<1>2. TypeOK'
  <2>1. container' \in [Colour -> {"none", "starting", "healthy", "stopped"}] /\ attached' \subseteq Colour
    BY <1>1 DEF TypeOK
  <2> QED
    BY <1>1, <2>1, TypesOfCommand DEF TypeOK, Working
<1>3. ASSUME Undisturbed'
      PROVE  RunIsRight(d)'
  <2>1. RunIsRight(d)
    BY <1>1, <1>3, Undisturbing DEF Undisturbed
  <2>2. (Deployed' <=> Deployed) /\ pc'[d] = "waiting"
    BY <1>1, StillDeployed, Went
  <2>3. container'[Other(target[d])] = container[Other(target[d])] /\ attached \subseteq attached'
    BY <1>1, Colours DEF TypeOK
  <2> QED
    BY <2>1, <2>2, <2>3, Colours DEF RunIsRight, Runs, Switching
<1> QED
  BY <1>1, <1>2, <1>3, CommandOf DEF Working

\* docker inspect says the target is healthy.
LEMMA SeesHealthyInv ==
  ASSUME DeployInv, NEW d \in Deploy, SeesHealthy(d)
  PROVE  DeployInv'
<1> USE DEF SeesHealthy, host
<1>1. TypeOK /\ pc[d] \in Working /\ target[d] \in Colour
  BY DEF DeployInv, TypeOK, Working
<1>2. TypeOK'
  BY <1>1, TypesOfCommand DEF TypeOK, Working
<1>3. ASSUME Undisturbed'
      PROVE  RunIsRight(d)'
  <2>1. RunIsRight(d)
    BY <1>1, <1>3, Undisturbing DEF Undisturbed
  <2>2. (Deployed' <=> Deployed) /\ pc'[d] = "probing"
    BY <1>1, StillDeployed, Went
  <2> QED
    BY <2>1, <2>2 DEF RunIsRight, Runs, Switching
<1> QED
  BY <1>1, <1>2, <1>3, CommandOf DEF Working

\* The rollback leaves the colour that serves alone.
LEMMA GiveUpInv ==
  ASSUME DeployInv, NEW d \in Deploy, GiveUp(d)
  PROVE  DeployInv'
<1> USE DEF GiveUp
<1>1. TypeOK /\ pc[d] \in Working /\ target[d] \in Colour
  BY DEF DeployInv, TypeOK, Working
<1>2. /\ Goto(d, "failed") /\ disturbed' \subseteq {"overlap", "leftover", "switch", "config"}
  BY <1>1, EndNotes DEF Ended
<1>3. TypeOK'
  BY <1>1, <1>2, RemovedOnly, TypesOfCommand DEF TypeOK, Ended
<1> QED
  BY <1>1, <1>3, RemovedOnly, FailureLeaves

\* A target that is healthy and has its network answers; one that does not ends the script.
LEMMA ProbeInv ==
  ASSUME DeployInv, NEW d \in Deploy, Probe(d)
  PROVE  DeployInv'
<1> USE DEF Probe, host
<1>1. TypeOK /\ pc[d] \in Working /\ target[d] \in Colour
  BY DEF DeployInv, TypeOK, Working
<1>2. CASE /\ container[target[d]] = "healthy" /\ target[d] \in attached
           /\ Goto(d, "probed") /\ Disturb({})
  <2>1. TypeOK'
    BY <1>1, <1>2, TypesOfCommand DEF TypeOK, Working, Disturb
  <2>2. ASSUME Undisturbed'
        PROVE  RunIsRight(d)'
    <3>1. RunIsRight(d)
      BY <1>1, <1>2, <2>2, Undisturbing DEF Undisturbed, Disturb
    <3>2. (Deployed' <=> Deployed) /\ pc'[d] = "probed"
      BY <1>1, <1>2, StillDeployed, Went
    <3> QED
      BY <1>2, <3>1, <3>2 DEF RunIsRight, Runs, Switching
  <2> QED
    BY <1>1, <1>2, <2>1, <2>2, CommandOf DEF Working, Disturb
<1>3. CASE End(d, "failed")
  <2>1. /\ Goto(d, "failed") /\ disturbed' \subseteq {"overlap", "leftover", "switch", "config"}
    BY <1>1, <1>3, EndNotes DEF Ended
  <2>2. TypeOK'
    BY <1>1, <2>1, TypesOfCommand DEF TypeOK, Ended
  <2> QED
    BY <1>1, <1>3, <2>2, FailureLeaves
<1> QED
  BY <1>2, <1>3

\* Harmless: the target has its network since it was started.
LEMMA ConnectTargetInv ==
  ASSUME DeployInv, NEW d \in Deploy, ConnectTarget(d)
  PROVE  DeployInv'
<1> USE DEF ConnectTarget
<1>1. TypeOK /\ pc[d] \in Working /\ target[d] \in Colour
  BY DEF DeployInv, TypeOK, Working
<1>2. TypeOK'
  BY <1>1, TypesOfCommand DEF TypeOK, Working
<1>3. ASSUME Undisturbed'
      PROVE  RunIsRight(d)'
  <2>1. RunIsRight(d)
    BY <1>1, <1>3, Undisturbing DEF Undisturbed
  <2>2. (Deployed' <=> Deployed) /\ pc'[d] = "connected"
    BY <1>1, StillDeployed, Went
  <2> QED
    BY <2>1, <2>2 DEF RunIsRight, Runs, Switching
<1> QED
  BY <1>1, <1>2, <1>3, CommandOf DEF Working

\* The active colour goes on running, unreachable.
LEMMA DisconnectActiveInv ==
  ASSUME DeployInv, NEW d \in Deploy, DisconnectActive(d)
  PROVE  DeployInv'
<1> USE DEF DisconnectActive
<1>1. TypeOK /\ pc[d] \in Working /\ target[d] \in Colour \ {active[d]}
  BY DEF DeployInv, TypeOK, Working
<1>2. TypeOK'
  BY <1>1, TypesOfCommand DEF TypeOK, Working, Switching
<1>3. ASSUME Undisturbed'
      PROVE  RunIsRight(d)'
  <2>1. RunIsRight(d)
    BY <1>1, <1>3, Undisturbing DEF Undisturbed
  <2>2. (Deployed' <=> Deployed) /\ pc'[d] = "disconnected"
    BY <1>1, StillDeployed, Went
  <2> QED
    BY <1>1, <2>1, <2>2 DEF RunIsRight, Runs, Switching
<1> QED
  BY <1>1, <1>2, <1>3, CommandOf DEF Working, Switching

\* The snippet names the target before nginx has read it.
LEMMA WriteSnippetInv ==
  ASSUME DeployInv, NEW d \in Deploy, WriteSnippet(d)
  PROVE  DeployInv'
<1> USE DEF WriteSnippet, PortOf
<1>1. TypeOK /\ pc[d] \in Working /\ target[d] \in Colour
  BY DEF DeployInv, TypeOK, Working, Switching
<1>2. TypeOK'
  BY <1>1, TypesOfCommand DEF TypeOK, Working, Switching
<1>3. ASSUME Undisturbed'
      PROVE  RunIsRight(d)'
  <2>1. RunIsRight(d)
    BY <1>1, <1>3, Undisturbing DEF Undisturbed
  <2>2. (Deployed' <=> Deployed) /\ pc'[d] = "written"
    BY <1>1, StillDeployed, Went
  <2> QED
    BY <1>1, <2>1, <2>2 DEF RunIsRight, Runs, Switching
<1> QED
  BY <1>1, <1>2, <1>3, CommandOf DEF Working, Switching

\* nginx sends to the target, or somebody has been disturbed.
LEMMA ReloadInv ==
  ASSUME DeployInv, NEW d \in Deploy, Reload(d)
  PROVE  DeployInv'
<1> USE DEF Reload
<1>1. TypeOK /\ pc[d] \in Working /\ target[d] \in Colour
  BY DEF DeployInv, TypeOK, Working, Switching
<1>2. CASE backend' = snippet /\ Goto(d, "reloaded") /\ Disturb({})
  <2>1. TypeOK'
    BY <1>1, <1>2, TypesOfCommand DEF TypeOK, Working, Disturb
  <2>2. ASSUME Undisturbed'
        PROVE  RunIsRight(d)'
    <3>1. RunIsRight(d)
      BY <1>1, <1>2, <2>2, Undisturbing DEF Undisturbed, Disturb
    <3>2. (Deployed' <=> Deployed) /\ pc'[d] = "reloaded"
      BY <1>1, <1>2, StillDeployed, Went
    <3> QED
      BY <1>2, <3>1, <3>2 DEF RunIsRight, Runs, Switching
  <2> QED
    BY <1>1, <1>2, <2>1, <2>2, CommandOf DEF Working, Disturb
<1>3. CASE UNCHANGED backend /\ Goto(d, "reloaded") /\ Disturb({"config"})
  <2>1. TypeOK'
    BY <1>1, <1>3, TypesOfCommand DEF TypeOK, Working, Disturb
  <2>2. ~Undisturbed'
    BY <1>3 DEF Undisturbed, Disturb
  <2> QED
    BY <1>1, <1>3, <2>1, <2>2, CommandOf DEF Disturb
<1>4. CASE UNCHANGED backend /\ End(d, "failed")
  <2>1. /\ Goto(d, "failed") /\ disturbed' \subseteq {"overlap", "leftover", "switch", "config"}
    BY <1>1, <1>4, EndNotes DEF Ended
  <2>2. TypeOK'
    BY <1>1, <1>4, <2>1, TypesOfCommand DEF TypeOK, Ended
  <2> QED
    BY <1>1, <1>4, <2>2, FailureLeaves
<1> QED
  BY <1>2, <1>3, <1>4

\* The deployment has succeeded: its colour serves, whether the old one was stopped or not.
LEMMA StopActiveInv ==
  ASSUME DeployInv, NEW d \in Deploy, StopActive(d)
  PROVE  DeployInv'
<1> USE DEF StopActive
<1>1. TypeOK /\ pc[d] \in Working /\ target[d] \in Colour \ {active[d]}
  BY DEF DeployInv, TypeOK, Working
<1>2. /\ Goto(d, "done") /\ disturbed \subseteq disturbed'
      /\ disturbed' \subseteq {"overlap", "leftover", "switch", "config"}
      /\ Undisturbed' => Undisturbed /\ ~Misleading'
  BY <1>1, EndNotes DEF Ended
<1>3. TypeOK'
  <2>1. container' \in [Colour -> {"none", "starting", "healthy", "stopped"}]
    BY <1>1 DEF TypeOK
  <2> QED
    BY <1>1, <1>2, <2>1, TypesOfCommand DEF TypeOK, Ended
<1>4. ASSUME Undisturbed'
      PROVE  RestIsRight'
  <2>1. RunIsRight(d) /\ ~Misleading'
    BY <1>1, <1>2, <1>4, Undisturbing
  <2>2. Deployed'
    BY <1>1, <1>2, Went DEF Deployed
  <2>3. /\ backend = target[d] /\ snippet = target[d]
        /\ container[target[d]] = "healthy" /\ target[d] \in attached
    BY <2>1 DEF RunIsRight, Switching
  <2>4. container'[target[d]] = "healthy"
    BY <1>1, <2>3
  <2> QED
    BY <2>1, <2>2, <2>3, <2>4 DEF RestIsRight, Serving
<1> QED
  BY <1>1, <1>2, <1>3, <1>4, CommandOf DEF Working, Switching, Ended

\* A run that is cut off leaves everything where it stands.
LEMMA CutInv ==
  ASSUME DeployInv, NEW d \in Deploy, Cut(d)
  PROVE  DeployInv'
<1> USE DEF Cut, host
<1>1. TypeOK /\ pc[d] \in Working /\ target[d] \in Colour
  BY DEF DeployInv, TypeOK
<1>2. /\ Goto(d, "failed") /\ disturbed' \subseteq {"overlap", "leftover", "switch", "config"}
  BY <1>1, EndNotes DEF Ended
<1>3. TypeOK'
  BY <1>1, <1>2, TypesOfCommand DEF TypeOK, Ended
<1> QED
  BY <1>1, <1>3, FailureLeaves

-----------------------------------------------------------------------------

\* A container that starts is one that a run has just started.
LEMMA BecomesHealthyInv ==
  ASSUME DeployInv, NEW c \in Colour, BecomesHealthy(c)
  PROVE  DeployInv'
<1> USE DEF DeployInv, BecomesHealthy
<1>1. TypeOK'
  BY DEF TypeOK
<1> SUFFICES ASSUME Undisturbed
             PROVE  /\ OneAtATime'
                    /\ \A d \in Deploy : pc[d] \in Working => RunIsRight(d)'
                    /\ Resting => RestIsRight'
  BY <1>1 DEF Undisturbed, Resting
<1>2. container'[c] = "healthy" /\ \A o \in Colour : o # c => container'[o] = container[o]
  BY DEF TypeOK
<1>3. Deployed' <=> Deployed
  BY DEF Deployed
<1>4. ASSUME NEW d \in Deploy, pc[d] \in Working
      PROVE  RunIsRight(d)'
  <2>1. RunIsRight(d) /\ target[d] \in Colour /\ (Deployed => active[d] \in Colour)
    BY <1>4, Undisturbing
  <2> QED
    BY <1>2, <1>3, <2>1 DEF RunIsRight, Runs, Colour
<1>5. ASSUME Resting
      PROVE  RestIsRight'
  <2>1. \A o \in Colour : Runs(o)' <=> Runs(o)
    BY <1>2 DEF Runs
  <2>2. (container[backend] = "healthy" => container'[backend] = "healthy") /\ backend \in Colour
    BY <1>2 DEF TypeOK
  <2> QED
    BY <1>3, <1>5, <2>1, <2>2 DEF RestIsRight, Misleading, Serving, Colour
<1> QED
  BY <1>4, <1>5 DEF OneAtATime

\* Every step keeps the invariant.
LEMMA NextInv == DeployInv /\ [Next]_vars => DeployInv'
<1> SUFFICES ASSUME DeployInv, [Next]_vars
             PROVE  DeployInv'
  OBVIOUS
<1>1. ASSUME NEW d \in Deploy, Command(d)
      PROVE  DeployInv'
  BY <1>1, RemoveTargetInv, StartTargetInv, SeesHealthyInv, GiveUpInv, ProbeInv,
     ConnectTargetInv, DisconnectActiveInv, WriteSnippetInv, ReloadInv, StopActiveInv
     DEF Command
<1>2. CASE UNCHANGED vars
  BY <1>2 DEF vars, host, DeployInv, TypeOK, Undisturbed, OneAtATime, RunIsRight, Resting,
              RestIsRight, Misleading, Deployed, Serving, Runs
<1> QED
  BY <1>1, <1>2, DetectInv, CutInv, BecomesHealthyInv DEF Next

\* What is known of the host at each command of the script, as long as nothing disturbs it: no
\* overlap, no run that ended within the switch or left blue running beside a serving green, no
\* configuration that nginx refused.
THEOREM Safety == Spec => []DeployInv
  BY InitInv, NextInv, PTL DEF Spec

\* "Detect active container": what an undisturbed run takes for the active colour is the one
\* that serves, also after failures that have left a green container beside it.
THEOREM DetectionIsRight == Spec => []ActiveIsServing
<1>1. DeployInv => ActiveIsServing
  <2> SUFFICES ASSUME DeployInv, Undisturbed, NEW d \in Deploy,
                      pc[d] \in Working \ ({"reloaded"} \cup Switching), active[d] # NoColour
               PROVE  active[d] = backend /\ (Deployed => Serving)
    BY DEF ActiveIsServing
  <2>1. RunIsRight(d)
    BY Undisturbing
  <2> QED
    BY <2>1 DEF RunIsRight, Serving
<1> QED
  BY <1>1, Safety, PTL

\* As long as nothing disturbs the runs, requests are answered through every later deployment,
\* but for the moment of the switch.
THEOREM ServiceGoesOn == Spec => []ServedOutsideSwitch
<1>1. DeployInv => ServedOutsideSwitch
  <2> SUFFICES ASSUME DeployInv, Undisturbed, Deployed,
                      \A d \in Deploy : pc[d] \notin Switching
               PROVE  Serving
    BY DEF ServedOutsideSwitch
  <2>1. CASE Resting
    BY <2>1 DEF DeployInv, RestIsRight
  <2>2. CASE ~Resting
    <3>1. PICK d \in Deploy : pc[d] \in Working
      BY <2>2 DEF Resting
    <3>2. RunIsRight(d)
      BY <3>1, Undisturbing
    <3> QED
      BY <3>1, <3>2 DEF RunIsRight, Serving
  <2> QED
    BY <2>1, <2>2
<1> QED
  BY <1>1, Safety, PTL

\* "DEPLOY SUCCESS": between undisturbed runs nginx has loaded the snippet, and the colour it
\* names answers.
THEOREM SuccessIsReal == Spec => []SuccessIsServed
<1>1. DeployInv => SuccessIsServed
  BY DEF DeployInv, RestIsRight, SuccessIsServed
<1> QED
  BY <1>1, Safety, PTL

-----------------------------------------------------------------------------
(* When nothing disturbs. *)

\* Where no command fails, the target is made anew, with its network, and nothing is left of
\* the other colour when a run has ended.
Tidy ==
  /\ \A d \in Deploy :
       /\ pc[d] = "removed" => container[target[d]] = "none"
       /\ pc[d] \in {"waiting", "probing"} => target[d] \in attached
  /\ Resting => ~Runs(Other(backend))

TidyInv == DeployInv /\ Undisturbed /\ Tidy

\* Only a run that ends could leave something behind.
LEMMA TidyRun ==
  ASSUME TidyInv, NEW d \in Deploy, pc[d] \in Working, NEW place, Goto(d, place),
         target' = target,
         place = "removed" => container'[target[d]] = "none",
         place \in {"waiting", "probing"} => target[d] \in attached',
         place \notin Working => ~Runs(Other(backend))'
  PROVE  Tidy'
<1>1. pc'[d] = place /\ \A e \in Deploy : e # d => pc'[e] = pc[e] /\ pc'[e] \notin Working
  BY Undisturbing DEF TidyInv, Goto, DeployInv, TypeOK
<1>2. \A e \in Deploy : e # d => pc'[e] \notin {"removed", "waiting", "probing"}
  BY <1>1 DEF Working
<1> QED
  BY <1>1, <1>2 DEF Tidy, Resting

\* A run finds its target ready whenever it is asked, so that without overlap, and without a
\* failure of readiness, nginx, the connection or a command of docker, nothing is left behind.
LEMMA NothingDisturbs ==
  ASSUME ~Overlap, Failures \subseteq {"unhealthy"}, TidyInv, [Next]_vars
  PROVE  Undisturbed' /\ Tidy'
<1> USE DEF Disturb
<1>0. TypeOK /\ DeployInv /\ Undisturbed /\ Tidy /\ disturbed = {}
  BY DEF TidyInv, DeployInv, Undisturbed
<1>1. ASSUME NEW d \in Deploy, Detect(d)
      PROVE  Undisturbed' /\ Tidy'
  <2>1. Undisturbed' /\ pc'[d] = "detected" /\ \A e \in Deploy : e # d => pc'[e] = pc[e] /\ pc'[e] \notin Working
    BY <1>0, <1>1 DEF Detect, Begin, Goto, TypeOK, Undisturbed
  <2>2. \A e \in Deploy : pc'[e] \notin {"removed", "waiting", "probing"}
    BY <2>1 DEF Working
  <2>3. ~Resting'
    BY <2>1 DEF Resting, Working
  <2> QED
    BY <2>1, <2>2, <2>3 DEF Tidy
<1>2. ASSUME NEW d \in Deploy, Command(d)
      PROVE  Undisturbed' /\ Tidy'
  <2>0. /\ pc[d] \in Working /\ RunIsRight(d)
        /\ target[d] \in Colour /\ target[d] # active[d]
        /\ backend \in Colour /\ snippet \in Colour
    <3>1. pc[d] \in Working
      BY <1>2 DEF Command, RemoveTarget, StartTarget, SeesHealthy, GiveUp, Probe, ConnectTarget,
                  DisconnectActive, WriteSnippet, Reload, StopActive, Working, Switching
    <3> QED
      BY <1>0, <3>1, Undisturbing DEF TypeOK
  <2>1. CASE RemoveTarget(d)
    <3>1. container' = [container EXCEPT ![target[d]] = "none"] /\ Goto(d, "removed")
          /\ UNCHANGED <<target, disturbed>>
      BY <2>1 DEF RemoveTarget, StopAndRemove, Removed
    <3>2. container'[target[d]] = "none"
      BY <1>0, <2>0, <3>1 DEF TypeOK
    <3> QED
      BY <1>0, <2>0, <3>1, <3>2, TidyRun DEF Working, Undisturbed
  <2>2. CASE StartTarget(d)
    <3>1. container[target[d]] = "none"
      BY <1>0, <2>2 DEF StartTarget, Tidy
    <3>2. attached' = attached \cup {target[d]} /\ Goto(d, "waiting") /\ UNCHANGED <<target, disturbed>>
      BY <2>2, <3>1 DEF StartTarget
    <3> QED
      BY <1>0, <2>0, <3>2, TidyRun DEF Working, Undisturbed
  <2>3. CASE SeesHealthy(d)
    <3>1. target[d] \in attached' /\ Goto(d, "probing") /\ UNCHANGED <<target, disturbed>>
      BY <1>0, <2>3 DEF SeesHealthy, Tidy, host
    <3> QED
      BY <1>0, <2>0, <3>1, TidyRun DEF Working, Undisturbed
  <2>4. CASE Probe(d)
    <3>1. container[target[d]] = "healthy" /\ target[d] \in attached
      BY <1>0, <2>0, <2>4 DEF Probe, RunIsRight, Tidy
    <3>2. Goto(d, "probed") /\ UNCHANGED <<target, disturbed>>
      BY <2>4, <3>1 DEF Probe
    <3> QED
      BY <1>0, <2>0, <3>2, TidyRun DEF Working, Undisturbed
  <2>5. CASE ConnectTarget(d) \/ DisconnectActive(d) \/ WriteSnippet(d)
    <3>1. PICK place \in {"connected", "disconnected", "written"} :
            Goto(d, place) /\ UNCHANGED <<target, disturbed>>
      BY <2>5 DEF ConnectTarget, DisconnectActive, WriteSnippet
    <3> QED
      BY <1>0, <2>0, <3>1, TidyRun DEF Working, Switching, Undisturbed
  <2>6. CASE Reload(d)
    <3>1. Goto(d, "reloaded") /\ UNCHANGED <<target, disturbed>>
      BY <2>6 DEF Reload
    <3> QED
      BY <1>0, <2>0, <3>1, TidyRun DEF Working, Undisturbed
  <2>7. CASE GiveUp(d)
    <3>1. /\ container' = [container EXCEPT ![target[d]] = "none"] /\ pc[d] = "waiting"
          /\ UNCHANGED <<backend, target>> /\ End(d, "failed")
      BY <2>7 DEF GiveUp, StopAndRemove, Removed
    <3>2. container'[target[d]] = "none" /\ \A o \in Colour : o # target[d] => container'[o] = container[o]
      BY <1>0, <2>0, <3>1 DEF TypeOK
    <3>3. ~Runs(Other(backend))' /\ ~Misleading'
      <4>1. CASE active[d] = NoColour
        BY <2>0, <3>1, <3>2, <4>1, Colours DEF RunIsRight, Runs, Misleading, Colour
      <4>2. CASE active[d] # NoColour
        <5>1. backend = active[d] /\ active[d] = Other(target[d])
          BY <2>0, <3>1, <4>2 DEF RunIsRight
        <5>2. Other(backend) = target[d]
          BY <2>0, <5>1, Colours
        <5>3. backend = "green" => target[d] = "blue"
          BY <5>2, Colours
        <5> QED
          BY <3>1, <3>2, <5>2, <5>3 DEF Runs, Misleading
      <4> QED
        BY <4>1, <4>2
    <3>4. Goto(d, "failed") /\ disturbed' = {}
      BY <1>0, <3>1, <3>3 DEF End, Switching
    <3> QED
      BY <1>0, <2>0, <3>1, <3>3, <3>4, TidyRun DEF Working, Switching, Undisturbed
  <2>8. CASE StopActive(d)
    <3>1. /\ container' = [c \in Colour |-> IF c = active[d] /\ Runs(c) THEN "stopped" ELSE container[c]]
          /\ pc[d] = "reloaded" /\ UNCHANGED <<backend, target>> /\ End(d, "done")
      BY <2>8 DEF StopActive
    <3>2. ~Runs(Other(backend))'
      <4>1. CASE active[d] = NoColour
        BY <2>0, <3>1, <4>1, Colours, ColourAssumption DEF RunIsRight, Runs, Colour
      <4>2. CASE active[d] # NoColour
        <5>1. backend = target[d] /\ active[d] = Other(backend) /\ active[d] \in Colour
          BY <2>0, <3>1, <4>2, Colours DEF RunIsRight
        <5> QED
          BY <3>1, <5>1 DEF Runs
      <4> QED
        BY <4>1, <4>2
    <3>3. ~Misleading'
      BY <3>1, <3>2, Colours DEF Misleading
    <3>4. Goto(d, "done") /\ disturbed' = {}
      BY <1>0, <3>1, <3>3 DEF End, Switching
    <3> QED
      BY <1>0, <2>0, <3>1, <3>2, <3>4, TidyRun DEF Working, Switching, Undisturbed
  <2> QED
    BY <1>2, <2>1, <2>2, <2>3, <2>4, <2>5, <2>6, <2>7, <2>8 DEF Command
<1>3. ASSUME NEW d \in Deploy, Cut(d)
      PROVE  Undisturbed' /\ Tidy'
  BY <1>3 DEF Cut
<1>4. ASSUME NEW c \in Colour, BecomesHealthy(c)
      PROVE  Undisturbed' /\ Tidy'
  <2>1. /\ container[c] = "starting" /\ container' = [container EXCEPT ![c] = "healthy"]
        /\ UNCHANGED <<attached, backend, pc, target, disturbed>>
    BY <1>4 DEF BecomesHealthy
  <2>2. \A o \in Colour : (Runs(o)' <=> Runs(o)) /\ (container[o] = "none" => container'[o] = "none")
    BY <1>0, <2>1 DEF Runs, TypeOK
  <2>3. Other(backend) \in Colour
    BY <1>0, Colours DEF TypeOK
  <2>4. \A d \in Deploy : pc[d] = "removed" => target[d] \in Colour
    BY <1>0 DEF TypeOK, Working
  <2>5. Resting' => ~Runs(Other(backend))'
    BY <1>0, <2>1, <2>2, <2>3 DEF Tidy, Resting
  <2> QED
    BY <1>0, <2>1, <2>2, <2>4, <2>5 DEF Tidy, Undisturbed
<1>5. CASE UNCHANGED vars
  BY <1>0, <1>5 DEF vars, host, Tidy, Undisturbed, Resting, Runs
<1> QED
  BY <1>1, <1>2, <1>3, <1>4, <1>5 DEF Next

\* What a concurrency group in master.yml would give, readiness, nginx, the connection and the
\* commands of docker provided: then what the script prints is true without any proviso, new
\* colours that never become healthy included.
THEOREM SerialDeploys ==
  ASSUME ~Overlap, Failures \subseteq {"unhealthy"}
  PROVE  Spec => [](Undisturbed /\ SuccessIsTrue)
<1>1. Init => Undisturbed /\ Tidy
  BY Colours DEF Init, Undisturbed, Tidy, Runs, Colour
<1>2. DeployInv /\ Undisturbed /\ Tidy /\ [Next]_vars => Undisturbed' /\ Tidy'
  BY NothingDisturbs DEF TidyInv
<1>3. DeployInv /\ Undisturbed /\ Tidy => SuccessIsTrue
  BY DEF DeployInv, RestIsRight, SuccessIsTrue, Switched, Tidy
<1> QED
  BY <1>1, <1>2, <1>3, Safety, PTL DEF Spec
=============================================================================
