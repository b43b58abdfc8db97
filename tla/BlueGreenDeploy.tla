--------------------------- MODULE BlueGreenDeploy ---------------------------
(***************************************************************************)
(* The deployment of the API in two colours: the script of the job "deploy" *)
(* in .github/workflows/master.yml, the services web-blue and web-green of  *)
(* docker-compose.bluegreen.yml, and the host's nginx, which sends          *)
(* everything to the colour named by a snippet the script writes.           *)
(*                                                                          *)
(*   begin -> detected -> removed -> waiting -> probing -> probed           *)
(*     -> connected -> disconnected -> written -> reloaded -> done          *)
(*                                                                          *)
(* The script runs under "set -e": a command that fails ends it where it    *)
(* stands, unless "|| true" follows, when the failure is swallowed and the  *)
(* script goes on, or it is not the last of an && list.                     *)
(* Images, migrations and the other services are left out.                  *)
(***************************************************************************)
CONSTANTS
  Deploy,     \* runs of the script
  Failures,   \* what may fail: "unhealthy", "unready", "config", "reload", "cut", and with
              \* "swallowed" every command that "|| true" follows
  Overlap,    \* whether two runs may overlap; the workflow has no concurrency group
  NoColour

Colour == {"blue", "green"}

ASSUME ColourAssumption == NoColour \notin Colour
ASSUME OverlapAssumption == Overlap \in BOOLEAN

VARIABLES
  container,  \* container[c]: of service web-c
  attached,   \* the colours connected to the network: with ports, database and alias
  snippet,    \* the colour in /etc/nginx/snippets/basis-test-backend.conf
  backend,    \* the colour nginx has loaded
  pc,         \* pc[d]: the next command of run d
  active,     \* active[d], target[d]: ACTIVE and TARGET of run d
  target,
  disturbed   \* (ghost) what has happened that the script makes no provision for

host == <<container, attached, snippet, backend>>
vars == <<host, pc, active, target, disturbed>>

Switching == {"disconnected", "written"}
Working == {"detected", "removed", "waiting", "probing", "probed", "connected", "reloaded"}
           \cup Switching
Ended == {"done", "failed"}

TypeOK ==
  /\ container \in [Colour -> {"none", "starting", "healthy", "stopped"}]
  /\ attached \subseteq Colour
  /\ snippet \in Colour /\ backend \in Colour
  /\ pc \in [Deploy -> {"begin"} \cup Working \cup Ended]
  /\ active \in [Deploy -> Colour \cup {NoColour}]
  /\ target \in [Deploy -> Colour \cup {NoColour}]
  /\ disturbed \subseteq {"overlap", "leftover", "switch", "config"}
  /\ \A d \in Deploy : pc[d] \in Working => target[d] \in Colour \ {active[d]}

\* The snippet is written by hand before the first deployment, for blue.
Init ==
  /\ container = [c \in Colour |-> "none"]
  /\ attached = {}
  /\ snippet = "blue" /\ backend = "blue"
  /\ pc = [d \in Deploy |-> "begin"]
  /\ active = [d \in Deploy |-> NoColour]
  /\ target = [d \in Deploy |-> NoColour]
  /\ disturbed = {}

\* docker ps lists a container whether it is healthy or not.
Runs(c) == container[c] \in {"starting", "healthy"}
Other(c) == CHOOSE o \in Colour : o # c

Goto(d, place) == pc' = [pc EXCEPT ![d] = place]

Disturb(what) == disturbed' = disturbed \cup what

\* The job "deploy" of a push starts; nothing makes it wait for that of another push.
Begin(d) ==
  LET others == {e \in Deploy : pc[e] \in Working} IN
  /\ pc[d] = "begin"
  /\ Overlap \/ others = {}
  /\ Disturb(IF others = {} THEN {} ELSE {"overlap"})
  /\ Goto(d, "detected")

\* What the next detection will take for the serving colour does not serve.
Misleading == backend = "green" /\ Runs("blue")

\* A run ends, well or not.  What it leaves may disturb the next ones: a blue container beside
\* the green one that serves, or a switch that has begun and will not be completed.
End(d, place) ==
  /\ Goto(d, place)
  /\ Disturb({what \in {"leftover"} : Misleading'} \cup {what \in {"switch"} : pc[d] \in Switching})

\* (variant) green is looked for first
FoundGreenFirst ==
  CASE Runs("green") -> "green"
    [] ~Runs("green") /\ Runs("blue") -> "blue"
    [] OTHER -> NoColour

\* Blue is looked for first.
Found ==
  CASE Runs("blue") -> "blue"
    [] ~Runs("blue") /\ Runs("green") -> "green"
    [] OTHER -> NoColour

Detect(d) ==
  /\ Begin(d)
  /\ active' = [active EXCEPT ![d] = Found]
  /\ target' = [target EXCEPT ![d] = IF Found = NoColour THEN "blue" ELSE Other(Found)]
  /\ UNCHANGED host

Removed(c) ==
  /\ container' = [container EXCEPT ![c] = "none"]
  /\ attached' = attached \ {c}

\* compose stop || true, compose rm -f || true.  A stop that fails leaves a container running,
\* which rm -f does not touch; an rm that fails leaves it stopped.
StopAndRemove(c) ==
  \/ Removed(c)
  \/ /\ "swallowed" \in Failures
     /\ \E left \in {"stopped", container[c]} :
          container' = [container EXCEPT ![c] = IF Runs(c) THEN left ELSE @]
     /\ UNCHANGED attached

RemoveTarget(d) ==
  /\ pc[d] = "detected"
  /\ StopAndRemove(target[d])
  /\ Goto(d, "removed")
  /\ UNCHANGED <<snippet, backend, active, target, disturbed>>

\* compose up -d: a new container has its network and the alias from the start; so has one
\* that is made anew for another image.  Otherwise one that is still there is started as it is.
StartTarget(d) ==
  /\ pc[d] = "removed"
  /\ \/ /\ container' = [container EXCEPT ![target[d]] = "starting"]
        /\ attached' = attached \cup {target[d]}
     \/ /\ container[target[d]] # "none"
        /\ container' = [container EXCEPT ![target[d]] = IF Runs(target[d]) THEN @ ELSE "starting"]
        /\ UNCHANGED attached
  /\ Goto(d, "waiting")
  /\ UNCHANGED <<snippet, backend, active, target, disturbed>>

\* The healthcheck of the service asks /health/liveness.
BecomesHealthy(c) ==
  /\ container[c] = "starting"
  /\ container' = [container EXCEPT ![c] = "healthy"]
  /\ UNCHANGED <<attached, snippet, backend, pc, active, target, disturbed>>

SeesHealthy(d) ==
  /\ pc[d] = "waiting" /\ container[target[d]] = "healthy"
  /\ Goto(d, "probing")
  /\ UNCHANGED <<host, active, target, disturbed>>

\* (variants) the looks are not counted; the rollback takes the other colour
LookAgain(d) ==
  /\ pc[d] = "waiting" /\ container[target[d]] # "healthy"
  /\ UNCHANGED vars
GiveUpOther(d) ==
  /\ pc[d] = "waiting" /\ container[target[d]] # "healthy"
  /\ "unhealthy" \in Failures
  /\ StopAndRemove(Other(target[d]))
  /\ UNCHANGED <<snippet, backend, active, target>>
  /\ End(d, "failed")

\* Sixty looks have passed: "Rollback", exit 1.
GiveUp(d) ==
  /\ pc[d] = "waiting" /\ container[target[d]] # "healthy"
  /\ "unhealthy" \in Failures
  /\ StopAndRemove(target[d])
  /\ UNCHANGED <<snippet, backend, active, target>>
  /\ End(d, "failed")

\* curl of /health/readiness inside the target; -f and set -e end the script on 503.
Probe(d) ==
  LET ready == container[target[d]] = "healthy" /\ target[d] \in attached IN
  /\ pc[d] = "probing"
  /\ UNCHANGED <<host, active, target>>
  /\ \/ ready /\ Goto(d, "probed") /\ Disturb({})
     \/ ("unready" \in Failures \/ ~ready) /\ End(d, "failed")

\* docker network connect ... || true.
ConnectTarget(d) ==
  /\ pc[d] = "probed"
  /\ \/ attached' = attached \cup {c \in {target[d]} : container[c] # "none"}
     \/ "swallowed" \in Failures /\ UNCHANGED attached
  /\ Goto(d, "connected")
  /\ UNCHANGED <<container, snippet, backend, active, target, disturbed>>

\* docker network disconnect ... || true: the active container loses its only network.
DisconnectActive(d) ==
  /\ pc[d] = "connected"
  /\ \/ attached' = attached \ {active[d]}
     \/ "swallowed" \in Failures /\ UNCHANGED attached
  /\ Goto(d, "disconnected")
  /\ UNCHANGED <<container, snippet, backend, active, target, disturbed>>

\* (variant) the two ports are swapped
PortsSwapped(d) == Other(target[d])
PortOf(d) == target[d]

WriteSnippet(d) ==
  /\ pc[d] = "disconnected"
  /\ snippet' = PortOf(d)
  /\ Goto(d, "written")
  /\ UNCHANGED <<container, attached, backend, active, target, disturbed>>

\* nginx -t && nginx -s reload: a failing test skips the reload and does not end the script.
Reload(d) ==
  /\ pc[d] = "written"
  /\ UNCHANGED <<container, attached, snippet, active, target>>
  /\ \/ backend' = snippet /\ Goto(d, "reloaded") /\ Disturb({})
     \/ "config" \in Failures /\ UNCHANGED backend /\ Goto(d, "reloaded") /\ Disturb({"config"})
     \/ "reload" \in Failures /\ UNCHANGED backend /\ End(d, "failed")

\* compose stop || true, and the script reports success, also if the old container runs on.
StopActive(d) ==
  /\ pc[d] = "reloaded"
  /\ \/ container' = [c \in Colour |-> IF c = active[d] /\ Runs(c) THEN "stopped" ELSE container[c]]
     \/ "swallowed" \in Failures /\ UNCHANGED container
  /\ UNCHANGED <<attached, snippet, backend, active, target>>
  /\ End(d, "done")

\* The SSH session ends, or a command fails that does nothing else.
Cut(d) ==
  /\ "cut" \in Failures /\ pc[d] \in Working
  /\ UNCHANGED <<host, active, target>>
  /\ End(d, "failed")

Command(d) ==
  \/ RemoveTarget(d) \/ StartTarget(d) \/ SeesHealthy(d) \/ GiveUp(d) \/ Probe(d)
  \/ ConnectTarget(d) \/ DisconnectActive(d) \/ WriteSnippet(d) \/ Reload(d) \/ StopActive(d)

Next ==
  \/ \E d \in Deploy : Detect(d) \/ Command(d) \/ Cut(d)
  \/ \E c \in Colour : BecomesHealthy(c)

Spec == Init /\ [][Next]_vars

\* Every command of the script ends, the wait after sixty looks.  No fairness is asked of
\* BecomesHealthy.
LiveSpec == Spec /\ \A d \in Deploy : WF_vars(Command(d))

-----------------------------------------------------------------------------
(* What should hold. *)

\* What nginx sends a request to answers it: running, and able to reach the database.
Serving == container[backend] = "healthy" /\ backend \in attached

Deployed == \E d \in Deploy : pc[d] = "done"
Resting == \A d \in Deploy : pc[d] \notin Working

\* No two runs were at work at once, none ended within the switch or left blue running beside
\* a serving green, and nginx took every snippet.  Everything else that can go wrong disturbs
\* nobody: containers that never become healthy or ready and their rollback, a run cut short
\* before or after the switch that leaves the colours as they serve, or green beside blue, and
\* most failures that "|| true" swallows.
Undisturbed == disturbed = {}

\* "Detect active container": the colour docker ps suggests is the one nginx sends requests to,
\* until the run switches, also after runs that left a green container behind; otherwise
\* "Remove old TARGET" removes the container that serves.
ActiveIsServing ==
  Undisturbed =>
    \A d \in Deploy :
      pc[d] \in Working \ ({"reloaded"} \cup Switching) /\ active[d] # NoColour =>
        active[d] = backend /\ (Deployed => Serving)

\* Once a deployment has succeeded, requests are answered, whatever becomes of later ones, but
\* for the moment between "Switch network alias" and "Update host nginx backend".
ServedOutsideSwitch ==
  Undisturbed /\ Deployed => Serving \/ \E d \in Deploy : pc[d] \in Switching

\* After the script nginx has loaded what the snippet says, and that colour answers.  (The
\* other one may run on, if it is green: the next run will remove it.)
SuccessIsServed ==
  Undisturbed /\ Deployed /\ Resting => backend = snippet /\ Serving /\ ~Misleading

\* master.yml:256, "DEPLOY SUCCESS": the script says so only after it has switched, to a colour
\* that answers, from one that it has stopped.
Switched == backend = snippet /\ Serving /\ ~Runs(Other(backend))
SuccessIsTrue == Deployed /\ Resting => Switched

\* While run d works: what it took for active is the colour nginx has loaded until d reloads
\* it, serving (if a deployment has succeeded before) until d disconnects it; the new colour is
\* ready once it has been probed.
RunIsRight(d) ==
  LET old == active[d]  new == target[d]  at == pc[d] IN
  /\ IF old = NoColour
     THEN ~Deployed /\ new = "blue" /\ backend = "blue" /\ snippet = "blue" /\ ~Runs("green")
     ELSE /\ old = Other(new) /\ Runs(old)
          /\ backend = IF at = "reloaded" THEN new ELSE old
          /\ snippet = IF at \in {"written", "reloaded"} THEN new ELSE old
  /\ IF Deployed
     THEN /\ container[old] = "healthy"
          /\ at \notin {"reloaded"} \cup Switching => old \in attached
     ELSE old \in {NoColour, "blue"}
  /\ at \notin {"detected", "removed", "waiting"} => container[new] = "healthy"
  /\ at \notin {"detected", "removed", "waiting", "probing"} => new \in attached

\* Between runs the colour of the last success serves, and docker ps does not suggest another
\* one; before the first success nginx sends to blue, and nothing runs without blue.
RestIsRight ==
  /\ backend = snippet
  /\ ~Misleading
  /\ IF Deployed THEN Serving ELSE backend = "blue" /\ (Runs("green") => Runs("blue"))

OneAtATime == \A d, e \in Deploy : pc[d] \in Working /\ pc[e] \in Working => d = e

\* Inductive.
DeployInv ==
  /\ TypeOK
  /\ Undisturbed =>
       /\ OneAtATime
       /\ \A d \in Deploy : pc[d] \in Working => RunIsRight(d)
       /\ Resting => RestIsRight

\* Every run comes to an end, also if another one removes what it waits for; and unless
\* something has disturbed the runs, requests are then answered (or were never yet).  The
\* moment of the switch, in which they are not, ends with the run.
EventuallyEnds ==
  \A d \in Deploy :
    pc[d] = "detected" ~> pc[d] \in Ended /\ (Undisturbed /\ Deployed => Serving)
=============================================================================
