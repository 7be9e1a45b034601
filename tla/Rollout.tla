------------------------------ MODULE Rollout -------------------------------
(***************************************************************************)
(* A deploy of the production stack: rollout.sh replaces the api and then  *)
(* the web container beside the running one, every api container migrates  *)
(* the database before it serves, Traefik follows what is healthy, and     *)
(* restart.sh swaps the host worker at the end.                            *)
(*                                                                         *)
(* One action per docker command or wait of the script, one per statement  *)
(* group of a migrating boot. The script may be interrupted anywhere and   *)
(* started again for any build; a build may carry an image that never gets *)
(* healthy. Two waits are ordered by the constants of the stack: a drain   *)
(* (5 s) outlasts a health check of Traefik (2 s and 1 s), so whoever      *)
(* finished draining finds Traefik's view up to date.                      *)
(***************************************************************************)
EXTENDS Integers, FiniteSets, FiniteSetsExt

CONSTANTS
  Builds,          \* image tags, 1 .. n; later ones carry more migrations
  Slots,           \* container names compose can use
  LabelsOf,        \* the traefik.* labels a build's containers carry
  MaxDeploys, MaxInterrupts, MaxBootCrashes

ASSUME BuildsAssumption == Builds \subseteq Nat \ {0} /\ 1 \in Builds
ASSUME SlotsAssumption == Slots \subseteq Nat \ {0} /\ {1, 2} \subseteq Slots

VARIABLES
  con,        \* con[c]: service, build and state of a container
  routed,     \* the containers Traefik sends requests to
  applied,    \* migrations in the ledger table; build b brings 1 .. b
  lock,       \* the container holding the migration lock, or 0
  seen,       \* what a migrating container read from the ledger
  collided,   \* a boot tried to apply a migration that was applied already
  pc, svc, tag,   \* where the script stands, for which service and build
  old, new,       \* its lists of containers
  binary, worker, \* builds of the worker on disk and running
  deploys, interrupts, crashes,
  cold        \* the stack was never started before

conVars == <<con, routed, applied, lock, seen, collided>>
scriptVars == <<pc, svc, tag, old, new>>
hostVars == <<binary, worker>>
counters == <<deploys, interrupts, crashes, cold>>
vars == <<conVars, scriptVars, hostVars, counters>>

Services == {"api", "web"}
Free == [svc |-> "none", build |-> 0, st |-> "none"]
\* "lock" and "migrate" are an api container before server.js runs; "flagged"
\* is a web container with /tmp/draining, "leaving" an api after SIGTERM.
States == {"none", "lock", "migrate", "boot", "up", "flagged", "leaving",
           "sick", "exited"}

TypeOK ==
  /\ con \in [Slots -> [svc : Services \cup {"none"}, build : Builds \cup {0}, st : States]]
  /\ routed \subseteq Slots
  /\ applied \subseteq Builds /\ seen \in [Slots -> SUBSET Builds]
  /\ lock \in Slots \cup {0} /\ collided \in BOOLEAN
  /\ pc \in {"idle", "stale", "start", "healthy", "routed", "abort", "switch", "switched",
             "drain", "stop", "remove", "worker", "restart"}
  /\ svc \in Services /\ tag \in Builds
  /\ old \subseteq Slots /\ new \in Slots \cup {0}
  /\ {binary, worker} \subseteq Builds \cup {0} /\ cold \in BOOLEAN

\* The migration files in a build's image.
Files(b) == {m \in Builds : m <= b}

Of(s) == {c \in Slots : con[c].svc = s}
\* docker compose ps: exited containers are listed apart.
Running(s) == {c \in Of(s) : con[c].st # "exited"}
\* Docker reports the container healthy: the web health check asks for "/",
\* which a flagged container still serves.
Healthy(c) == con[c].st \in {"up", "flagged"}
Serves(c) == con[c].st \in {"up", "flagged", "leaving"}
\* What Traefik's own check of /api/health or /healthz says.
Passes(c) == con[c].st = "up"
\* Traefik drops a service whose healthy replicas carry different labels.
Clash(s) == \E c, d \in Of(s) : /\ Healthy(c) /\ Healthy(d)
                                /\ LabelsOf[con[c].build] # LabelsOf[con[d].build]
Answers(s) == ~Clash(s) /\ \E c \in routed \cap Of(s) : Serves(c)
UpToDate == routed = {c \in Slots : Passes(c)}

Fresh(s, b) == [svc |-> s, build |-> b, st |-> IF s = "api" THEN "lock" ELSE "boot"]

\* A stack that runs build 1, and one that was never started.
Init ==
  /\ \/ /\ con = [c \in Slots |-> CASE c = 1 -> [Fresh("api", 1) EXCEPT !.st = "up"]
                                    [] c = 2 -> [Fresh("web", 1) EXCEPT !.st = "up"]
                                    [] OTHER -> Free]
        /\ routed = {1, 2} /\ applied = {1} /\ binary = 1 /\ cold = FALSE
     \/ /\ con = [c \in Slots |-> Free]
        /\ routed = {} /\ applied = {} /\ binary = 0 /\ cold = TRUE
  /\ lock = 0 /\ seen = [c \in Slots |-> {}] /\ collided = FALSE
  /\ pc = "idle" /\ svc = "api" /\ tag = 1 /\ old = {} /\ new = 0
  /\ worker = binary
  /\ deploys = 0 /\ interrupts = 0 /\ crashes = 0

-----------------------------------------------------------------------------
(* Containers and Traefik *)

Become(c, st) == con' = [con EXCEPT ![c].st = st]

\* Mutant: no advisory lock.
MutTakeLock(c) ==
  /\ con[c].st = "lock"
  /\ lock' = c /\ seen' = [seen EXCEPT ![c] = applied]
  /\ Become(c, "migrate")
  /\ UNCHANGED <<routed, applied, collided>>

\* migrate.ts: pg_advisory_lock, then the ledger is read under the lock.
TakeLock(c) ==
  /\ con[c].st = "lock" /\ lock = 0
  /\ lock' = c /\ seen' = [seen EXCEPT ![c] = applied]
  /\ Become(c, "migrate")
  /\ UNCHANGED <<routed, applied, collided>>

\* One file the boot did not see in the ledger, in name order, in its own
\* transaction with its ledger row; an applied one would fail the boot.
ApplyNext(c) ==
  LET todo == Files(con[c].build) \ seen[c]
      m == Min(todo)
  IN  /\ con[c].st = "migrate" /\ todo # {}
      /\ IF m \in applied
         THEN /\ collided' = TRUE /\ Become(c, "sick")
              /\ lock' = (IF lock = c THEN 0 ELSE lock) /\ UNCHANGED <<applied, seen>>
         ELSE /\ applied' = applied \cup {m}
              /\ seen' = [seen EXCEPT ![c] = @ \cup {m}]
              /\ UNCHANGED <<con, lock, collided>>
      /\ UNCHANGED routed

\* All files are in: unlock, and the entrypoint starts the server.
Migrated(c) ==
  /\ con[c].st = "migrate" /\ Files(con[c].build) \subseteq seen[c]
  /\ Become(c, "boot") /\ lock' = (IF lock = c THEN 0 ELSE lock)
  /\ seen' = [seen EXCEPT ![c] = {}]
  /\ UNCHANGED <<routed, applied, collided>>

\* The container passes its health check, or turns out never to.
TurnHealthy(c) ==
  /\ con[c].st = "boot"
  /\ \E st \in {"up", "sick"} : Become(c, st)
  /\ UNCHANGED <<routed, applied, lock, seen, collided>>

\* A container that dies while it boots gives up the lock with its session and
\* is started again (restart: unless-stopped).
BootCrash(c) ==
  /\ con[c].st \in {"lock", "migrate", "boot", "sick"} /\ crashes < MaxBootCrashes
  /\ con' = [con EXCEPT ![c] = Fresh(@.svc, @.build)]
  /\ lock' = (IF lock = c THEN 0 ELSE lock) /\ seen' = [seen EXCEPT ![c] = {}]
  /\ crashes' = crashes + 1
  /\ UNCHANGED <<routed, applied, collided, scriptVars, hostVars, deploys, interrupts, cold>>

\* Traefik looks at one container.
Check(c) ==
  /\ (c \in routed) # Passes(c)
  /\ routed' = IF Passes(c) THEN routed \cup {c} ELSE routed \ {c}
  /\ UNCHANGED <<con, applied, lock, seen, collided>>

\* server.ts: an api that was told to stop closes after SHUTDOWN_DRAIN_MS.
Close(c) ==
  /\ con[c].st = "leaving" /\ UpToDate
  /\ Become(c, "exited")
  /\ UNCHANGED <<routed, applied, lock, seen, collided>>

ContainerStep ==
  /\ \E c \in Slots : TakeLock(c) \/ ApplyNext(c) \/ Migrated(c) \/ TurnHealthy(c)
                      \/ Check(c) \/ Close(c)
  /\ UNCHANGED <<scriptVars, hostVars, counters>>

-----------------------------------------------------------------------------
(* rollout.sh *)

Goto(l) == pc' = l
Drop(cs) == /\ con' = [c \in Slots |-> IF c \in cs THEN Free ELSE con[c]]
            /\ lock' = (IF lock \in cs THEN 0 ELSE lock)
            /\ seen' = [c \in Slots |-> IF c \in cs THEN {} ELSE seen[c]]
            /\ UNCHANGED <<routed, applied, collided>>
Rest == UNCHANGED <<hostVars, counters>>

\* A merge starts a deploy; one at a time.
Deploy(b) ==
  /\ pc = "idle" /\ deploys < MaxDeploys
  /\ deploys' = deploys + 1 /\ tag' = b /\ svc' = "api" /\ Goto("stale")
  /\ UNCHANGED <<conVars, old, new, hostVars, interrupts, crashes, cold>>

\* Stopped leftovers of an aborted rollout are removed first.
RemoveStale ==
  /\ pc = "stale"
  /\ Drop(Of(svc) \ Running(svc))
  /\ old' = Running(svc) /\ Goto("start")
  /\ UNCHANGED <<svc, tag, new>> /\ Rest

\* The service is done: the other one, then the worker.
NextService == IF svc = "api" THEN svc' = "web" /\ Goto("stale")
                              ELSE svc' = svc /\ Goto("worker")

\* Mutant: one current container is enough.
MutAlreadyCurrent ==
  /\ pc = "start" /\ \E c \in old : con[c].build = tag
  /\ NextService /\ old' = {} /\ new' = 0
  /\ UNCHANGED <<conVars, tag>> /\ Rest

AlreadyCurrent ==
  /\ pc = "start" /\ old # {} /\ \A c \in old : con[c].build = tag
  /\ NextService /\ old' = {} /\ new' = 0
  /\ UNCHANGED <<conVars, tag>> /\ Rest

\* One container more than run now; the first one of a service that does not
\* run is waited for in the same way. Traefik has not seen it yet.
StartNew ==
  /\ pc = "start" /\ (old = {} \/ \E c \in old : con[c].build # tag)
  /\ \E c \in Slots :
       /\ con[c] = Free /\ \A d \in Slots : d < c => con[d] # Free
       /\ con' = [con EXCEPT ![c] = Fresh(svc, tag)]
       /\ new' = c /\ routed' = routed \ {c}
  /\ Goto("healthy")
  /\ UNCHANGED <<applied, lock, seen, collided, old, svc, tag>> /\ Rest

\* old[0] is whichever docker compose ps lists first.
SeesNewLabels ==
  \E c \in old : LabelsOf[con[c].build] # LabelsOf[tag]
SeesSameLabels ==
  old = {} \/ \E c \in old : LabelsOf[con[c].build] = LabelsOf[tag]

\* wait_healthy; a label change is switched over without overlap.
WaitHealthy ==
  /\ pc = "healthy" /\ Healthy(new)
  /\ \/ SeesSameLabels /\ Goto("routed")
     \/ SeesNewLabels /\ Goto("switch")
  /\ UNCHANGED <<conVars, svc, tag, old, new>> /\ Rest

\* Mutant: the script does not wait for Traefik.
MutProbed == TRUE

\* The panel answers with the deployed build.
Probed == ~Clash(svc) /\ \E c \in routed \cap Of(svc) : Serves(c) /\ con[c].build = tag

\* Nobody answers the probe, or a container of another build does.
Missed == ~Probed \/ \E c \in routed \cap Of(svc) : con[c].build # tag

\* A wait that fails: the new container is to go, unless it is the first one
\* of its service.
WaitFails ==
  /\ IF old = {} THEN Goto("idle") /\ new' = 0 ELSE Goto("abort") /\ new' = new
  /\ UNCHANGED <<conVars, svc, tag, old>> /\ Rest

\* Mutant: only the health check has a timeout.
MutGiveUp == pc = "healthy" /\ ~Healthy(new) /\ WaitFails

\* The last look of wait_healthy or wait_routed before its deadline fails.
GiveUp == /\ \/ pc = "healthy" /\ ~Healthy(new)
             \/ pc = "routed" /\ Missed
          /\ WaitFails

\* abort_new: the last logs, then docker rm -f, whatever has become of the
\* container since it was given up; the deploy fails.
AbortNew ==
  /\ pc = "abort"
  /\ Drop({new})
  /\ Goto("idle") /\ old' = {} /\ new' = 0
  /\ UNCHANGED <<svc, tag>> /\ Rest

\* wait_routed.
Routed ==
  /\ pc \in {"routed", "switched"} /\ Probed
  /\ IF pc = "switched" \/ old = {}
     THEN NextService /\ old' = {} /\ new' = 0
     ELSE Goto("drain") /\ UNCHANGED <<svc, old, new>>
  /\ UNCHANGED <<conVars, tag>> /\ Rest

\* docker rm -f of every old container the moment the new one is healthy.
Switch ==
  /\ pc = "switch"
  /\ Drop(old) /\ Goto("switched")
  /\ UNCHANGED <<svc, tag, old, new>> /\ Rest

NeverRouted ==
  /\ pc = "switched" /\ Goto("idle") /\ old' = {} /\ new' = 0
  /\ UNCHANGED <<conVars, svc, tag>> /\ Rest

\* Mutant: web is stopped without a drain.
MutDrain(c) ==
  /\ pc = "drain" /\ c \in old
  /\ Become(c, IF svc = "web" \/ ~Serves(c) THEN "exited" ELSE "leaving")
  /\ lock' = (IF lock = c THEN 0 ELSE lock) /\ seen' = [seen EXCEPT ![c] = {}]
  /\ new' = c /\ Goto("stop")
  /\ UNCHANGED <<routed, applied, collided, svc, tag, old>> /\ Rest

\* drain and docker stop: web is flagged and stopped after the sleep, the api
\* gets SIGTERM and closes by itself. One that never served dies at once.
Drain(c) ==
  /\ pc = "drain" /\ c \in old
  /\ Become(c, IF ~Serves(c) THEN "exited" ELSE IF svc = "web" THEN "flagged" ELSE "leaving")
  /\ lock' = (IF lock = c THEN 0 ELSE lock) /\ seen' = [seen EXCEPT ![c] = {}]
  /\ new' = c /\ Goto("stop")
  /\ UNCHANGED <<routed, applied, collided, svc, tag, old>> /\ Rest

Stop ==
  /\ pc = "stop"
  /\ \/ svc = "web" /\ con[new].st = "flagged" /\ UpToDate /\ Become(new, "exited")
     \/ con[new].st = "exited" /\ UNCHANGED con
  /\ Goto("remove")
  /\ UNCHANGED <<routed, applied, lock, seen, collided, svc, tag, old, new>> /\ Rest

Remove ==
  /\ pc = "remove"
  /\ Drop({new}) /\ old' = old \ {new} /\ new' = 0
  /\ IF old = {new} THEN NextService ELSE Goto("drain") /\ svc' = svc
  /\ UNCHANGED tag /\ Rest

RollStep == \/ RemoveStale \/ AlreadyCurrent \/ StartNew \/ WaitHealthy \/ GiveUp \/ AbortNew
            \/ Routed \/ Switch \/ NeverRouted \/ (\E c \in Slots : Drain(c)) \/ Stop \/ Remove

-----------------------------------------------------------------------------
(* restart.sh and the host *)

\* The binary is built beside the live one and swapped in one mv; a build that
\* fails ends the deploy with the running worker untouched.
SwapWorker ==
  /\ pc = "worker"
  /\ \/ binary' = tag /\ Goto("restart")
     \/ binary' = binary /\ Goto("idle")
  /\ UNCHANGED <<conVars, svc, tag, old, new, worker, counters>>

\* systemctl restart, then the boot line; without it the deploy fails with the
\* new worker in its restart loop all the same.
RestartWorker ==
  /\ pc = "restart"
  /\ worker' = binary /\ Goto("idle")
  /\ UNCHANGED <<conVars, svc, tag, old, new, binary, counters>>

\* Restart=always starts whatever is on disk.
WorkerCrash ==
  /\ worker # binary /\ worker # 0
  /\ worker' = binary
  /\ UNCHANGED <<conVars, scriptVars, binary, counters>>

\* The runner is cancelled or a command of the script fails; a docker stop
\* under way goes on without it.
Interrupt ==
  /\ pc # "idle" /\ interrupts < MaxInterrupts
  /\ interrupts' = interrupts + 1
  /\ Goto("idle") /\ old' = {} /\ new' = 0
  /\ UNCHANGED <<conVars, svc, tag, hostVars, deploys, crashes, cold>>

ScriptStep == RollStep \/ SwapWorker \/ RestartWorker

Next == \/ ContainerStep \/ ScriptStep
        \/ \E b \in Builds : Deploy(b)
        \/ \E c \in Slots : BootCrash(c)
        \/ WorkerCrash \/ Interrupt

Spec == Init /\ [][Next]_vars

\* Waits have deadlines and docker answers; nobody owes a deploy.
FairSpec == Spec /\ WF_vars(ContainerStep) /\ WF_vars(ScriptStep)

-----------------------------------------------------------------------------
(* Properties *)

\* rollout.sh is never below one serving container: a service that Traefik can
\* reach stays reachable through starts, failures, interrupts and drains. The
\* exceptions are the one the script documents, a change of Traefik's labels;
\* two containers of one build (a rollback after an interrupt), where the probe
\* is answered by the wrong one; and a new container that was given up and is
\* by now the only one that serves, beside old ones that never did.
NeverBelowOne ==
  [][\A s \in Services : Answers(s) =>
       \/ Answers(s)'
       \/ Clash(s)' \/ pc = "switch"
       \/ \E c, d \in Of(s) : c # d /\ con[c].build = con[d].build
       \/ pc = "abort" /\ \A c \in routed \cap Of(s) : Serves(c) => c = new]_vars

\* A container is stopped or removed only when Traefik no longer sends it
\* requests (drain), unless a label change cuts it off or it is the new one of
\* a rollout that gave it up a moment too early (abort_new): the containers a
\* deploy found are drained or kept.
DrainedBeforeStop ==
  [][\A c \in routed : Serves(c) /\ ~Serves(c)' =>
       \/ pc = "switch" \/ Clash(con[c].svc)
       \/ pc = "abort" /\ c = new]_vars

\* Whoever runs code of a build finds the schema of that build, whatever boots
\* overlap, crash or are aborted: an api that reached its server, the worker on
\* disk and the running one; and no boot trips over another one's migrations.
\* (A first start that failed is the exception: deployed again it is "already
\* current", and the worker follows without a schema.)
SchemaFits ==
  /\ \A c \in Of("api") : con[c].st \in {"boot", "up", "leaving"} =>
       Files(con[c].build) \subseteq applied
  /\ ~cold => \A b \in {binary, worker} : Files(b) \subseteq applied
  /\ ~collided

\* A rollout that went through to the worker left only containers of its build,
\* none of them forgotten by an earlier, interrupted one.
DeployedIsCurrent ==
  pc \in {"worker", "restart"} =>
    \A s \in Services : Running(s) # {} /\ \A c \in Running(s) : con[c].build = tag

\* A deploy ends, also when the new container never gets healthy or routed.
DeployEnds == pc # "idle" ~> pc = "idle"
=============================================================================
