---------------------------- MODULE RolloutProofs ----------------------------
(***************************************************************************)
(* A rolling deployment, for any number of containers, builds, deploys,    *)
(* boot crashes and interruptions.  The invariant is RollInv:              *)
(*  - the holder of the migration lock has seen all that is applied, so    *)
(*    no boot applies a file twice (MigrateInv), and what passed its       *)
(*    migrations finds its schema (ServedSchema);                          *)
(*  - what runs of the service in hand is in the script's list or is the   *)
(*    new container (ScriptInv), and a service that ran has a container    *)
(*    that carries it (StandInv);                                          *)
(*  - a service the script is done with runs the tag's build alone         *)
(*    (DoneInv), and the host's binaries have their schema (HostInv);      *)
(*  - a drain has a keeper outside its list: up, of the tag's build, and   *)
(*    routed unless an old twin of its build still serves (KeeperInv);     *)
(*  - whoever leaves was relieved by one that is up and stays (ReliefInv). *)
(* The last two are what NeverBelowOne rests on: the next container may be *)
(* taken down only because the script's probe was answered, and by whom is *)
(* not known to the script.                                                *)
(***************************************************************************)
EXTENDS Rollout, FiniteSetTheorems, WellFoundedInduction, TLAPS

\* Not on its way out: such a container stays until the script removes it.
Standing == {"lock", "migrate", "boot", "up", "sick"}
Stands(c, s) == con[c].svc = s /\ con[c].st \in Standing

\* Whoever migrates holds the lock, and has seen what is applied.
MigrateInv ==
  /\ \A c \in Slots : seen[c] \subseteq applied
  /\ \A c \in Slots : con[c].st = "migrate" => lock = c /\ seen[c] = applied
  /\ ~collided

\* What a container that passed its migrations finds.
ServedSchema ==
  /\ \A c \in Of("api") : con[c].st \in {"boot", "up", "leaving"} =>
       Files(con[c].build) \subseteq applied
  /\ \A c \in Slots : con[c].st = "flagged" => con[c].svc = "web"

\* Before the old containers are touched, and while they are.
Beside == {"start", "healthy", "routed", "abort", "switch"}
Draining == {"drain", "stop", "remove"}

\* Between services the lists are empty, and the worker comes last.
RestInv ==
  /\ pc \in {"idle", "stale", "worker", "restart"} => old = {} /\ new = 0
  /\ pc \in {"worker", "restart"} => svc = "web"

\* What the service runs is in the list, or new.
OldInv ==
  /\ pc \in Beside \cup Draining => \A c \in old : con[c].svc = svc
  /\ pc \in Beside => \A c \in Running(svc) : c \in old \/ (c = new /\ pc # "start")
  /\ pc = "switched" => Running(svc) \subseteq {new}
  /\ pc \in Draining => \A c \in Running(svc) \ old : con[c].build = tag

\* The container that was started, and later the one that is taken down.
NewInv ==
  /\ pc \in {"healthy", "routed", "abort", "switch", "switched"} =>
       /\ new \in Slots \ old
       /\ Stands(new, svc) /\ con[new].build = tag
       /\ pc \notin {"healthy", "abort"} => con[new].st = "up"
  /\ pc = "abort" => old # {}
  /\ pc \in {"stop", "remove"} => new \in old
  /\ pc = "remove" => con[new].st = "exited"

ScriptInv == RestInv /\ OldInv /\ NewInv

\* A container that carries the service, with its schema.
Carries(c, s) ==
  /\ Stands(c, s)
  /\ s = "api" /\ ~cold => Files(con[c].build) \subseteq applied

Supplied == \A s \in Services : ~cold \/ Running(s) # {} => \E c \in Slots : Carries(c, s)

StandInv ==
  /\ Supplied
  /\ pc \in Beside /\ (~cold \/ old # {}) => \E c \in old : Carries(c, svc)

\* A service the script is done with.
Current(s) ==
  /\ \E c \in Slots : Stands(c, s) /\ con[c].build = tag
  /\ \A c \in Running(s) : con[c].build = tag

DoneInv ==
  /\ svc = "web" /\ pc # "idle" => /\ Current("api")
                                   /\ ~cold => Files(tag) \subseteq applied
  /\ pc \in {"worker", "restart"} => Current("web")

HostInv == ~cold => Files(binary) \subseteq applied /\ Files(worker) \subseteq applied

\* The new container of a drain: routed, unless an old one of its build
\* answered the probe and still serves.
KeeperInv ==
  pc \in Draining =>
    \E k \in Slots \ old :
      /\ con[k].svc = svc /\ con[k].st = "up" /\ con[k].build = tag
      /\ k \in routed \/ \E e \in old : con[e].build = tag /\ Serves(e)

Leaving(c) == con[c].st \in {"flagged", "leaving"}

\* Whoever leaves was relieved.
Relieved(S) ==
  (\E c \in S : Leaving(c)) =>
    \E d \in S : /\ con[d].st = "up"
                 /\ \/ d \in routed
                    \/ \E e \in S : e # d /\ con[e].build = con[d].build /\ Serves(e)

AllRelieved == \A s \in Services : Relieved(Of(s))

ReliefInv ==
  /\ AllRelieved
  /\ pc \in Beside => Relieved(old)

RollInv ==
  /\ TypeOK
  /\ MigrateInv
  /\ ServedSchema
  /\ ScriptInv
  /\ StandInv
  /\ DoneInv
  /\ HostInv
  /\ KeeperInv
  /\ ReliefInv

-----------------------------------------------------------------------------
(* Type correctness *)

\* The next migration is one of those to do: Min has a value.
LEMMA MinIsMember == ASSUME NEW S \in SUBSET Nat, S # {} PROVE Min(S) \in S
<1>1. PICK m \in S : \A n \in S : ~(<<n, m>> \in OpToRel(<, Nat))
  BY NatLessThanWellFounded, WFMin
<1>2. ASSUME NEW n \in S, n < m PROVE FALSE
  <2>1. <<n, m>> \in Nat \X Nat /\ <<n, m>>[1] < <<n, m>>[2]
    BY <1>2
  <2>2. <<n, m>> \in OpToRel(<, Nat)
    BY <2>1, Zenon DEF OpToRel
  <2> QED
    BY <1>1, <2>2
<1>3. \A n \in S : m =< n
  BY <1>2
<1> QED
  BY <1>3 DEF Min

\* The first stack has its types.
LEMMA TypeInit == Init => TypeOK
<1> SUFFICES ASSUME Init PROVE TypeOK
  OBVIOUS
<1>1. con \in [Slots -> [svc : Services \cup {"none"}, build : Builds \cup {0}, st : States]]
  <2>1. CASE con = [c \in Slots |-> Free]
    BY <2>1 DEF Free, States
  <2>2. CASE con = [c \in Slots |-> CASE c = 1 -> [Fresh("api", 1) EXCEPT !.st = "up"]
                                      [] c = 2 -> [Fresh("web", 1) EXCEPT !.st = "up"]
                                      [] OTHER -> Free]
    <3>1. \A c \in Slots : \/ con[c] = [svc |-> "api", build |-> 1, st |-> "up"]
                           \/ con[c] = [svc |-> "web", build |-> 1, st |-> "up"]
                           \/ con[c] = Free
      BY <2>2 DEF Fresh
    <3>2. con = [c \in Slots |-> con[c]]
      BY <2>2
    <3> QED
      BY <3>1, <3>2, BuildsAssumption DEF Free, Services, States
  <2> QED
    BY <2>1, <2>2 DEF Init
<1> QED
  BY <1>1, BuildsAssumption, SlotsAssumption DEF Init, TypeOK, Services

\* Containers that are removed leave typed slots.
LEMMA DropType ==
  ASSUME TypeOK, NEW cs, Drop(cs)
  PROVE  /\ con' \in [Slots -> [svc : Services \cup {"none"}, build : Builds \cup {0}, st : States]]
         /\ lock' \in Slots \cup {0} /\ seen' \in [Slots -> SUBSET Builds]
         /\ routed' = routed /\ applied' = applied /\ collided' = collided
BY DEF TypeOK, Drop, Free, Services, States

\* The steps of a container and of Traefik keep the types.
LEMMA ContainerType ==
  ASSUME TypeOK, NEW c \in Slots,
         TakeLock(c) \/ ApplyNext(c) \/ Migrated(c) \/ TurnHealthy(c) \/ Check(c) \/ Close(c),
         UNCHANGED <<scriptVars, hostVars, counters>>
  PROVE  TypeOK'
<1> USE BuildsAssumption DEF TypeOK, Become, scriptVars, hostVars, counters, Services, States
<1>1. CASE TakeLock(c)
  BY <1>1 DEF TakeLock
<1>2. CASE ApplyNext(c)
  <2> DEFINE todo == Files(con[c].build) \ seen[c]
  <2>1. todo \in SUBSET Nat /\ todo # {} /\ todo \subseteq Builds
    BY <1>2 DEF ApplyNext, Files
  <2> HIDE DEF todo
  <2>2. Min(todo) \in Builds
    BY <2>1, MinIsMember
  <2>3. \/ /\ collided' = TRUE /\ con' = [con EXCEPT ![c].st = "sick"]
           /\ lock' = (IF lock = c THEN 0 ELSE lock) /\ UNCHANGED <<applied, seen>>
        \/ /\ applied' = applied \cup {Min(todo)}
           /\ seen' = [seen EXCEPT ![c] = @ \cup {Min(todo)}]
           /\ UNCHANGED <<con, lock, collided>>
    BY <1>2 DEF ApplyNext, todo
  <2>4. routed' = routed
    BY <1>2 DEF ApplyNext
  <2>5. PICK m \in Builds : m = Min(todo)
    BY <2>2
  <2>6. CASE /\ applied' = applied \cup {m}
             /\ seen' = [seen EXCEPT ![c] = @ \cup {m}]
             /\ UNCHANGED <<con, lock, collided>>
    BY <2>4, <2>6
  <2>7. CASE /\ collided' = TRUE /\ con' = [con EXCEPT ![c].st = "sick"]
             /\ lock' = (IF lock = c THEN 0 ELSE lock) /\ UNCHANGED <<applied, seen>>
    BY <2>4, <2>7
  <2> QED
    BY <2>3, <2>5, <2>6, <2>7
<1>3. CASE Migrated(c)
  BY <1>3 DEF Migrated
<1>4. CASE TurnHealthy(c)
  BY <1>4 DEF TurnHealthy
<1>5. CASE Check(c)
  BY <1>5 DEF Check
<1>6. CASE Close(c)
  BY <1>6 DEF Close
<1> QED
  BY <1>1, <1>2, <1>3, <1>4, <1>5, <1>6

\* Every step keeps the types.
LEMMA TypeStep == ASSUME TypeOK, [Next]_vars PROVE TypeOK'
<1> USE DEF Goto, Rest, conVars, scriptVars, hostVars, counters
<1>1. CASE ContainerStep
  BY <1>1, ContainerType DEF ContainerStep
<1>2. ASSUME NEW b \in Builds, Deploy(b) PROVE TypeOK'
  BY <1>2 DEF Deploy, TypeOK, Services
<1>3. ASSUME NEW c \in Slots, BootCrash(c) PROVE TypeOK'
  BY <1>3 DEF BootCrash, Fresh, TypeOK, Services, States
<1>4. CASE RemoveStale
  <2>1. Drop(Of(svc) \ Running(svc))
    BY <1>4 DEF RemoveStale
  <2>2. old' \subseteq Slots
    BY <1>4 DEF RemoveStale, Running, Of
  <2>3. UNCHANGED <<svc, tag, new, hostVars, counters>> /\ pc' = "start"
    BY <1>4 DEF RemoveStale
  <2> QED
    BY <2>1, <2>2, <2>3, DropType DEF TypeOK
<1>5. CASE AlreadyCurrent
  BY <1>5 DEF AlreadyCurrent, NextService, TypeOK, Services
<1>6. CASE StartNew
  <2>1. PICK c \in Slots : con' = [con EXCEPT ![c] = Fresh(svc, tag)] /\ new' = c
    BY <1>6 DEF StartNew
  <2>2. Fresh(svc, tag) \in [svc : Services \cup {"none"}, build : Builds \cup {0}, st : States]
    BY DEF Fresh, TypeOK, States, Services
  <2> QED
    BY <1>6, <2>1, <2>2 DEF StartNew, TypeOK
<1>7. CASE WaitHealthy
  BY <1>7 DEF WaitHealthy, TypeOK
<1>8. CASE GiveUp \/ AbortNew
  <2>1. CASE GiveUp
    BY <2>1 DEF GiveUp, WaitFails, TypeOK
  <2>2. CASE AbortNew
    BY <2>2, DropType DEF AbortNew, TypeOK
  <2> QED
    BY <1>8, <2>1, <2>2
<1>9. CASE Routed
  BY <1>9 DEF Routed, NextService, TypeOK, Services
<1>10. CASE Switch
  BY <1>10, DropType DEF Switch, TypeOK
<1>11. CASE NeverRouted
  BY <1>11 DEF NeverRouted, TypeOK
<1>12. ASSUME NEW c \in Slots, Drain(c) PROVE TypeOK'
  BY <1>12 DEF Drain, Become, TypeOK, States
<1>13. CASE Stop
  BY <1>13 DEF Stop, Become, TypeOK, States
<1>14. CASE Remove
  <2>1. svc' \in Services /\ pc' \in {"stale", "worker", "drain"}
    BY <1>14 DEF Remove, NextService, TypeOK, Services
  <2> QED
    BY <1>14, <2>1, DropType DEF Remove, TypeOK
<1>15. CASE SwapWorker
  BY <1>15 DEF SwapWorker, TypeOK
<1>16. CASE RestartWorker
  BY <1>16 DEF RestartWorker, TypeOK
<1>17. CASE WorkerCrash
  BY <1>17 DEF WorkerCrash, TypeOK
<1>18. CASE Interrupt
  BY <1>18 DEF Interrupt, TypeOK
<1>19. CASE UNCHANGED vars
  BY <1>19 DEF vars, TypeOK
<1> QED
  BY <1>1, <1>2, <1>3, <1>4, <1>5, <1>6, <1>7, <1>8, <1>9, <1>10, <1>11, <1>12, <1>13,
     <1>14, <1>15, <1>16, <1>17, <1>18, <1>19 DEF Next, ScriptStep, RollStep

-----------------------------------------------------------------------------
(* Migrations *)

\* A removed container gives up its lock and takes no schema away.
LEMMA DropKeeps ==
  ASSUME TypeOK, MigrateInv, ServedSchema, NEW cs, Drop(cs)
  PROVE  MigrateInv' /\ ServedSchema'
<1> USE DEF TypeOK, Drop, Free
<1>1. MigrateInv'
  BY SlotsAssumption DEF MigrateInv
<1>2. ServedSchema'
  BY DEF ServedSchema, Of
<1> QED
  BY <1>1, <1>2

\* A file is applied by the holder of the lock, which saw all that were.
LEMMA ApplyKeeps ==
  ASSUME TypeOK, MigrateInv, ServedSchema, NEW c \in Slots, ApplyNext(c)
  PROVE  MigrateInv' /\ ServedSchema'
<1> DEFINE todo == Files(con[c].build) \ seen[c]
<1>1. todo \in SUBSET Nat /\ todo # {} /\ todo \subseteq Builds
  BY BuildsAssumption DEF ApplyNext, Files
<1>2. Min(todo) \in todo
  <2> HIDE DEF todo
  <2> QED
    BY <1>1, MinIsMember
<1>3. PICK m \in Builds : m = Min(todo)
  BY <1>1, <1>2
<1>4. con[c].st = "migrate" /\ lock = c /\ seen[c] = applied
  BY DEF ApplyNext, MigrateInv
<1>5. m \notin applied
  BY <1>2, <1>3, <1>4
<1>6. /\ applied' = applied \cup {m} /\ seen' = [seen EXCEPT ![c] = @ \cup {m}]
      /\ UNCHANGED <<con, lock, collided>>
  <2>1. IF m \in applied
         THEN /\ collided' = TRUE /\ Become(c, "sick")
              /\ lock' = (IF lock = c THEN 0 ELSE lock) /\ UNCHANGED <<applied, seen>>
         ELSE /\ applied' = applied \cup {m}
              /\ seen' = [seen EXCEPT ![c] = @ \cup {m}]
              /\ UNCHANGED <<con, lock, collided>>
    BY <1>3 DEF ApplyNext
  <2> QED
    BY <1>5, <2>1
<1> HIDE DEF todo
<1>7. MigrateInv'
  BY <1>4, <1>6 DEF TypeOK, MigrateInv
<1>8. ServedSchema'
  BY <1>6 DEF ServedSchema, Of, Files
<1> QED
  BY <1>7, <1>8

\* What is applied is never taken back, and only a holder of the lock adds to it.
LEMMA SchemaStep ==
  ASSUME TypeOK, MigrateInv, ServedSchema, ScriptInv, [Next]_vars
  PROVE  MigrateInv' /\ ServedSchema'
<1> USE SlotsAssumption DEF TypeOK, MigrateInv, ServedSchema, Of, Become, Files, Services
<1>1. ASSUME NEW c \in Slots,
             TakeLock(c) \/ Migrated(c) \/ TurnHealthy(c) \/ Check(c) \/ Close(c)
      PROVE  MigrateInv' /\ ServedSchema'
  <2>1. CASE TakeLock(c)
    BY <2>1 DEF TakeLock
  <2>2. CASE Migrated(c)
    BY <2>2 DEF Migrated
  <2>3. CASE TurnHealthy(c)
    BY <2>3 DEF TurnHealthy
  <2>4. CASE Check(c)
    BY <2>4 DEF Check
  <2>5. CASE Close(c)
    BY <2>5 DEF Close
  <2> QED
    BY <1>1, <2>1, <2>2, <2>3, <2>4, <2>5
<1>2. CASE ContainerStep
  BY <1>1, <1>2, ApplyKeeps DEF ContainerStep
<1>3. ASSUME NEW c \in Slots, BootCrash(c) PROVE MigrateInv' /\ ServedSchema'
  BY <1>3 DEF BootCrash, Fresh
<1>4. CASE RemoveStale \/ AbortNew \/ Switch \/ Remove
  BY <1>4, DropKeeps DEF RemoveStale, AbortNew, Switch, Remove
<1>5. CASE StartNew
  <2>1. PICK c \in Slots : con[c] = Free /\ con' = [con EXCEPT ![c] = Fresh(svc, tag)]
    BY <1>5 DEF StartNew
  <2>2. UNCHANGED <<applied, lock, seen, collided>>
    BY <1>5 DEF StartNew
  <2>3. Fresh(svc, tag).st \in {"lock", "boot"} /\ Fresh(svc, tag).svc = svc
        /\ (svc = "api" => Fresh(svc, tag).st = "lock")
    BY DEF Fresh
  <2> QED
    BY <2>1, <2>2, <2>3
<1>6. ASSUME NEW c \in Slots, Drain(c) PROVE MigrateInv' /\ ServedSchema'
  <2>1. con[c].svc = svc
    BY <1>6 DEF Drain, ScriptInv, OldInv, Beside, Draining
  <2>2. PICK st \in {"exited", "flagged", "leaving"} :
          /\ con' = [con EXCEPT ![c].st = st]
          /\ st = "flagged" => svc = "web"
          /\ st = "leaving" => svc = "api" /\ Serves(c)
    BY <1>6 DEF Drain
  <2>3. /\ lock' = (IF lock = c THEN 0 ELSE lock) /\ seen' = [seen EXCEPT ![c] = {}]
        /\ UNCHANGED <<routed, applied, collided>>
    BY <1>6 DEF Drain
  <2>4. MigrateInv'
    BY <2>2, <2>3
  <2>5. ServedSchema'
    BY <2>1, <2>2, <2>3 DEF Serves
  <2> QED
    BY <2>4, <2>5
<1>7. CASE Stop
  BY <1>7 DEF Stop
<1>8. CASE UNCHANGED conVars
  BY <1>8 DEF conVars
<1>9. ASSUME NEW b \in Builds, Deploy(b) PROVE UNCHANGED conVars
  BY <1>9 DEF Deploy
<1>10. CASE AlreadyCurrent \/ WaitHealthy \/ GiveUp \/ Routed \/ NeverRouted
  BY <1>8, <1>10 DEF AlreadyCurrent, WaitHealthy, GiveUp, WaitFails, Routed, NeverRouted
<1>11. CASE SwapWorker \/ RestartWorker \/ WorkerCrash \/ Interrupt
  BY <1>8, <1>11 DEF SwapWorker, RestartWorker, WorkerCrash, Interrupt
<1> QED
  BY <1>2, <1>3, <1>4, <1>5, <1>6, <1>7, <1>8, <1>9, <1>10, <1>11
     DEF Next, ScriptStep, RollStep, vars

-----------------------------------------------------------------------------
(* What containers do by themselves *)

\* To the script, a step of a container or of Traefik is one of these.
Moves ==
  /\ \A c \in Slots :
       /\ con'[c].svc = con[c].svc /\ con'[c].build = con[c].build
       /\ con[c].st \in Standing => con'[c].st \in Standing
       /\ con[c].st = "up" => con'[c].st = "up"
       /\ con'[c].st \in {"flagged", "leaving"} => con'[c].st = con[c].st
       /\ con[c].st = "exited" => con'[c].st = "exited"
       /\ con'[c].st = "exited" => con[c].st \in {"exited", "leaving"}
       /\ Serves(c) => Serves(c)' \/ (con[c].st = "leaving" /\ UpToDate)
       /\ con[c].st = "up" /\ c \in routed => c \in routed'
  /\ applied \subseteq applied'
  /\ UNCHANGED <<scriptVars, hostVars, cold>>

\* Every step of a container and of Traefik is such a move.
LEMMA ContainersMove ==
  ASSUME TypeOK, ContainerStep \/ \E c \in Slots : BootCrash(c)
  PROVE  Moves
<1> USE DEF Moves, TypeOK, Become, Standing, Serves, scriptVars, hostVars, counters
<1>1. ASSUME NEW c \in Slots, UNCHANGED <<scriptVars, hostVars, counters>>,
             TakeLock(c) \/ ApplyNext(c) \/ Migrated(c) \/ TurnHealthy(c) \/ Check(c) \/ Close(c)
      PROVE  Moves
  <2>1. CASE TakeLock(c)
    BY <1>1, <2>1 DEF TakeLock
  <2>2. CASE ApplyNext(c)
    <3>1. \/ con' = [con EXCEPT ![c].st = "sick"] /\ applied' = applied
          \/ \E m : applied' = applied \cup {m} /\ con' = con
      BY <2>2 DEF ApplyNext
    <3>2. con[c].st = "migrate" /\ routed' = routed
      BY <2>2 DEF ApplyNext
    <3> QED
      BY <1>1, <3>1, <3>2
  <2>3. CASE Migrated(c)
    BY <1>1, <2>3 DEF Migrated
  <2>4. CASE TurnHealthy(c)
    BY <1>1, <2>4 DEF TurnHealthy
  <2>5. CASE Check(c)
    BY <1>1, <2>5 DEF Check, Passes
  <2>6. CASE Close(c)
    BY <1>1, <2>6 DEF Close
  <2> QED
    BY <1>1, <2>1, <2>2, <2>3, <2>4, <2>5, <2>6
<1>2. ASSUME NEW c \in Slots, BootCrash(c) PROVE Moves
  <2>1. con' = [con EXCEPT ![c] = Fresh(con[c].svc, con[c].build)]
    BY <1>2 DEF BootCrash
  <2>2. con'[c].st \in {"lock", "boot"} /\ con'[c].svc = con[c].svc /\ con'[c].build = con[c].build
    BY <2>1 DEF Fresh
  <2>3. \A d \in Slots \ {c} : con'[d] = con[d]
    BY <2>1
  <2>4. con[c].st \in {"lock", "migrate", "boot", "sick"} /\ applied' = applied /\ routed' = routed
        /\ UNCHANGED <<scriptVars, hostVars, cold>>
    BY <1>2 DEF BootCrash
  <2> QED
    BY <2>2, <2>3, <2>4
<1> QED
  BY <1>1, <1>2 DEF ContainerStep

\* The script's lists stay right while containers move.
LEMMA MovesKeepScript ==
  ASSUME TypeOK, ScriptInv, Moves PROVE ScriptInv'
<1>1. Running(svc)' \subseteq Running(svc)
  BY DEF Moves, Running, Of, scriptVars
<1>2. svc \in Services /\ old \subseteq Slots /\ UNCHANGED <<pc, svc, tag, old, new>>
  BY DEF TypeOK, Moves, scriptVars
<1>3. \A c \in Slots : /\ con'[c].svc = con[c].svc /\ con'[c].build = con[c].build
                       /\ con[c].st \in Standing => con'[c].st \in Standing
                       /\ con[c].st = "up" => con'[c].st = "up"
                       /\ con[c].st = "exited" => con'[c].st = "exited"
  BY DEF Moves
<1>4. RestInv'
  BY <1>2 DEF ScriptInv, RestInv
<1>5. OldInv'
  <2>1. \A c \in old : con'[c].svc = con[c].svc
    BY <1>2, <1>3
  <2>2. \A c \in Running(svc) : con'[c].build = con[c].build
    BY <1>3 DEF Running, Of
  <2>3. PICK R : R = Running(svc)'
    OBVIOUS
  <2>4. R \subseteq Running(svc)
    BY <1>1, <2>3
  <2>5. OldInv
    BY DEF ScriptInv
  <2>6. /\ pc' \in Beside \cup Draining => \A c \in old' : con'[c].svc = svc'
        /\ pc' \in Beside => \A c \in R : c \in old' \/ (c = new' /\ pc' # "start")
        /\ pc' = "switched" => R \subseteq {new'}
        /\ pc' \in Draining => \A c \in R \ old' : con'[c].build = tag'
    BY <1>2, <2>1, <2>2, <2>4, <2>5 DEF OldInv
  <2> QED
    BY <2>3, <2>6 DEF OldInv
<1>6. NewInv'
  BY <1>2, <1>3 DEF ScriptInv, NewInv, Stands
<1> QED
  BY <1>4, <1>5, <1>6 DEF ScriptInv

\* What carries a service goes on carrying it.
LEMMA MovesKeepStanding ==
  ASSUME TypeOK, StandInv, DoneInv, HostInv, Moves
  PROVE  StandInv' /\ DoneInv' /\ HostInv'
<1>1. \A s \in Services : Running(s)' \subseteq Running(s)
  BY DEF Moves, Running, Of
<1>2. /\ svc \in Services /\ old \subseteq Slots
      /\ UNCHANGED <<pc, svc, tag, old, new, binary, worker, cold>>
      /\ applied \subseteq applied'
  BY DEF TypeOK, Moves, scriptVars, hostVars
<1>3. \A c \in Slots : /\ con'[c].svc = con[c].svc /\ con'[c].build = con[c].build
                       /\ con[c].st \in Standing => con'[c].st \in Standing
  BY DEF Moves
<1>4. \A c \in Slots : \A s \in Services : Carries(c, s) => Carries(c, s)'
  BY <1>2, <1>3 DEF Carries, Stands
<1>5. StandInv'
  <2>1. ASSUME NEW s \in Services, (~cold \/ Running(s) # {})'
        PROVE  \E c \in Slots : Carries(c, s)'
    <3>1. PICK c \in Slots : Carries(c, s)
      BY <1>1, <1>2, <2>1 DEF StandInv, Supplied
    <3> QED
      BY <1>4, <3>1
  <2>2. ASSUME pc \in Beside, ~cold \/ old # {}
        PROVE  \E c \in old : Carries(c, svc)'
    <3>1. PICK c \in old : Carries(c, svc)
      BY <2>2 DEF StandInv
    <3>2. Carries(c, svc)'
      BY <1>2, <1>4, <3>1
    <3> QED
      BY <3>2
  <2> QED
    BY <1>2, <2>1, <2>2 DEF StandInv, Supplied
<1>6. \A s \in Services : Current(s) => Current(s)'
  BY <1>1, <1>2, <1>3 DEF Current, Stands, Running, Of
<1>7. DoneInv'
  BY <1>2, <1>6 DEF DoneInv, Services
<1>8. HostInv'
  BY <1>2 DEF HostInv
<1> QED
  BY <1>5, <1>7, <1>8

\* Who was relieved stays so: the one that relieves goes on serving.
LEMMA MovesKeepRelief ==
  ASSUME TypeOK, KeeperInv, ReliefInv, Moves
  PROVE  KeeperInv' /\ ReliefInv'
<1>1. old \subseteq Slots /\ UNCHANGED <<pc, svc, tag, old, new>>
  BY DEF TypeOK, Moves, scriptVars
<1>2. \A c \in Slots :
        /\ con'[c].svc = con[c].svc /\ con'[c].build = con[c].build
        /\ con[c].st = "up" => con'[c].st = "up"
        /\ Leaving(c)' => Leaving(c)
        /\ con[c].st = "up" /\ c \in routed => c \in routed'
  BY DEF Moves, Leaving
<1>3. \A c \in Slots : Serves(c) => \/ Serves(c)'
                                    \/ \A d \in Slots : con[d].st = "up" => d \in routed
  BY DEF Moves, UpToDate, Passes
<1>4. KeeperInv'
  <2> SUFFICES ASSUME pc \in Draining PROVE KeeperInv'
    BY <1>1 DEF KeeperInv
  <2>1. PICK k \in Slots \ old :
          /\ con[k].svc = svc /\ con[k].st = "up" /\ con[k].build = tag
          /\ k \in routed \/ \E e \in old : con[e].build = tag /\ Serves(e)
    BY DEF KeeperInv
  <2>2. con'[k].svc = svc /\ con'[k].st = "up" /\ con'[k].build = tag
    BY <1>2, <2>1
  <2>3. k \in routed' \/ \E e \in old : con'[e].build = tag /\ Serves(e)'
    BY <1>1, <1>2, <1>3, <2>1
  <2> QED
    BY <1>1, <2>1, <2>2, <2>3 DEF KeeperInv
<1>5. ASSUME NEW S \in SUBSET Slots, Relieved(S),
             NEW c \in S, Leaving(c)'
      PROVE  \E d \in S : /\ con'[d].st = "up"
                          /\ \/ d \in routed'
                             \/ \E e \in S : e # d /\ con'[e].build = con'[d].build /\ Serves(e)'
  <2>1. PICK d \in S : /\ con[d].st = "up"
                       /\ \/ d \in routed
                          \/ \E e \in S : e # d /\ con[e].build = con[d].build /\ Serves(e)
    BY <1>2, <1>5 DEF Relieved
  <2>2. con'[d].st = "up"
    BY <1>2, <2>1
  <2>3. d \in routed' \/ \E e \in S : e # d /\ con'[e].build = con'[d].build /\ Serves(e)'
    BY <1>2, <1>3, <2>1
  <2> QED
    BY <2>2, <2>3
<1>6. \A s \in Services : Of(s)' = Of(s) /\ Of(s) \in SUBSET Slots
  BY <1>2 DEF Of
<1>7. \A s \in Services : Relieved(Of(s))'
  <2> TAKE s \in Services
  <2>1. Of(s) \in SUBSET Slots /\ Relieved(Of(s)) /\ Of(s)' = Of(s)
    BY <1>6 DEF ReliefInv, AllRelieved
  <2> QED
    BY <1>5, <2>1 DEF Relieved
<1>8. pc \in Beside => Relieved(old)'
  BY <1>1, <1>5 DEF ReliefInv, Relieved
<1>9. ReliefInv'
  BY <1>1, <1>7, <1>8 DEF ReliefInv, AllRelieved
<1> QED
  BY <1>4, <1>9

-----------------------------------------------------------------------------
(* What the script does *)

\* The invariants but for the types and the schema.
Shape == ScriptInv /\ StandInv /\ DoneInv /\ HostInv /\ KeeperInv /\ ReliefInv

USE DEF Goto, Rest

\* What holds of containers alone needs no more than that they stay.
LEMMA ContainersStay ==
  ASSUME TypeOK, StandInv, ReliefInv, UNCHANGED conVars, UNCHANGED cold
  PROVE  Supplied' /\ AllRelieved'
<1> USE DEF conVars
<1>1. \A s \in Services : Of(s)' = Of(s) /\ Running(s)' = Running(s)
  BY DEF Of, Running
<1>2. Supplied'
  BY <1>1 DEF StandInv, Supplied, Carries, Stands
<1>3. AllRelieved'
  BY <1>1 DEF ReliefInv, AllRelieved, Relieved, Leaving, Serves
<1> QED
  BY <1>2, <1>3

\* Containers that are dropped leave the others as they were.
LEMMA DropLeaves ==
  ASSUME TypeOK, NEW cs, Drop(cs), UNCHANGED cold
  PROVE  /\ \A c \in Slots : IF c \in cs THEN con'[c] = Free ELSE con'[c] = con[c]
         /\ \A s \in Services : Of(s)' = Of(s) \ cs /\ Running(s)' = Running(s) \ cs
         /\ \A s \in Services : \A c \in Slots \ cs : Carries(c, s) => Carries(c, s)'
         /\ \A c \in Slots \ cs : (Serves(c) <=> Serves(c)') /\ (Leaving(c) <=> Leaving(c)')
         /\ \A c \in cs \cap Slots : ~Serves(c)' /\ ~Leaving(c)'
         /\ UNCHANGED <<routed, applied>>
<1>1. \A c \in Slots : IF c \in cs THEN con'[c] = Free ELSE con'[c] = con[c]
  BY DEF TypeOK, Drop
<1>2. UNCHANGED <<routed, applied>>
  BY DEF Drop
<1>3. \A s \in Services : Of(s)' = Of(s) \ cs /\ Running(s)' = Running(s) \ cs
  BY <1>1 DEF Of, Running, Services, Free
<1>4. \A s \in Services : \A c \in Slots \ cs : Carries(c, s) => Carries(c, s)'
  BY <1>1, <1>2 DEF Carries, Stands
<1>5. \A c \in Slots \ cs : (Serves(c) <=> Serves(c)') /\ (Leaving(c) <=> Leaving(c)')
  BY <1>1 DEF Serves, Leaving
<1>6. \A c \in cs \cap Slots : ~Serves(c)' /\ ~Leaving(c)'
  BY <1>1 DEF Serves, Leaving, Free
<1> QED
  BY <1>1, <1>2, <1>3, <1>4, <1>5, <1>6

\* A service is left behind when all that runs of it is of the build.
LEMMA ServiceDone ==
  ASSUME TypeOK, NextService, old' = {}, new' = 0, UNCHANGED <<tag, hostVars, cold, applied>>,
         Supplied', AllRelieved', HostInv,
         \A s \in Services : s = svc \/ svc = "web" => Current(s)',
         ~cold => Files(tag) \subseteq applied
  PROVE  Shape'
<1> USE DEF hostVars
<1>1. \/ svc = "api" /\ svc' = "web" /\ pc' = "stale"
      \/ svc = "web" /\ svc' = "web" /\ pc' = "worker"
  BY DEF NextService, TypeOK, Services
<1>2. ScriptInv'
  BY <1>1 DEF ScriptInv, RestInv, OldInv, NewInv, Beside, Draining
<1>3. StandInv' /\ ReliefInv' /\ KeeperInv'
  BY <1>1 DEF StandInv, ReliefInv, KeeperInv, Beside, Draining
<1>4. DoneInv'
  BY <1>1 DEF DoneInv, Services
<1>5. HostInv'
  BY DEF HostInv
<1> QED
  BY <1>2, <1>3, <1>4, <1>5 DEF Shape

\* The script gives up, or is cut off.
LEMMA BackToIdle ==
  ASSUME pc' = "idle", old' = {}, new' = 0, Supplied', AllRelieved', HostInv'
  PROVE  Shape'
BY DEF Shape, ScriptInv, RestInv, OldInv, NewInv, StandInv, ReliefInv, KeeperInv, DoneInv,
   Beside, Draining

\* A deploy begins with empty lists and changes nothing that runs.
LEMMA DeployKeeps ==
  ASSUME TypeOK, Shape, NEW b \in Builds, Deploy(b) PROVE Shape'
<1>1. Supplied' /\ AllRelieved'
  BY ContainersStay DEF Deploy, Shape
<1>2. HostInv'
  BY DEF Deploy, Shape, HostInv, conVars, hostVars
<1>3. old' = {} /\ new' = 0 /\ pc' = "stale" /\ svc' = "api"
  BY DEF Deploy, Shape, ScriptInv, RestInv
<1> QED
  BY <1>1, <1>2, <1>3 DEF Shape, ScriptInv, RestInv, OldInv, NewInv, StandInv, ReliefInv,
     KeeperInv, DoneInv, Beside, Draining

\* Those who relieve serve, and so do those who leave: the others do not matter.
LEMMA ReliefSurvives ==
  ASSUME NEW S \in SUBSET Slots, NEW T \in SUBSET S, Relieved(S),
         \A c \in S \ T : ~Serves(c),
         \A c \in T : con'[c] = con[c] /\ (c \in routed => c \in routed')
  PROVE  Relieved(T)'
BY DEF Relieved, Leaving, Serves

\* Those of a part that relieve its leavers do so in the whole.
LEMMA ReliefWidens ==
  ASSUME NEW T \in SUBSET Slots, NEW S \in SUBSET T, Relieved(S)',
         \A c \in T : Leaving(c)' => c \in S
  PROVE  Relieved(T)'
BY DEF Relieved

\* The stale removal takes exited containers only, and none of them carries a service.
LEMMA RemoveStaleKeeps ==
  ASSUME TypeOK, Shape, RemoveStale PROVE Shape'
<1> DEFINE stale == Of(svc) \ Running(svc)
<1>1. /\ Drop(stale) /\ pc = "stale" /\ pc' = "start" /\ old' = Running(svc)
      /\ UNCHANGED <<svc, tag, new, hostVars, cold>>
  BY DEF RemoveStale, counters
<1>2. svc \in Services
  BY DEF TypeOK
<1>3. \A s \in Services : Running(s)' = Running(s) /\ Of(s)' = Of(s) \ stale
  <2>1. \A s \in Services : Running(s) \cap stale = {}
    BY DEF Running, Of
  <2> HIDE DEF stale
  <2> QED
    BY <1>1, <2>1, DropLeaves
<1>4. PICK R : R = Running(svc)
  OBVIOUS
<1>5. R \subseteq Slots /\ R \cap stale = {} /\ old' = R /\ \A c \in R : con[c].svc = svc
  BY <1>1, <1>4 DEF Running, Of
<1>6. \A c \in stale : con[c].st = "exited"
  BY DEF Running
<1> HIDE DEF stale
<1>7. \A c \in Slots \ stale : con'[c] = con[c]
  BY <1>1, DropLeaves
<1>8. \A s \in Services : \A c \in Slots : Carries(c, s) => Carries(c, s)'
  <2>1. \A c \in stale : \A s \in Services : ~Carries(c, s)
    BY <1>6 DEF Carries, Stands, Standing
  <2> QED
    BY <1>1, <2>1, DropLeaves
<1>9. Supplied'
  BY <1>1, <1>3, <1>8 DEF Shape, StandInv, Supplied
<1>10. ~cold \/ R # {} => \E c \in R : Carries(c, svc)'
  <2>1. \A c \in Slots : Carries(c, svc) => c \in R /\ Carries(c, svc)'
    <3>1. \A c \in Slots : Carries(c, svc) => c \in R
      BY <1>4 DEF Carries, Stands, Standing, Running, Of
    <3>2. PICK s \in Services : s = svc /\ s = svc'
      BY <1>1, <1>2
    <3> QED
      BY <1>8, <3>1, <3>2
  <2> QED
    BY <1>2, <1>4, <2>1 DEF Shape, StandInv, Supplied
<1>11. AllRelieved'
  <2>1. ASSUME NEW s \in Services PROVE Relieved(Of(s))'
    <3>1. PICK T : T = Of(s) \ stale
      OBVIOUS
    <3>2. Of(s) \in SUBSET Slots /\ Relieved(Of(s)) /\ routed' = routed
      BY <1>1, DropLeaves DEF Of, Shape, ReliefInv, AllRelieved
    <3>3. \A c \in Of(s) \ T : ~Serves(c)
      BY <1>6, <3>1 DEF Serves
    <3>4. Relieved(T)'
      BY <1>7, <3>1, <3>2, <3>3, ReliefSurvives
    <3>5. Of(s)' = T
      BY <1>3, <3>1
    <3> QED
      BY <3>4, <3>5
  <2> QED
    BY <2>1 DEF AllRelieved
<1>12. Relieved(R)'
  <2>1. Of(svc) \in SUBSET Slots /\ Relieved(Of(svc)) /\ routed' = routed
    BY <1>1, <1>2, DropLeaves DEF Of, Shape, ReliefInv, AllRelieved
  <2>2. R \in SUBSET Of(svc) /\ \A c \in Of(svc) \ R : ~Serves(c)
    BY <1>4 DEF Running, Serves
  <2> QED
    BY <1>5, <1>7, <2>1, <2>2, ReliefSurvives
<1>13. ScriptInv'
  <2>1. RestInv' /\ NewInv'
    BY <1>1 DEF RestInv, NewInv
  <2>2. Running(svc)' = R
    <3>1. PICK s \in Services : s = svc /\ s = svc'
      BY <1>1, <1>2
    <3> QED
      BY <1>3, <1>4, <3>1
  <2>3. \A c \in R : con'[c].svc = svc'
    BY <1>1, <1>5, <1>7
  <2> QED
    BY <1>1, <1>5, <2>1, <2>2, <2>3 DEF ScriptInv, OldInv, Beside, Draining
<1>14. DoneInv'
  <2>1. ASSUME Current("api") PROVE Current("api")'
    <3>1. Running("api")' = Running("api")
      BY <1>3 DEF Services
    <3>2. \A c \in Running("api") : con'[c] = con[c]
      BY <1>6, <1>7 DEF Running, Of
    <3>3. PICK c \in Slots : Stands(c, "api") /\ con[c].build = tag
      BY <2>1 DEF Current
    <3>4. Stands(c, "api")' /\ con'[c].build = tag
      BY <1>6, <1>7, <3>3 DEF Stands, Standing
    <3> QED
      BY <1>1, <2>1, <3>1, <3>2, <3>4 DEF Current
  <2>2. applied' = applied
    BY <1>1, DropLeaves
  <2> QED
    BY <1>1, <2>1, <2>2 DEF Shape, DoneInv
<1>15. HostInv'
  BY <1>1, DropLeaves DEF Shape, HostInv, hostVars
<1>16. KeeperInv'
  BY <1>1 DEF KeeperInv, Draining
<1>17. StandInv'
  BY <1>1, <1>5, <1>9, <1>10 DEF StandInv
<1>18. ReliefInv'
  BY <1>5, <1>11, <1>12 DEF ReliefInv
<1> QED
  BY <1>13, <1>14, <1>15, <1>16, <1>17, <1>18 DEF Shape

\* A service that runs the tag's build is done without a container of its own.
LEMMA AlreadyCurrentKeeps ==
  ASSUME TypeOK, Shape, AlreadyCurrent PROVE Shape'
<1>1. /\ pc = "start" /\ old # {} /\ \A c \in old : con[c].build = tag
      /\ NextService /\ old' = {} /\ new' = 0 /\ UNCHANGED <<tag, hostVars, cold, conVars>>
  BY DEF AlreadyCurrent, counters
<1>2. Supplied' /\ AllRelieved'
  BY <1>1, ContainersStay DEF Shape
<1>3. Running(svc) \subseteq old /\ old \subseteq Slots
  BY <1>1 DEF Shape, ScriptInv, OldInv, Beside, TypeOK
<1>4. PICK c \in old : Carries(c, svc)
  BY <1>1 DEF Shape, StandInv, Beside
<1>5. Current(svc)
  BY <1>1, <1>3, <1>4 DEF Current, Carries
<1>6. svc \in Services /\ (svc = "web" => Current("api") /\ (~cold => Files(tag) \subseteq applied))
  BY <1>1 DEF Shape, DoneInv, TypeOK
<1>7. ~cold => Files(tag) \subseteq applied
  BY <1>1, <1>4, <1>6 DEF Carries, Services
<1>8. \A s \in Services : s = svc \/ svc = "web" => Current(s)
  BY <1>5, <1>6 DEF Services
<1>9. \A s \in Services : Current(s) => Current(s)'
  BY <1>1 DEF Current, Stands, Running, Of, conVars
<1>10. \A s \in Services : s = svc \/ svc = "web" => Current(s)'
  BY <1>8, <1>9
<1> QED
  BY <1>1, <1>2, <1>7, <1>10, ServiceDone DEF Shape, conVars

\* compose up --scale: one container more, beside the old ones.
LEMMA StartNewKeeps ==
  ASSUME TypeOK, Shape, StartNew PROVE Shape'
<1>1. PICK n \in Slots : con[n] = Free /\ con' = [con EXCEPT ![n] = Fresh(svc, tag)]
                    /\ new' = n /\ routed' = routed \ {n}
  BY DEF StartNew
<1>2. /\ pc = "start" /\ pc' = "healthy"
      /\ UNCHANGED <<applied, old, svc, tag, hostVars, cold>>
  BY DEF StartNew, counters
<1>3. svc \in Services /\ old \subseteq Slots
  BY DEF TypeOK
<1>4. con'[n].svc = svc /\ con'[n].build = tag /\ con'[n].st \in {"lock", "boot"}
  BY <1>1 DEF TypeOK, Fresh
<1>5. \A c \in Slots \ {n} : con'[c] = con[c]
  BY <1>1
<1>6. con[n].svc = "none"
  BY <1>1 DEF Free
<1>7. /\ \A c \in old : con[c].svc = svc
      /\ Running(svc) \subseteq old
      /\ n \notin old
  BY <1>2, <1>3, <1>6 DEF Shape, ScriptInv, OldInv, Beside, Services
<1>8. \A s \in Services : /\ Of(s)' = (IF s = svc THEN Of(s) \cup {n} ELSE Of(s))
                          /\ Running(s)' = (IF s = svc THEN Running(s) \cup {n} ELSE Running(s))
                          /\ n \notin Of(s)
  BY <1>4, <1>5, <1>6 DEF Of, Running, Services
<1>9. \A s \in Services : \A c \in Slots : Carries(c, s) => Carries(c, s)'
  BY <1>2, <1>5, <1>6 DEF Carries, Stands, Services
<1>10. cold => Carries(n, svc)'
  BY <1>2, <1>4 DEF Carries, Stands, Standing
<1>11. PICK w \in Services : w = svc /\ w = svc'
  BY <1>2, <1>3
<1>12. Supplied'
  BY <1>2, <1>8, <1>9, <1>10, <1>11 DEF Shape, StandInv, Supplied
<1>13. StandInv'
  <2>1. ~cold \/ old # {} => \E c \in old : Carries(c, w)'
    BY <1>2, <1>3, <1>9, <1>11 DEF Shape, StandInv, Beside
  <2> QED
    BY <1>2, <1>11, <1>12, <2>1 DEF StandInv
<1>14. ScriptInv'
  <2>1. RestInv'
    BY <1>2 DEF RestInv
  <2>2. NewInv'
    BY <1>1, <1>2, <1>4, <1>7 DEF NewInv, Stands, Standing
  <2>3. Running(svc)' = Running(svc) \cup {n}
    BY <1>8, <1>11
  <2>4. \A c \in old : con'[c].svc = svc'
    BY <1>2, <1>3, <1>5, <1>7
  <2>5. OldInv'
    BY <1>1, <1>2, <1>7, <2>3, <2>4 DEF OldInv, Draining
  <2> QED
    BY <2>1, <2>2, <2>5 DEF ScriptInv
<1>15. DoneInv'
  <2>1. ASSUME svc = "web", Current("api") PROVE Current("api")'
    <3>1. Running("api")' = Running("api") /\ n \notin Running("api")
      BY <1>8, <2>1 DEF Services, Running
    <3>2. PICK c \in Slots : Stands(c, "api") /\ con[c].build = tag
      BY <2>1 DEF Current
    <3>3. Stands(c, "api")' /\ con'[c].build = tag
      BY <1>5, <1>6, <3>2 DEF Stands
    <3>4. \A d \in Running("api") : con'[d] = con[d]
      BY <1>5, <3>1 DEF Running, Of
    <3> QED
      BY <1>2, <2>1, <3>1, <3>3, <3>4 DEF Current
  <2> QED
    BY <1>2, <2>1 DEF Shape, DoneInv
<1>16. HostInv' /\ KeeperInv'
  BY <1>2 DEF Shape, HostInv, hostVars, KeeperInv, Draining
<1>17. Relieved(old)'
  <2>1. Relieved(old) /\ \A c \in old : con'[c] = con[c] /\ (c \in routed => c \in routed')
    BY <1>1, <1>2, <1>3, <1>5, <1>7 DEF Shape, ReliefInv, Beside
  <2>2. PICK O : O = old /\ O \in SUBSET Slots
    BY <1>3
  <2>3. Relieved(O)'
    BY <1>2, <2>1, <2>2, ReliefSurvives
  <2> QED
    BY <1>2, <2>2, <2>3
<1>18. AllRelieved'
  <2>1. ASSUME NEW s \in Services PROVE Relieved(Of(s))'
    <3>1. PICK S : S = Of(s) /\ S \in SUBSET Slots
      BY DEF Of
    <3>2. Relieved(S)'
      <4>1. Relieved(S) /\ \A c \in S : con'[c] = con[c] /\ (c \in routed => c \in routed')
        BY <1>1, <1>5, <1>8, <3>1 DEF Shape, ReliefInv, AllRelieved
      <4> QED
        BY <3>1, <4>1, ReliefSurvives
    <3>3. PICK T : T = Of(s)'
      OBVIOUS
    <3>4. T \in SUBSET Slots /\ S \in SUBSET T /\ T \subseteq S \cup {n}
      BY <1>8, <3>1, <3>3
    <3>5. ~Leaving(n)'
      BY <1>4 DEF Leaving
    <3>6. Relieved(T)'
      BY <3>2, <3>4, <3>5, ReliefWidens
    <3> QED
      BY <3>3, <3>6
  <2> QED
    BY <2>1 DEF AllRelieved
<1>19. ReliefInv'
  BY <1>17, <1>18 DEF ReliefInv
<1> QED
  BY <1>13, <1>14, <1>15, <1>16, <1>19 DEF Shape

\* Only a healthy container goes on to the probe, so its schema is there.
LEMMA WaitHealthyKeeps ==
  ASSUME TypeOK, Shape, WaitHealthy PROVE Shape'
<1>1. /\ pc = "healthy" /\ Healthy(new) /\ pc' \in {"routed", "switch"}
      /\ UNCHANGED <<conVars, svc, tag, old, new, hostVars, cold>>
  BY DEF WaitHealthy, counters
<1>2. Supplied' /\ AllRelieved'
  BY <1>1, ContainersStay DEF Shape
<1>3. con[new].st = "up"
  BY <1>1 DEF Shape, ScriptInv, NewInv, Stands, Standing, Healthy
<1>4. ScriptInv'
  <2>1. RestInv'
    BY <1>1 DEF RestInv
  <2>2. NewInv'
    BY <1>1, <1>3 DEF Shape, ScriptInv, NewInv, Stands, conVars
  <2>3. Running(svc)' = Running(svc)
    BY <1>1 DEF Running, Of, conVars
  <2>4. OldInv'
    BY <1>1, <2>3 DEF Shape, ScriptInv, OldInv, Beside, Draining, conVars
  <2> QED
    BY <2>1, <2>2, <2>4 DEF ScriptInv
<1>5. StandInv'
  <2>1. ~cold \/ old # {} => \E c \in old : Carries(c, svc)
    BY <1>1 DEF Shape, StandInv, Beside
  <2>2. \A c \in old : Carries(c, svc) => Carries(c, svc)'
    BY <1>1 DEF Carries, Stands, conVars
  <2> QED
    BY <1>1, <1>2, <2>1, <2>2 DEF StandInv
<1>6. DoneInv'
  <2>1. Current("api") => Current("api")'
    BY <1>1 DEF Current, Stands, Running, Of, conVars
  <2> QED
    BY <1>1, <2>1 DEF Shape, DoneInv, conVars
<1>7. HostInv' /\ KeeperInv'
  BY <1>1 DEF Shape, HostInv, hostVars, KeeperInv, Draining, conVars
<1>8. ReliefInv'
  <2>1. Relieved(old) => Relieved(old)'
    BY <1>1 DEF Relieved, Leaving, Serves, conVars
  <2> QED
    BY <1>1, <1>2, <2>1 DEF Shape, ReliefInv, Beside
<1> QED
  BY <1>4, <1>5, <1>6, <1>7, <1>8 DEF Shape

\* A wait that fails changes no container.
LEMMA GiveUpKeeps ==
  ASSUME TypeOK, Shape, GiveUp PROVE Shape'
<1>1. /\ pc \in {"healthy", "routed"}
      /\ IF old = {} THEN pc' = "idle" /\ new' = 0 ELSE pc' = "abort" /\ new' = new
      /\ UNCHANGED <<conVars, svc, tag, old, hostVars, cold>>
  BY DEF GiveUp, WaitFails, counters
<1>2. Supplied' /\ AllRelieved'
  BY <1>1, ContainersStay DEF Shape
<1>3. HostInv' /\ KeeperInv'
  BY <1>1 DEF Shape, HostInv, hostVars, KeeperInv, Draining, conVars
<1>4. CASE old = {}
  BY <1>1, <1>2, <1>3, <1>4, BackToIdle
<1>5. CASE old # {}
  <2>1. ScriptInv'
    <3>1. RestInv'
      BY <1>1, <1>5 DEF RestInv
    <3>2. NewInv'
      BY <1>1, <1>5 DEF Shape, ScriptInv, NewInv, Stands, conVars
    <3>3. Running(svc)' = Running(svc)
      BY <1>1 DEF Running, Of, conVars
    <3>4. OldInv'
      BY <1>1, <1>5, <3>3 DEF Shape, ScriptInv, OldInv, Beside, Draining, conVars
    <3> QED
      BY <3>1, <3>2, <3>4 DEF ScriptInv
  <2>2. StandInv'
    <3>1. ~cold \/ old # {} => \E c \in old : Carries(c, svc)
      BY <1>1 DEF Shape, StandInv, Beside
    <3>2. \A c \in old : Carries(c, svc) => Carries(c, svc)'
      BY <1>1 DEF Carries, Stands, conVars
    <3> QED
      BY <1>1, <1>2, <3>1, <3>2 DEF StandInv
  <2>3. DoneInv'
    <3>1. Current("api") => Current("api")'
      BY <1>1 DEF Current, Stands, Running, Of, conVars
    <3> QED
      BY <1>1, <1>5, <3>1 DEF Shape, DoneInv, conVars
  <2>4. ReliefInv'
    <3>1. Relieved(old) => Relieved(old)'
      BY <1>1 DEF Relieved, Leaving, Serves, conVars
    <3> QED
      BY <1>1, <1>2, <3>1 DEF Shape, ReliefInv, Beside
  <2> QED
    BY <1>3, <2>1, <2>2, <2>3, <2>4 DEF Shape
<1> QED
  BY <1>4, <1>5

\* abort_new removes the new container, and the old ones were never touched.
LEMMA AbortNewKeeps ==
  ASSUME TypeOK, Shape, AbortNew PROVE Shape'
<1>1. /\ pc = "abort" /\ pc' = "idle" /\ old' = {} /\ new' = 0 /\ Drop({new})
      /\ UNCHANGED <<svc, tag, hostVars, cold>>
  BY DEF AbortNew, counters
<1>2. HostInv'
  BY <1>1 DEF Shape, HostInv, hostVars, Drop
<1>3. /\ old # {} /\ new \in Slots \ old /\ Stands(new, svc)
      /\ \A c \in old : con[c].svc = svc
      /\ \A c \in Running(svc) : c \in old \/ c = new
      /\ old \subseteq Slots /\ svc \in Services
  BY <1>1 DEF Shape, ScriptInv, OldInv, NewInv, Beside, TypeOK
<1>4. /\ \A c \in Slots \ {new} : con'[c] = con[c]
      /\ \A s \in Services : Of(s)' = Of(s) \ {new} /\ Running(s)' = Running(s) \ {new}
      /\ \A s \in Services : \A c \in Slots \ {new} : Carries(c, s) => Carries(c, s)'
      /\ routed' = routed
  BY <1>1, DropLeaves
<1>5. \A s \in Services \ {svc} : new \notin Of(s)
  BY <1>3 DEF Of, Stands
<1>6. Supplied'
  <2>1. PICK d \in old : Carries(d, svc)
    BY <1>1, <1>3 DEF Shape, StandInv, Beside
  <2>2. Carries(d, svc) /\ d \in Slots \ {new}
    BY <1>3, <2>1
  <2>3. ASSUME NEW s \in Services, s # svc, (~cold \/ Running(s) # {})'
        PROVE  \E c \in Slots : Carries(c, s)'
    <3>1. PICK c \in Slots : Carries(c, s)
      BY <1>1, <1>4, <2>3 DEF Shape, StandInv, Supplied
    <3>2. c # new
      BY <1>5, <2>3, <3>1 DEF Carries, Stands, Of
    <3> QED
      BY <1>4, <3>1, <3>2
  <2>4. \A s \in Services : s = svc => \E c \in Slots : Carries(c, s)'
    BY <1>3, <1>4, <2>2
  <2> QED
    BY <2>3, <2>4 DEF Supplied
<1>7. AllRelieved'
  <2>1. ASSUME NEW s \in Services PROVE Relieved(Of(s))'
    <3>1. PICK T : T = Of(s) \ {new}
      OBVIOUS
    <3>2. PICK S : S = IF s = svc THEN old ELSE Of(s)
      OBVIOUS
    <3>3. S \in SUBSET Slots /\ S \subseteq T
      BY <1>3, <1>5, <3>1, <3>2 DEF Of
    <3>4. Relieved(S)
      BY <1>1, <3>2 DEF Shape, ReliefInv, AllRelieved, Beside
    <3>5. \A c \in S : con'[c] = con[c]
      BY <1>4, <3>1, <3>3
    <3>6. Relieved(S)'
      BY <1>4, <3>3, <3>4, <3>5, ReliefSurvives
    <3>7. \A c \in T : Leaving(c)' => c \in S
      <4>1. CASE s = svc
        <5>1. \A c \in T : Leaving(c)' => c \in Running(svc)
          BY <1>4, <3>1, <4>1 DEF Leaving, Running, Of
        <5> QED
          BY <1>3, <3>1, <3>2, <4>1, <5>1
      <4>2. CASE s # svc
        BY <1>5, <3>1, <3>2, <4>2
      <4> QED
        BY <4>1, <4>2
    <3>8. Relieved(T)'
      <4>1. T \in SUBSET Slots /\ S \in SUBSET T
        BY <3>1, <3>3 DEF Of
      <4> QED
        BY <3>6, <3>7, <4>1, ReliefWidens
    <3> QED
      BY <1>4, <3>1, <3>8
  <2> QED
    BY <2>1 DEF AllRelieved
<1> QED
  BY <1>1, <1>2, <1>6, <1>7, BackToIdle

\* The probe was answered by the new container or by an old one of its build.
LEMMA RoutedKeeps ==
  ASSUME TypeOK, ServedSchema, Shape, Routed PROVE Shape'
<1>1. /\ pc \in {"routed", "switched"} /\ Probed
      /\ UNCHANGED <<conVars, tag, hostVars, cold>>
  BY DEF Routed, counters
<1>2. /\ new \in Slots \ old /\ con[new].svc = svc /\ con[new].build = tag /\ con[new].st = "up"
      /\ Stands(new, svc) /\ svc \in Services
  BY <1>1 DEF Shape, ScriptInv, NewInv, Stands, TypeOK
<1>3. Supplied' /\ AllRelieved'
  BY <1>1, ContainersStay DEF Shape
<1>4. CASE (pc = "switched" \/ old = {}) /\ NextService /\ old' = {} /\ new' = 0
  <2>1. Running(svc) \subseteq {new}
    BY <1>1, <1>4 DEF Shape, ScriptInv, OldInv, Beside
  <2>2. Current(svc)
    BY <1>2, <2>1 DEF Current
  <2>3. svc = "web" => Current("api") /\ (~cold => Files(tag) \subseteq applied)
    BY <1>1 DEF Shape, DoneInv
  <2>4. ~cold => Files(tag) \subseteq applied
    BY <1>2, <2>3 DEF ServedSchema, Of, Services
  <2>5. \A s \in Services : s = svc \/ svc = "web" => Current(s)
    BY <2>2, <2>3 DEF Services
  <2>6. \A s \in Services : Current(s) => Current(s)'
    BY <1>1 DEF Current, Stands, Running, Of, conVars
  <2>7. \A s \in Services : s = svc \/ svc = "web" => Current(s)'
    BY <2>5, <2>6
  <2> QED
    BY <1>1, <1>3, <1>4, <2>4, <2>7, ServiceDone DEF Shape, conVars
<1>5. CASE /\ pc = "routed" /\ pc' = "drain" /\ UNCHANGED <<svc, old, new>>
  <2>1. /\ \A c \in old : con[c].svc = svc
        /\ \A c \in Running(svc) : c \in old \/ c = new
    BY <1>5 DEF Shape, ScriptInv, OldInv, Beside
  <2>2. ScriptInv'
    <3>1. RestInv' /\ NewInv'
      BY <1>5 DEF RestInv, NewInv
    <3>2. Running(svc)' = Running(svc)
      BY <1>1, <1>5 DEF Running, Of, conVars
    <3>3. OldInv'
      BY <1>1, <1>2, <1>5, <2>1, <3>2 DEF OldInv, Beside, conVars
    <3> QED
      BY <3>1, <3>3 DEF ScriptInv
  <2>3. StandInv' /\ ReliefInv'
    BY <1>3, <1>5 DEF StandInv, ReliefInv, Beside
  <2>4. KeeperInv'
    <3>1. PICK r \in routed \cap Of(svc) : Serves(r) /\ con[r].build = tag
      BY <1>1 DEF Probed
    <3>2. r \in Running(svc)
      BY <3>1 DEF Running, Serves
    <3>3. new \in routed \/ (r \in old /\ con[r].build = tag /\ Serves(r))
      BY <2>1, <3>1, <3>2
    <3>4. \A c \in Slots : Serves(c) => Serves(c)'
      BY <1>1 DEF Serves, conVars
    <3> QED
      BY <1>1, <1>2, <1>5, <3>1, <3>3, <3>4 DEF KeeperInv, conVars, Of
  <2>5. DoneInv'
    <3>1. Current("api") => Current("api")'
      BY <1>1 DEF Current, Stands, Running, Of, conVars
    <3> QED
      BY <1>1, <1>5, <3>1 DEF Shape, DoneInv, conVars
  <2>6. HostInv'
    BY <1>1 DEF Shape, HostInv, hostVars, conVars
  <2> QED
    BY <2>2, <2>3, <2>4, <2>5, <2>6 DEF Shape
<1> QED
  BY <1>1, <1>4, <1>5 DEF Routed

\* The label change drops every old container at once.
LEMMA SwitchKeeps ==
  ASSUME TypeOK, ServedSchema, Shape, Switch PROVE Shape'
<1>1. /\ pc = "switch" /\ pc' = "switched" /\ Drop(old)
      /\ UNCHANGED <<svc, tag, old, new, hostVars, cold>>
  BY DEF Switch, counters
<1>2. /\ new \in Slots \ old /\ con[new].svc = svc /\ con[new].build = tag /\ con[new].st = "up"
      /\ Stands(new, svc) /\ svc \in Services
      /\ \A c \in old : con[c].svc = svc
      /\ \A c \in Running(svc) : c \in old \/ c = new
  BY <1>1 DEF Shape, ScriptInv, NewInv, OldInv, Stands, TypeOK, Beside
<1>3. /\ \A c \in Slots \ old : con'[c] = con[c]
      /\ \A s \in Services : Of(s)' = Of(s) \ old /\ Running(s)' = Running(s) \ old
      /\ \A s \in Services : \A c \in Slots \ old : Carries(c, s) => Carries(c, s)'
      /\ UNCHANGED <<routed, applied>>
  BY <1>1, DropLeaves
<1>4. \A s \in Services \ {svc} : Of(s)' = Of(s) /\ Running(s)' = Running(s) /\ Of(s) \cap old = {}
  <2>1. \A s \in Services \ {svc} : Of(s) \cap old = {}
    BY <1>2 DEF Of
  <2> QED
    BY <1>3, <2>1 DEF Running
<1>5. PICK w \in Services : w = svc /\ w = svc'
  BY <1>1, <1>2
<1>6. ScriptInv'
  <2>1. RestInv' /\ NewInv'
    BY <1>1, <1>2, <1>3 DEF RestInv, NewInv, Stands
  <2>2. Running(svc)' \subseteq {new}
    BY <1>2, <1>3, <1>5
  <2> QED
    BY <1>1, <2>1, <2>2 DEF ScriptInv, OldInv, Beside, Draining
<1>7. Supplied'
  <2>1. PICK n \in Slots \ old : n = new /\ Carries(n, w)
    BY <1>2, <1>5 DEF Carries, ServedSchema, Of
  <2>2. Carries(n, w)'
    BY <1>3, <2>1
  <2>3. ASSUME NEW s \in Services, s # w, (~cold \/ Running(s) # {})'
        PROVE  \E c \in Slots : Carries(c, s)'
    <3>1. PICK c \in Slots : Carries(c, s)
      BY <1>1, <1>4, <1>5, <2>3 DEF Shape, StandInv, Supplied
    <3>2. c \notin old
      BY <1>4, <1>5, <2>3, <3>1 DEF Carries, Stands, Of
    <3> QED
      BY <1>3, <3>1, <3>2
  <2> QED
    BY <1>2, <2>2, <2>3 DEF Supplied
<1>8. AllRelieved'
  <2>1. Relieved(Of(w))'
    <3>1. PICK T : T = Of(w)'
      OBVIOUS
    <3>2. \A c \in T : ~Leaving(c)'
      <4>1. \A c \in T : Leaving(c)' => c \in Running(w)'
        BY <3>1 DEF Running, Leaving
      <4>2. \A c \in T : Leaving(c)' => c = new
        BY <1>2, <1>3, <1>5, <4>1
      <4> QED
        BY <1>2, <1>3, <4>2 DEF Leaving
    <3>3. Relieved(T)'
      BY <3>2 DEF Relieved
    <3> QED
      BY <3>1, <3>3
  <2>2. ASSUME NEW s \in Services, s # w PROVE Relieved(Of(s))'
    <3>1. PICK S : S = Of(s) /\ S \in SUBSET Slots
      BY DEF Of
    <3>2. Relieved(S) /\ \A c \in S : con'[c] = con[c]
      BY <1>3, <1>4, <1>5, <2>2, <3>1 DEF Shape, ReliefInv, AllRelieved
    <3>3. Relieved(S)'
      BY <1>3, <3>1, <3>2, ReliefSurvives
    <3>4. Of(s)' = S
      BY <1>4, <1>5, <2>2, <3>1
    <3> QED
      BY <3>3, <3>4
  <2> QED
    BY <2>1, <2>2 DEF AllRelieved
<1>9. StandInv' /\ ReliefInv' /\ KeeperInv'
  BY <1>1, <1>7, <1>8 DEF StandInv, ReliefInv, KeeperInv, Beside, Draining
<1>10. DoneInv'
  <2>1. ASSUME svc = "web", Current("api") PROVE Current("api")'
    <3>1. Running("api")' = Running("api") /\ Of("api") \cap old = {}
      BY <1>4, <2>1 DEF Services
    <3>2. PICK c \in Slots : Stands(c, "api") /\ con[c].build = tag
      BY <2>1 DEF Current
    <3>3. \A d \in Of("api") : con'[d] = con[d]
      BY <1>3, <3>1 DEF Of
    <3>4. Stands(c, "api")' /\ con'[c].build = tag
      BY <3>2, <3>3 DEF Stands, Of
    <3> QED
      BY <1>1, <2>1, <3>1, <3>3, <3>4 DEF Current, Running
  <2> QED
    BY <1>1, <1>3, <2>1 DEF Shape, DoneInv
<1>11. HostInv'
  BY <1>1, <1>3 DEF Shape, HostInv, hostVars
<1> QED
  BY <1>6, <1>9, <1>10, <1>11 DEF Shape

\* A probe that times out after the switch leaves the new container standing.
LEMMA NeverRoutedKeeps ==
  ASSUME TypeOK, Shape, NeverRouted PROVE Shape'
<1>1. Supplied' /\ AllRelieved'
  BY ContainersStay DEF NeverRouted, Shape, counters
<1>2. HostInv'
  BY DEF NeverRouted, Shape, HostInv, hostVars, conVars, counters
<1> QED
  BY <1>1, <1>2, BackToIdle DEF NeverRouted

\* A script that is killed leaves what it started.
LEMMA InterruptKeeps ==
  ASSUME TypeOK, Shape, Interrupt PROVE Shape'
<1>1. Supplied' /\ AllRelieved'
  BY ContainersStay DEF Interrupt, Shape
<1>2. HostInv'
  BY DEF Interrupt, Shape, HostInv, hostVars, conVars
<1> QED
  BY <1>1, <1>2, BackToIdle DEF Interrupt

\* An old container on its way out: flagged, told to stop, or stopped.
LEMMA TakenDown ==
  ASSUME TypeOK, ServedSchema, Shape, pc \in Draining, pc' \in {"stop", "remove"},
         NEW c \in old, NEW st \in {"exited", "flagged", "leaving"},
         con' = [con EXCEPT ![c].st = st],
         UNCHANGED <<routed, applied, svc, tag, old, hostVars, cold>>,
         Serves(c) => Serves(c)' \/ UpToDate,
         con[c].st = "exited" => st = "exited",
         new' = c, pc' = "remove" => st = "exited"
  PROVE  Shape'
<1>1. /\ c \in Slots /\ old \subseteq Slots /\ svc \in Services /\ con[c].svc = svc
      /\ \A d \in old : con[d].svc = svc
      /\ \A d \in Running(svc) \ old : con[d].build = tag
  BY DEF TypeOK, Shape, ScriptInv, OldInv, Draining
<1>2. /\ \A d \in Slots \ {c} : con'[d] = con[d]
      /\ con'[c].svc = svc /\ con'[c].build = con[c].build /\ con'[c].st = st
  BY <1>1 DEF TypeOK
<1>3. PICK k \in Slots \ old :
        /\ con[k].svc = svc /\ con[k].st = "up" /\ con[k].build = tag
        /\ k \in routed \/ \E e \in old : con[e].build = tag /\ Serves(e)
  BY DEF Shape, KeeperInv
<1>4. con'[k] = con[k]
  BY <1>2, <1>3
<1>5. k \in routed \/ \E e \in old : con'[e].build = tag /\ Serves(e)'
  <2>1. CASE k \in routed
    BY <2>1
  <2>2. CASE UpToDate
    BY <1>3, <2>2 DEF UpToDate, Passes
  <2>3. ASSUME NEW e \in old, con[e].build = tag, Serves(e), ~UpToDate
        PROVE  con'[e].build = tag /\ Serves(e)'
    <3>1. CASE e = c
      BY <1>2, <2>3, <3>1
    <3>2. CASE e # c
      BY <1>1, <1>2, <2>3, <3>2 DEF Serves
    <3> QED
      BY <3>1, <3>2
  <2> QED
    BY <1>3, <2>1, <2>2, <2>3
<1>6. KeeperInv'
  BY <1>3, <1>4, <1>5 DEF KeeperInv
<1>7. \A s \in Services : Of(s)' = Of(s) /\ Running(s)' \subseteq Running(s)
  BY <1>1, <1>2 DEF Of, Running
<1>8. PICK w \in Services : w = svc /\ w = svc'
  BY <1>1
<1>9. ScriptInv'
  <2>1. RestInv' /\ NewInv'
    BY <1>2, <1>8 DEF RestInv, NewInv
  <2>2. Running(svc)' \subseteq Running(svc)
    BY <1>7, <1>8
  <2>3. \A d \in old : con'[d].svc = svc
    BY <1>1, <1>2
  <2>4. \A d \in Running(svc)' \ old : con'[d].build = tag
    <3>1. PICK R : R = Running(svc)'
      OBVIOUS
    <3>2. \A d \in R \ old : d \in Slots \ {c} /\ con[d].build = tag
      BY <1>1, <2>2, <3>1 DEF Running, Of
    <3>3. \A d \in R \ old : con'[d].build = tag
      BY <1>2, <3>2
    <3> QED
      BY <3>1, <3>3
  <2>5. OldInv'
    BY <2>3, <2>4 DEF OldInv, Beside
  <2> QED
    BY <2>1, <2>5 DEF ScriptInv
<1>10. Supplied'
  <2>1. Carries(k, w)'
    BY <1>3, <1>4, <1>8 DEF Carries, Stands, Standing, ServedSchema, Of
  <2>2. ASSUME NEW s \in Services, s # w, (~cold \/ Running(s) # {})'
        PROVE  \E d \in Slots : Carries(d, s)'
    <3>1. PICK d \in Slots : Carries(d, s)
      BY <1>7, <2>2 DEF Shape, StandInv, Supplied
    <3>2. d # c
      BY <1>1, <1>8, <2>2, <3>1 DEF Carries, Stands
    <3> QED
      BY <1>2, <3>1, <3>2 DEF Carries, Stands
  <2> QED
    BY <1>3, <2>1, <2>2 DEF Supplied
<1>11. AllRelieved'
  <2>1. Relieved(Of(w))'
    <3>1. PICK T : T = Of(w)'
      OBVIOUS
    <3>2. k \in T /\ old \subseteq T
      BY <1>1, <1>3, <1>7, <1>8, <3>1 DEF Of
    <3>3. Relieved(T)'
      BY <1>3, <1>4, <1>5, <3>2 DEF Relieved
    <3> QED
      BY <3>1, <3>3
  <2>2. ASSUME NEW s \in Services, s # w PROVE Relieved(Of(s))'
    <3>1. PICK S : S = Of(s) /\ S \in SUBSET Slots
      BY DEF Of
    <3>2. Relieved(S) /\ \A d \in S : con'[d] = con[d]
      BY <1>1, <1>2, <1>8, <2>2, <3>1 DEF Shape, ReliefInv, AllRelieved, Of
    <3>3. Relieved(S)'
      BY <3>1, <3>2, ReliefSurvives
    <3> QED
      BY <1>7, <3>1, <3>3
  <2> QED
    BY <2>1, <2>2 DEF AllRelieved
<1>12. StandInv' /\ ReliefInv'
  BY <1>10, <1>11 DEF StandInv, ReliefInv, Beside
<1>13. DoneInv'
  <2>1. ASSUME svc = "web", Current("api") PROVE Current("api")'
    <3>1. \A d \in Of("api") : con'[d] = con[d]
      BY <1>1, <1>2, <2>1 DEF Of
    <3>2. PICK d \in Slots : Stands(d, "api") /\ con[d].build = tag
      BY <2>1 DEF Current
    <3>3. Stands(d, "api")' /\ con'[d].build = tag
      BY <3>1, <3>2 DEF Stands, Of
    <3>4. Running("api")' \subseteq Running("api")
      BY <1>7 DEF Services
    <3>5. \A e \in Running("api") : con'[e].build = tag
      BY <2>1, <3>1 DEF Current, Running
    <3> QED
      BY <3>3, <3>4, <3>5 DEF Current
  <2> QED
    BY <2>1 DEF Shape, DoneInv, Draining
<1>14. HostInv'
  BY DEF Shape, HostInv, hostVars
<1> QED
  BY <1>6, <1>9, <1>12, <1>13, <1>14 DEF Shape

\* An old container is told to go, with the keeper beside it.
LEMMA DrainKeeps ==
  ASSUME TypeOK, ServedSchema, Shape, NEW c \in Slots, Drain(c) PROVE Shape'
<1>1. /\ pc = "drain" /\ pc' = "stop" /\ c \in old /\ new' = c
      /\ UNCHANGED <<routed, applied, svc, tag, old, hostVars, cold>>
  BY DEF Drain, counters
<1>2. PICK st \in {"exited", "flagged", "leaving"} :
        /\ con' = [con EXCEPT ![c].st = st]
        /\ st = IF ~Serves(c) THEN "exited" ELSE IF svc = "web" THEN "flagged" ELSE "leaving"
  BY DEF Drain, Become
<1>3. Serves(c) => Serves(c)'
  BY <1>2 DEF Serves, TypeOK
<1>4. con[c].st = "exited" => st = "exited"
  BY <1>2 DEF Serves
<1> QED
  BY <1>1, <1>2, <1>3, <1>4, TakenDown DEF Draining

\* The script waits until it has stopped.
LEMMA StopKeeps ==
  ASSUME TypeOK, ServedSchema, Shape, Stop PROVE Shape'
<1>1. /\ pc = "stop" /\ pc' = "remove" /\ new \in old /\ old \subseteq Slots
      /\ UNCHANGED <<routed, applied, svc, tag, old, new, hostVars, cold>>
  BY DEF Stop, counters, Shape, ScriptInv, NewInv, TypeOK
<1>2. con' = [con EXCEPT ![new].st = "exited"]
  BY <1>1 DEF Stop, Become, TypeOK
<1>3. Serves(new) => UpToDate
  BY DEF Stop, Serves
<1> QED
  BY <1>1, <1>2, <1>3, TakenDown DEF Draining

\* It is removed, and the keeper never is.
LEMMA RemoveKeeps ==
  ASSUME TypeOK, ServedSchema, Shape, Remove PROVE Shape'
<1>1. /\ pc = "remove" /\ Drop({new}) /\ old' = old \ {new} /\ new' = 0
      /\ IF old = {new} THEN NextService ELSE pc' = "drain" /\ svc' = svc
      /\ UNCHANGED <<tag, hostVars, cold>>
  BY DEF Remove, counters
<1>2. /\ new \in old /\ con[new].st = "exited" /\ con[new].svc = svc
      /\ old \subseteq Slots /\ svc \in Services
      /\ \A d \in old : con[d].svc = svc
      /\ \A d \in Running(svc) \ old : con[d].build = tag
  BY <1>1 DEF TypeOK, Shape, ScriptInv, OldInv, NewInv, Draining
<1>3. PICK k \in Slots \ old :
        /\ con[k].svc = svc /\ con[k].st = "up" /\ con[k].build = tag
        /\ k \in routed \/ \E e \in old : con[e].build = tag /\ Serves(e)
  BY <1>1 DEF Shape, KeeperInv, Draining
<1>4. ~Serves(new) /\ \A s \in Services : new \notin Running(s) /\ ~Carries(new, s)
  BY <1>2 DEF Serves, Running, Carries, Stands, Standing
<1>5. /\ \A c \in Slots \ {new} : con'[c] = con[c] /\ (Serves(c) <=> Serves(c)')
      /\ \A s \in Services : Of(s)' = Of(s) \ {new} /\ Running(s)' = Running(s)
      /\ \A s \in Services : \A c \in Slots : Carries(c, s) => Carries(c, s)'
      /\ UNCHANGED <<routed, applied>>
  BY <1>1, <1>4, DropLeaves
<1>6. con'[k] = con[k]
  BY <1>2, <1>3, <1>5
<1>7. Supplied'
  BY <1>1, <1>5 DEF Shape, StandInv, Supplied
<1>8. AllRelieved'
  <2>1. ASSUME NEW s \in Services PROVE Relieved(Of(s))'
    <3>1. PICK S : S = Of(s) /\ S \in SUBSET Slots
      BY DEF Of
    <3>2. PICK T : T = S \ {new} /\ T \in SUBSET S
      OBVIOUS
    <3>3. Relieved(S) /\ \A c \in T : con'[c] = con[c]
      BY <1>5, <3>1, <3>2 DEF Shape, ReliefInv, AllRelieved
    <3>4. Relieved(T)'
      BY <1>4, <1>5, <3>1, <3>2, <3>3, ReliefSurvives
    <3> QED
      BY <1>5, <3>1, <3>2, <3>4
  <2> QED
    BY <2>1 DEF AllRelieved
<1>9. \A s \in Services : Current(s) => Current(s)'
  <2>1. ASSUME NEW s \in Services, Current(s) PROVE Current(s)'
    <3>1. PICK c \in Slots : Stands(c, s) /\ con[c].build = tag
      BY <2>1 DEF Current
    <3>2. c # new
      BY <1>2, <3>1 DEF Stands, Standing
    <3>3. Stands(c, s)' /\ con'[c].build = tag
      BY <1>5, <3>1, <3>2 DEF Stands
    <3>4. \A d \in Running(s) : con'[d] = con[d]
      BY <1>4, <1>5 DEF Running, Of
    <3> QED
      BY <1>1, <1>5, <2>1, <3>3, <3>4 DEF Current
  <2> QED
    BY <2>1
<1>10. svc = "web" => Current("api") /\ (~cold => Files(tag) \subseteq applied)
  BY <1>1 DEF Shape, DoneInv
<1>11. CASE old = {new} /\ NextService
  <2>1. Current(svc)
    BY <1>2, <1>3, <1>4, <1>11 DEF Current, Stands, Standing
  <2>2. ~cold => Files(tag) \subseteq applied
    BY <1>2, <1>3, <1>10 DEF ServedSchema, Of, Services
  <2>3. \A s \in Services : s = svc \/ svc = "web" => Current(s)'
    BY <1>9, <1>10, <2>1 DEF Services
  <2>4. old' = {}
    BY <1>1, <1>11
  <2> QED
    BY <1>1, <1>5, <1>7, <1>8, <1>11, <2>2, <2>3, <2>4, ServiceDone DEF Shape
<1>12. CASE pc' = "drain" /\ svc' = svc
  <2>1. PICK w \in Services : w = svc /\ w = svc'
    BY <1>2, <1>12
  <2>2. ScriptInv'
    <3>1. RestInv' /\ NewInv'
      BY <1>12 DEF RestInv, NewInv
    <3>2. Running(svc)' = Running(svc) /\ \A d \in Running(svc) : con'[d] = con[d]
      <4>1. \A d \in Running(svc) : con'[d] = con[d]
        BY <1>2, <1>4, <1>5 DEF Running, Of
      <4> QED
        BY <1>5, <2>1, <4>1
    <3>3. \A d \in old' : con'[d].svc = svc'
      BY <1>1, <1>2, <1>5, <1>12
    <3>4. \A d \in Running(svc) \ old' : con'[d].build = tag
      BY <1>1, <1>2, <1>4, <3>2
    <3>5. OldInv'
      BY <1>1, <1>12, <3>2, <3>3, <3>4 DEF OldInv, Beside
    <3> QED
      BY <3>1, <3>5 DEF ScriptInv
  <2>3. KeeperInv'
    <3>1. k \in routed \/ \E e \in old' : con'[e].build = tag /\ Serves(e)'
      <4>1. ASSUME NEW e \in old, con[e].build = tag, Serves(e)
            PROVE  e \in old' /\ con'[e].build = tag /\ Serves(e)'
        BY <1>1, <1>2, <1>4, <1>5, <4>1
      <4> QED
        BY <1>3, <4>1
    <3> QED
      BY <1>1, <1>3, <1>5, <1>6, <1>12, <3>1 DEF KeeperInv
  <2>4. StandInv' /\ ReliefInv'
    BY <1>7, <1>8, <1>12 DEF StandInv, ReliefInv, Beside
  <2>5. DoneInv'
    BY <1>1, <1>5, <1>9, <1>10, <1>12 DEF DoneInv, Services
  <2>6. HostInv'
    BY <1>1, <1>5 DEF Shape, HostInv, hostVars
  <2> QED
    BY <2>2, <2>3, <2>4, <2>5, <2>6 DEF Shape
<1> QED
  BY <1>1, <1>11, <1>12

\* The worker follows when both services are done.
LEMMA HostKeeps ==
  ASSUME TypeOK, Shape, SwapWorker \/ RestartWorker \/ WorkerCrash PROVE Shape'
<1> USE DEF hostVars, counters
<1>1. UNCHANGED conVars /\ UNCHANGED <<cold, svc, tag, old, new>>
  BY DEF SwapWorker, RestartWorker, WorkerCrash, scriptVars
<1>2. Supplied' /\ AllRelieved'
  BY <1>1, ContainersStay DEF Shape
<1>3. \A s \in Services : Current(s) => Current(s)'
  BY <1>1 DEF Current, Stands, Running, Of, conVars
<1>4. CASE SwapWorker
  <2>1. pc = "worker" /\ pc' \in {"restart", "idle"} /\ binary' \in {tag, binary} /\ worker' = worker
    BY <1>4 DEF SwapWorker
  <2>2. old = {} /\ new = 0 /\ svc = "web"
    BY <2>1 DEF Shape, ScriptInv, RestInv
  <2>3. Current("api") /\ Current("web") /\ (~cold => Files(tag) \subseteq applied)
    BY <2>1, <2>2 DEF Shape, DoneInv
  <2>4. HostInv'
    BY <1>1, <2>1, <2>3 DEF Shape, HostInv, conVars
  <2>5. ScriptInv' /\ StandInv' /\ ReliefInv' /\ KeeperInv'
    BY <1>1, <1>2, <2>1, <2>2 DEF ScriptInv, RestInv, OldInv, NewInv, StandInv, ReliefInv,
       KeeperInv, Beside, Draining
  <2>6. DoneInv'
    BY <1>1, <1>3, <2>3 DEF DoneInv, Services, conVars
  <2> QED
    BY <2>4, <2>5, <2>6 DEF Shape
<1>5. CASE RestartWorker
  <2>1. pc' = "idle" /\ old = {} /\ new = 0 /\ HostInv'
    BY <1>1, <1>5 DEF RestartWorker, Shape, ScriptInv, RestInv, HostInv, conVars
  <2> QED
    BY <1>1, <1>2, <2>1, BackToIdle
<1>6. CASE WorkerCrash
  <2>1. UNCHANGED scriptVars /\ binary' = binary /\ worker' = binary
    BY <1>6 DEF WorkerCrash
  <2>2. HostInv'
    BY <1>1, <2>1 DEF Shape, HostInv, conVars
  <2>3. ScriptInv'
    BY <1>1, <2>1 DEF Shape, ScriptInv, RestInv, OldInv, NewInv, Running, Of, Stands,
       conVars, scriptVars
  <2>4. DoneInv'
    BY <1>1, <1>3, <2>1 DEF Shape, DoneInv, Services, conVars, scriptVars
  <2>5. StandInv' /\ ReliefInv' /\ KeeperInv'
    BY <1>1, <1>2, <2>1 DEF Shape, StandInv, Carries, Stands, ReliefInv, Relieved, Leaving,
       Serves, KeeperInv, conVars, scriptVars
  <2> QED
    BY <2>2, <2>3, <2>4, <2>5 DEF Shape
<1> QED
  BY <1>4, <1>5, <1>6

\* A stack that runs build 1, and one that was never started.
LEMMA RollInvInit == Init => RollInv
<1> SUFFICES ASSUME Init PROVE RollInv
  OBVIOUS
<1>1. TypeOK
  BY TypeInit
<1>2. \/ /\ \A c \in Slots : con[c] = IF c = 1 THEN [svc |-> "api", build |-> 1, st |-> "up"]
                             ELSE IF c = 2 THEN [svc |-> "web", build |-> 1, st |-> "up"]
                             ELSE Free
         /\ applied = {1} /\ binary = 1 /\ cold = FALSE
      \/ (\A c \in Slots : con[c] = Free) /\ binary = 0 /\ cold = TRUE
  BY DEF Init, Fresh
<1>3. pc = "idle" /\ old = {} /\ new = 0 /\ worker = binary /\ svc = "api"
      /\ ~collided /\ \A c \in Slots : seen[c] = {}
  BY DEF Init
<1>4. Files(1) \subseteq {1}
  <2>1. \A m \in Builds : m <= 1 => m = 1
    BY BuildsAssumption
  <2> QED
    BY <2>1 DEF Files
<1>5. MigrateInv /\ ServedSchema /\ HostInv
  BY <1>2, <1>3, <1>4 DEF MigrateInv, ServedSchema, HostInv, Of, Free
<1>6. Supplied
  <2>1. CASE (\A c \in Slots : con[c] = Free) /\ cold = TRUE
    BY <2>1 DEF Supplied, Services, Running, Of, Free
  <2>2. CASE /\ con[1] = [svc |-> "api", build |-> 1, st |-> "up"]
             /\ con[2] = [svc |-> "web", build |-> 1, st |-> "up"]
             /\ applied = {1}
    <3>1. Carries(1, "api") /\ Carries(2, "web")
      BY <1>4, <2>2 DEF Carries, Stands, Standing
    <3> QED
      BY <3>1, SlotsAssumption DEF Supplied, Services
  <2>3. 1 \in Slots /\ 2 \in Slots /\ 1 # 2
    BY SlotsAssumption
  <2> QED
    BY <1>2, <2>1, <2>2, <2>3
<1>7. AllRelieved
  BY <1>2 DEF AllRelieved, Relieved, Leaving, Of, Free
<1>8. ScriptInv /\ StandInv /\ DoneInv /\ KeeperInv /\ ReliefInv
  BY <1>3, <1>6, <1>7 DEF ScriptInv, RestInv, OldInv, NewInv, StandInv, DoneInv, KeeperInv,
     ReliefInv, Beside, Draining
<1> QED
  BY <1>1, <1>5, <1>8 DEF RollInv

\* A step that changes nothing, in the form the other lemmas take.
LEMMA ShapeStays == ASSUME TypeOK, Shape, UNCHANGED vars PROVE Shape'
<1> USE DEF vars, conVars, scriptVars, hostVars, counters
<1>1. Supplied' /\ AllRelieved'
  BY ContainersStay DEF Shape
<1>2. ScriptInv'
  BY DEF Shape, ScriptInv, RestInv, OldInv, NewInv, Running, Of, Stands
<1>3. DoneInv' /\ HostInv'
  BY DEF Shape, DoneInv, HostInv, Current, Running, Of, Stands
<1>4. StandInv' /\ ReliefInv' /\ KeeperInv'
  BY <1>1 DEF Shape, StandInv, Carries, Stands, ReliefInv, Relieved, Leaving, Serves, KeeperInv
<1> QED
  BY <1>2, <1>3, <1>4 DEF Shape

\* One step per action of the script, the containers and the host.
LEMMA RollInvStep == ASSUME RollInv, [Next]_vars PROVE RollInv'
<1>1. TypeOK /\ MigrateInv /\ ServedSchema /\ Shape
  BY DEF RollInv, Shape
<1>2. TypeOK' /\ MigrateInv' /\ ServedSchema'
  BY <1>1, TypeStep, SchemaStep DEF Shape
<1>3. ASSUME ContainerStep \/ \E c \in Slots : BootCrash(c) PROVE Shape'
  <2>1. Moves
    BY <1>1, <1>3, ContainersMove
  <2> QED
    BY <1>1, <2>1, MovesKeepScript, MovesKeepStanding, MovesKeepRelief DEF Shape
<1>4. ASSUME RollStep PROVE Shape'
  BY <1>1, <1>4, RemoveStaleKeeps, AlreadyCurrentKeeps, StartNewKeeps, WaitHealthyKeeps,
     GiveUpKeeps, AbortNewKeeps, RoutedKeeps, SwitchKeeps, NeverRoutedKeeps, DrainKeeps,
     StopKeeps, RemoveKeeps
     DEF RollStep
<1>5. ASSUME SwapWorker \/ RestartWorker \/ WorkerCrash PROVE Shape'
  BY <1>1, <1>5, HostKeeps
<1>6. ASSUME NEW b \in Builds, Deploy(b) PROVE Shape'
  BY <1>1, <1>6, DeployKeeps
<1>7. ASSUME Interrupt PROVE Shape'
  BY <1>1, <1>7, InterruptKeeps
<1>8. ASSUME UNCHANGED vars PROVE Shape'
  BY <1>1, <1>8, ShapeStays
<1>9. Shape'
  BY <1>3, <1>4, <1>5, <1>6, <1>7, <1>8 DEF Next, ScriptStep
<1> QED
  BY <1>2, <1>9 DEF RollInv, Shape

-----------------------------------------------------------------------------
(* Theorems *)

\* The invariant of the module.
LEMMA RollInvHolds == Spec => []RollInv
<1> QED
  BY RollInvInit, RollInvStep, PTL DEF Spec

\* Every variable keeps its type: the lists of rollout.sh name containers of
\* the stack, the lock is nobody's or a container's.
THEOREM RolloutTypeCorrect == Spec => []TypeOK
<1>1. RollInv => TypeOK
  BY DEF RollInv
<1> QED
  BY <1>1, RollInvHolds, PTL

\* Whoever runs code of a build finds its schema, and no boot trips over the
\* migrations of another: for any builds, overlapping boots, boot crashes,
\* aborted and interrupted deploys (migrate.ts, rollout.sh, restart.sh).
THEOREM SchemaAlwaysFits == Spec => []SchemaFits
<1>1. RollInv => SchemaFits
  BY DEF RollInv, MigrateInv, ServedSchema, HostInv, SchemaFits
<1> QED
  BY <1>1, RollInvHolds, PTL

\* A rollout that reaches the worker has replaced everything, whatever
\* earlier deploys left behind (the main loop of rollout.sh).
THEOREM DeployReplacesAll == Spec => []DeployedIsCurrent
<1>1. RollInv => DeployedIsCurrent
  <2> SUFFICES ASSUME RollInv, pc \in {"worker", "restart"}
               PROVE  \A s \in Services : Running(s) # {} /\ \A c \in Running(s) : con[c].build = tag
    BY DEF DeployedIsCurrent
  <2>1. \A s \in Services : Current(s)
    BY DEF RollInv, DoneInv, ScriptInv, RestInv, Services
  <2>2. \A s \in Services : \A c \in Slots : Stands(c, s) => c \in Running(s)
    BY DEF Stands, Standing, Running, Of
  <2> QED
    BY <2>1, <2>2 DEF Current
<1> QED
  BY <1>1, RollInvHolds, PTL

\* A routed container serves on, but for the labels' switch and a clash, and
\* for one that was given up.
LEMMA ServerStays ==
  ASSUME RollInv, Next, NEW c \in routed, Serves(c), pc # "switch", ~Clash(con[c].svc),
         ~(pc = "abort" /\ c = new)
  PROVE  /\ Serves(c)' /\ con'[c].svc = con[c].svc
         /\ con[c].st = "up" => c \in routed'
<1> DEFINE Goal == /\ Serves(c)' /\ con'[c].svc = con[c].svc
                   /\ con[c].st = "up" => c \in routed'
<1>1. c \in Slots /\ con[c].st \in {"up", "flagged", "leaving"}
  BY DEF RollInv, TypeOK, Serves
<1>2. CASE ContainerStep \/ \E d \in Slots : BootCrash(d)
  <2>1. Moves
    BY <1>2, ContainersMove DEF RollInv
  <2>2. UpToDate => con[c].st = "up"
    BY DEF UpToDate, Passes
  <2> QED
    BY <1>1, <2>1, <2>2 DEF Moves
<1>3. CASE con'[c] = con[c] /\ routed' = routed
  BY <1>3 DEF Serves
<1>4. CASE RemoveStale
  <2>1. c \notin Of(svc) \ Running(svc)
    BY <1>1 DEF Running
  <2>2. Drop(Of(svc) \ Running(svc))
    BY <1>4 DEF RemoveStale
  <2> QED
    BY <1>1, <1>3, <2>1, <2>2 DEF Drop
<1>5. CASE AbortNew
  <2>1. c # new /\ Drop({new})
    BY <1>5 DEF AbortNew
  <2> QED
    BY <1>1, <1>3, <2>1 DEF Drop
<1>6. CASE StartNew
  <2>1. PICK n \in Slots : con[n] = Free /\ con' = [con EXCEPT ![n] = Fresh(svc, tag)]
                         /\ routed' = routed \ {n}
    BY <1>6 DEF StartNew
  <2>2. c # n
    BY <1>1, <2>1 DEF Free
  <2>3. con'[c] = con[c]
    BY <1>1, <2>1, <2>2 DEF RollInv, TypeOK
  <2> QED
    BY <1>1, <2>1, <2>2, <2>3 DEF Serves
<1>7. ASSUME NEW d \in Slots, Drain(d) PROVE Goal
  <2>1. PICK st \in States : con' = [con EXCEPT ![d].st = st] /\ (Serves(d) => st \in {"flagged", "leaving"})
    BY <1>7 DEF Drain, Become, States
  <2> QED
    BY <1>1, <1>7, <2>1 DEF Drain, Serves, RollInv, TypeOK
<1>8. CASE Stop
  <2>1. UpToDate => con[c].st = "up"
    BY DEF UpToDate, Passes
  <2>2. con' = con \/ c # new
    BY <1>8, <2>1 DEF Stop
  <2> QED
    BY <1>1, <1>3, <1>8, <2>2 DEF Stop, Become, RollInv, TypeOK
<1>9. CASE Remove
  <2>1. c # new
    BY <1>1, <1>9 DEF Remove, RollInv, ScriptInv, NewInv
  <2> QED
    BY <1>1, <1>3, <1>9, <2>1 DEF Remove, Drop
<1>10. ASSUME NEW b \in Builds, Deploy(b) PROVE Goal
  BY <1>3, <1>10 DEF Deploy, conVars
<1>11. CASE AlreadyCurrent \/ WaitHealthy \/ GiveUp \/ Routed \/ NeverRouted
  BY <1>3, <1>11 DEF AlreadyCurrent, WaitHealthy, GiveUp, WaitFails, Routed, NeverRouted, conVars
<1>12. CASE SwapWorker \/ RestartWorker \/ WorkerCrash \/ Interrupt
  BY <1>3, <1>12 DEF SwapWorker, RestartWorker, WorkerCrash, Interrupt, conVars
<1>13. ~Switch
  BY DEF Switch
<1> QED
  BY <1>2, <1>4, <1>5, <1>6, <1>7, <1>8, <1>9, <1>10, <1>11, <1>12, <1>13
     DEF Next, ScriptStep, RollStep

\* Nothing is cut off: a container that Traefik sends requests to is stopped
\* or removed only by a switch of the labels, when they clash, or by abort_new
\* when it is the new one of this very rollout and came up after its deadline
\* (drain, the stale removal, docker stop after the sleep touch no other).
THEOREM NothingIsCutOff == Spec => DrainedBeforeStop
<1>1. ASSUME RollInv, [Next]_vars
      PROVE  [\A c \in routed : Serves(c) /\ ~Serves(c)' =>
                \/ pc = "switch" \/ Clash(con[c].svc)
                \/ pc = "abort" /\ c = new]_vars
  BY <1>1, ServerStays
<1> QED
  BY <1>1, RollInvHolds, PTL DEF Spec, DrainedBeforeStop

\* The promise in the header of rollout.sh, for any number of containers:
\* never below one that serves, whatever is deployed, fails or is interrupted,
\* with the documented exception of a label change, that of twins, and that of
\* a given-up container which has become the only one that serves.
THEOREM AlwaysOneServes == Spec => NeverBelowOne
<1>1. ASSUME RollInv, Next, NEW s \in Services, Answers(s), ~Clash(s)', pc # "switch",
             ~ \E c, d \in Of(s) : c # d /\ con[c].build = con[d].build,
             ~(pc = "abort" /\ \A c \in routed \cap Of(s) : Serves(c) => c = new)
      PROVE  Answers(s)'
  <2>1. PICK c \in routed \cap Of(s) : con[c].st = "up" /\ ~(pc = "abort" /\ c = new)
    <3>1. PICK c \in routed \cap Of(s) : Serves(c) /\ ~(pc = "abort" /\ c = new)
      BY <1>1 DEF Answers
    <3>2. PICK S \in SUBSET Of(s) : c \in S /\ Relieved(S) /\ (pc = "abort" => new \notin S)
      <4>1. Relieved(Of(s))
        BY <1>1 DEF RollInv, ReliefInv, AllRelieved
      <4>2. CASE pc = "abort" /\ s = svc
        <5>1. c \in Running(svc)
          BY <3>1, <4>2 DEF Running, Serves
        <5>2. c \in old /\ old \subseteq Of(s) /\ Relieved(old) /\ new \notin old
          BY <1>1, <3>1, <4>2, <5>1
             DEF RollInv, TypeOK, ScriptInv, OldInv, NewInv, ReliefInv, Beside, Of
        <5> QED
          BY <5>2
      <4>3. CASE pc = "abort" /\ s # svc
        <5>1. new \notin Of(s)
          BY <1>1, <4>3 DEF RollInv, ScriptInv, NewInv, Stands, Of
        <5> QED
          BY <3>1, <4>1, <5>1
      <4> QED
        BY <3>1, <4>1, <4>2, <4>3
    <3> QED
      BY <1>1, <3>1, <3>2 DEF Relieved, Leaving, Serves
  <2>2. Serves(c) /\ ~Clash(con[c].svc) /\ con[c].svc = s
    BY <1>1, <2>1 DEF Serves, Answers, Of
  <2>3. Serves(c)' /\ con'[c].svc = s /\ c \in routed'
    BY <1>1, <2>1, <2>2, ServerStays
  <2>4. c \in Of(s)'
    BY <2>1, <2>3 DEF Of
  <2> QED
    BY <1>1, <2>3, <2>4 DEF Answers
<1>2. ASSUME RollInv, [Next]_vars
      PROVE  [\A s \in Services : Answers(s) =>
                \/ Answers(s)'
                \/ Clash(s)' \/ pc = "switch"
                \/ \E c, d \in Of(s) : c # d /\ con[c].build = con[d].build
                \/ pc = "abort" /\ \A c \in routed \cap Of(s) : Serves(c) => c = new]_vars
  BY <1>1, <1>2
<1> QED
  BY <1>2, RollInvHolds, PTL DEF Spec, NeverBelowOne
=============================================================================
