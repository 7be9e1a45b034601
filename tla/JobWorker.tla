------------------------------ MODULE JobWorker ------------------------------
(***************************************************************************)
(* The host worker's serial job loop (apps/worker/internal/worker: tick in *)
(* worker.go, the handlers in jobs.go, their SQL in store.go).  The worker *)
(* leases the oldest job, reads the request row once into a local snapshot *)
(* and then runs the handler one database statement or host call at a      *)
(* time: pc names the next one, and the API may commit between any two.    *)
(*                                                                         *)
(* A host call that fails may or may not have taken effect.  A database    *)
(* statement that fails has not; what its error leads to depends on where  *)
(* it is (DbError).  The process may die at any point (Crash) and always   *)
(* starts again (Boot): systemd restarts it.                               *)
(***************************************************************************)
EXTENDS ControlPlane

CONSTANTS
  ProjectMayFail,  \* EnsureProject can return an error
  MaxRestarts,     \* bound: deaths and graceful exits of the process
  MaxDbErrors      \* bound: database statements that fail

ASSUME FaultsAssumption == /\ ProjectMayFail \in BOOLEAN
                           /\ MaxRestarts \in Nat /\ MaxDbErrors \in Nat

VARIABLES
  pc,        \* the worker's next statement, see Points
  cur,       \* the job it holds (an index into jobs), 0 for none
  snap,      \* the request row as the handler read it
  restarts, dbErrors

workerVars == <<pc, cur, snap, restarts, dbErrors>>

ProvisionPoints == {"claim", "clean", "mint", "launch", "booted", "access",
                    "assign", "publish", "ready", "promote"}
TeardownPoints  == {"destroy", "release", "unpublish"}
PowerPoints     == {"power", "powered"}
SetupPoints     == {"setupSkip", "setupBegin", "setupSteps", "setupDone",
                    "setupFail"}
EndPoints       == {"recipe", "mark", "complete", "retry", "park", "skip",
                    "giveUp"}
Busy   == {"load"} \cup ProvisionPoints \cup TeardownPoints \cup PowerPoints
            \cup SetupPoints \cup EndPoints
Points == {"down", "idle"} \cup Busy

WorkerTypeOK == /\ pc \in Points
                /\ cur \in Nat
                /\ snap \in [status : Statuses, named : BOOLEAN]
                /\ restarts \in Nat /\ dbErrors \in Nat

WorkerInit == /\ pc = "down"
              /\ cur = 0
              /\ snap = [status |-> "none", named |-> FALSE]
              /\ restarts = 0 /\ dbErrors = 0

req  == jobs[cur].req       \* the request of the job the worker holds
verb == jobs[cur].action

GoTo(p) == pc' = p /\ UNCHANGED <<cur, snap, restarts, dbErrors>>

-----------------------------------------------------------------------------
(* Statements the handlers share (store.go) *)

\* setRequest overwrites status, instance_name and ipv4 of a row, whatever
\* its status has become since the handler read it.
SetRequest(r, st, hasName, hasAddress) ==
  /\ status' = [status EXCEPT ![r] = st]
  /\ named' = Put(named, r, hasName)
  /\ ipv4' = Put(ipv4, r, hasAddress)
  /\ UNCHANGED <<setup, ipv6, secret, built>>

SetSetup(r, st) ==
  /\ setup' = [setup EXCEPT ![r] = st]
  /\ UNCHANGED <<status, named, ipv4, ipv6, secret, built>>

\* enqueueSetupIfPending: INSERT ... SELECT ... ON CONFLICT DO NOTHING.
WantsSetup(r) == status[r] = "running" /\ setup[r] = "pending"

EnqueueSetupIfPending(r) ==
  IF WantsSetup(r) /\ ~Active(r, "setup") THEN InsertJob(r, "setup")
                                          ELSE UNCHANGED jobs

\* markBuilt leaves a box with setup outstanding alone.
MarkBuilt(r) == built' = IF setup[r] \in {"none", "done"} THEN built \cup {r}
                                                          ELSE built

\* finishJob and requeue: the job row moves to s and the worker lets go of it.
Settle(s) == /\ jobs' = [jobs EXCEPT ![cur].status = s]
             /\ pc' = "idle" /\ cur' = 0
             /\ UNCHANGED <<snap, restarts, dbErrors>>

-----------------------------------------------------------------------------
(* Start and lease *)

\* Run: requeueLeased, then reconcileIpv6Assignments.
LiveWithAddress == {r \in ipv6 : status[r] \notin {"rejected", "deleted"}}

RequeueLeased ==
  jobs' = [j \in DOMAIN jobs |->
             IF jobs[j].status = "leased" THEN [jobs[j] EXCEPT !.status = "queued"]
                                          ELSE jobs[j]]

Boot ==
  /\ pc = "down"
  /\ RequeueLeased
  /\ assigned' = assigned \cup LiveWithAddress
  /\ GoTo("idle")
  /\ UNCHANGED <<rowVars, worldVars, delivered>>

\* Seeded fault: any queued job is taken, not the oldest.
MutOldest(j) == jobs[j].status = "queued"

\* leaseJob takes the oldest queued job and counts the attempt.
Oldest(j) == /\ jobs[j].status = "queued"
             /\ \A i \in 1 .. (j - 1) : jobs[i].status # "queued"

\* Seeded fault: a lease does not count as an attempt.
MutAttempted(n) == n

Attempted(n) == n + 1

Leased(job) == [req |-> job.req, action |-> job.action, status |-> "leased",
                attempts |-> Attempted(job.attempts)]

Lease ==
  /\ pc = "idle"
  /\ \E j \in DOMAIN jobs :
       /\ Oldest(j)
       /\ jobs' = [jobs EXCEPT ![j] = Leased(@)]
       /\ cur' = j
  /\ pc' = "load"
  /\ UNCHANGED <<snap, restarts, dbErrors, rowVars, assigned, worldVars,
                 delivered>>

\* Seeded fault: a build a crash interrupted is not taken up again.
MutBuildable(r) == status[r] = "approved"

\* A provisioning row is a build an earlier process or attempt began.
Buildable(r) == status[r] \in {"approved", "provisioning"}

ProvisionEntry(r) ==
  IF status[r] = "deleted" THEN "skip"
  ELSE IF ~Buildable(r) THEN "giveUp"
  ELSE IF r \in Refused THEN "park" ELSE "claim"

SetupDue(r) == status[r] # "deleted" /\ setup[r] \in {"pending", "running"}

SetupEntry(r) ==
  IF ~SetupDue(r) THEN "skip"
  ELSE IF status[r] # "running" \/ r \notin named THEN "setupSkip"
  ELSE IF jobs[cur].attempts > SetupAttempts THEN "setupFail"
  ELSE "setupBegin"

\* Where a handler goes once it has read the row: its early returns in order.
Entry(r) ==
  CASE verb = "provision"         -> ProvisionEntry(r)
    [] verb = "teardown"          -> "destroy"
    [] verb \in {"stop", "start"} -> IF r \in named THEN "power" ELSE "giveUp"
    [] verb = "setup"             -> SetupEntry(r)

Load ==
  /\ pc = "load"
  /\ snap' = [status |-> status[req], named |-> req \in named]
  /\ pc' = Entry(req)
  /\ UNCHANGED <<cur, restarts, dbErrors, planeVars>>

-----------------------------------------------------------------------------
(* provision: one attempt to build the box.  Every failure leads to retry. *)

\* EnsureProject; a row still approved is then claimed.
Claim ==
  /\ pc = "claim"
  /\ IF snap.status = "approved" THEN SetRequest(req, "provisioning", TRUE, FALSE)
                                 ELSE UNCHANGED rowVars
  /\ GoTo("clean")
  /\ UNCHANGED <<jobs, assigned, worldVars, delivered>>

ProjectFails == /\ ProjectMayFail
                /\ pc = "claim"
                /\ GoTo("retry")
                /\ UNCHANGED planeVars

\* Delete stops a running instance first; an error may leave any prefix done.
DeleteOutcomes(r) == IF instance[r] = "absent" THEN {"absent"}
                     ELSE {instance[r], "stopped", "absent"}

\* Idempotent launch: a partial instance of an earlier attempt is deleted,
\* and an error of that delete is ignored.
Clean ==
  /\ pc = "clean"
  /\ \E s \in DeleteOutcomes(req) : instance' = [instance EXCEPT ![req] = s]
  /\ GoTo(IF req \in Vms THEN "mint" ELSE "launch")
  /\ UNCHANGED <<rowVars, jobs, assigned, aaaa, routes, delivered>>

\* Seeded fault: a password that was read before is not replaced.
MutStoredSecrets(r) == IF r \in delivered THEN secret ELSE secret \cup {r}

\* A new guest password replaces the stored one; the owner has not seen it.
\* A VM gets it in its user-data before launch, a container after its boot.
StoredSecrets(r) == secret \cup {r}

Mint ==
  /\ pc = "mint"
  /\ secret' = StoredSecrets(req)
  /\ delivered' = delivered \ {req}
  /\ GoTo(IF req \in Vms THEN "launch" ELSE "access")
  /\ UNCHANGED <<status, setup, named, ipv4, ipv6, built, jobs, assigned,
                 worldVars>>

Launch ==
  /\ pc = "launch"
  /\ instance[req] = "absent"
  /\ instance' = [instance EXCEPT ![req] = "running"]
  /\ GoTo("booted")
  /\ UNCHANGED <<rowVars, jobs, assigned, aaaa, routes, delivered>>

\* A missing image is permanent and parks the request at once; any other
\* error, a leftover instance included, retries and may leave a partial one.
LaunchFails ==
  /\ pc = "launch"
  /\ \/ /\ UNCHANGED instance
        /\ GoTo("park")
     \/ /\ \/ UNCHANGED instance
           \/ /\ instance[req] = "absent"
              /\ \E s \in {"stopped", "running"} :
                   instance' = [instance EXCEPT ![req] = s]
        /\ GoTo("retry")
  /\ UNCHANGED <<rowVars, jobs, assigned, aaaa, routes, delivered>>

\* Seeded fault: a box with a static address is promoted without recording it.
MutAfterAccess == "ready"

AfterAccess == IF HasIPv6 THEN "assign" ELSE "ready"

\* waitForAddress: an address, a timeout, or a shutdown seen while waiting.
Booted ==
  /\ pc = "booted"
  /\ \/ GoTo(IF req \in Vms THEN AfterAccess ELSE "mint")
     \/ GoTo("retry")
  /\ UNCHANGED planeVars

\* provisionContainerSSH.
Access ==
  /\ pc = "access"
  /\ GoTo(AfterAccess) \/ GoTo("retry")
  /\ UNCHANGED planeVars

\* setIpv6: the row's address and its open history row, in one transaction.
Assign ==
  /\ pc = "assign"
  /\ ipv6' = ipv6 \cup {req}
  /\ assigned' = assigned \cup {req}
  /\ GoTo(IF HasDns THEN "publish" ELSE "ready")
  /\ UNCHANGED <<status, setup, named, ipv4, secret, built, jobs, worldVars,
                 delivered>>

\* EnsureAAAA.
Publish ==
  /\ pc = "publish"
  /\ \/ aaaa' = aaaa \cup {req} /\ GoTo("ready")
     \/ aaaa' \in {aaaa, aaaa \cup {req}} /\ GoTo("retry")
  /\ UNCHANGED <<rowVars, jobs, assigned, instance, routes, delivered>>

\* waitForReachable, when there is a public address to probe, then the desktop
\* route file.
ReadyMayFail == HasIPv6 \/ req \in Desktops

Ready ==
  /\ pc = "ready"
  /\ \/ /\ routes' = IF req \in Desktops THEN routes \cup {req} ELSE routes
        /\ GoTo("promote")
     \/ ReadyMayFail /\ UNCHANGED routes /\ GoTo("retry")
  /\ UNCHANGED <<rowVars, jobs, assigned, instance, aaaa, delivered>>

\* The row starts to say running; setup and build time come after it.
Promote ==
  /\ pc = "promote"
  /\ SetRequest(req, "running", TRUE, TRUE)
  /\ GoTo("recipe")
  /\ UNCHANGED <<jobs, assigned, worldVars, delivered>>

-----------------------------------------------------------------------------
(* teardown *)

\* Seeded fault: a delete that failed counts as one that found nothing.
MutConfirmedGone(s) == TRUE

\* Delete; after an error Exists decides whether the instance is gone.  An
\* error of Exists itself retries as well.
ConfirmedGone(s) == s = "absent"

Destroy ==
  /\ pc = "destroy"
  /\ \E s \in DeleteOutcomes(req) :
       /\ instance' = [instance EXCEPT ![req] = s]
       /\ \/ ConfirmedGone(s) /\ GoTo("release")
          \/ GoTo("retry")
  /\ UNCHANGED <<rowVars, jobs, assigned, aaaa, routes, delivered>>

\* releaseIpv6: the history closes once the instance is confirmed gone.
ReleaseAddress ==
  /\ pc = "release"
  /\ assigned' = assigned \ {req}
  /\ GoTo("unpublish")
  /\ UNCHANGED <<rowVars, jobs, worldVars, delivered>>

\* DeleteAAAA, then the route file, whose removal is best effort.
Unpublish ==
  /\ pc = "unpublish"
  /\ \/ /\ aaaa' = IF HasDns THEN aaaa \ {req} ELSE aaaa
        /\ routes' \in {routes} \cup
                         (IF req \in Desktops THEN {routes \ {req}} ELSE {})
        /\ GoTo("complete")
     \/ /\ HasDns
        /\ aaaa' \in {aaaa, aaaa \ {req}}
        /\ UNCHANGED routes
        /\ GoTo("retry")
  /\ UNCHANGED <<rowVars, jobs, assigned, instance, delivered>>

-----------------------------------------------------------------------------
(* power: the verb is skipped when the instance is already in the target   *)
(* state; a start then waits for an address.                               *)

Target == IF verb = "stop" THEN "stopped" ELSE "running"

SetPower ==
  /\ pc = "power"
  /\ \/ /\ instance[req] # "absent"
        /\ instance' = [instance EXCEPT ![req] = Target]
        /\ GoTo("powered")
     \/ /\ \/ UNCHANGED instance
           \/ /\ instance[req] # "absent"
              /\ instance' = [instance EXCEPT ![req] = Target]
        /\ GoTo("retry")
  /\ UNCHANGED <<rowVars, jobs, assigned, aaaa, routes, delivered>>

\* A setup skipped while the box was stopped resumes on start.
AfterPower == IF verb = "start" THEN "recipe" ELSE "complete"

Powered ==
  /\ pc = "powered"
  /\ \/ /\ SetRequest(req, Target, snap.named, verb = "start")
        /\ GoTo(AfterPower)
     \/ /\ verb = "start"
        /\ UNCHANGED rowVars
        /\ GoTo("retry")
  /\ UNCHANGED <<jobs, assigned, worldVars, delivered>>

-----------------------------------------------------------------------------
(* setup: the recipe's scripts run inside the box, safe to run again.      *)

\* Stopped before setup ran: it stays pending for the next start.
SetupSkip ==
  /\ pc = "setupSkip"
  /\ SetSetup(req, "pending")
  /\ GoTo("skip")
  /\ UNCHANGED <<jobs, assigned, worldVars, delivered>>

SetupBegin ==
  /\ pc = "setupBegin"
  /\ SetSetup(req, "running")
  /\ GoTo("setupSteps")
  /\ UNCHANGED <<jobs, assigned, worldVars, delivered>>

\* The steps, their in-place retries and the reachability gate, seen from
\* outside: they all pass, needing a live guest, or one of them fails.
SetupSteps ==
  /\ pc = "setupSteps"
  /\ \/ instance[req] = "running" /\ GoTo("setupDone")
     \/ GoTo("setupFail")
  /\ UNCHANGED planeVars

\* A shutdown seen between steps requeues the job, and the process exits.
SetupInterrupted ==
  /\ pc = "setupSteps"
  /\ restarts < MaxRestarts
  /\ jobs' = [jobs EXCEPT ![cur].status = "queued"]
  /\ pc' = "down" /\ cur' = 0 /\ restarts' = restarts + 1
  /\ UNCHANGED <<snap, dbErrors, rowVars, assigned, worldVars, delivered>>

SetupDone ==
  /\ pc = "setupDone"
  /\ SetSetup(req, "done")
  /\ GoTo("mark")
  /\ UNCHANGED <<jobs, assigned, worldVars, delivered>>

SetupFail ==
  /\ pc = "setupFail"
  /\ SetSetup(req, "failed")
  /\ GoTo("giveUp")
  /\ UNCHANGED <<jobs, assigned, worldVars, delivered>>

-----------------------------------------------------------------------------
(* How a job ends *)

\* A running row's pending setup becomes a job of its own.
EnqueueRecipe ==
  /\ pc = "recipe"
  /\ EnqueueSetupIfPending(req)
  /\ GoTo(IF verb = "provision" THEN "mark" ELSE "complete")
  /\ UNCHANGED <<rowVars, assigned, worldVars, delivered>>

Mark ==
  /\ pc = "mark"
  /\ MarkBuilt(req)
  /\ GoTo("complete")
  /\ UNCHANGED <<status, setup, named, ipv4, ipv6, secret, jobs, assigned,
                 worldVars, delivered>>

Finish ==
  /\ \/ pc \in {"complete", "skip"} /\ Settle("done")
     \/ pc = "giveUp" /\ Settle("failed")
  /\ UNCHANGED <<rowVars, assigned, worldVars, delivered>>

\* retryOrFail: the attempts were counted when the job was leased.
AttemptLimit == CASE verb = "provision" -> ProvisionAttempts
                  [] verb = "teardown"  -> TeardownAttempts
                  [] OTHER              -> PowerAttempts

Exhausted == jobs[cur].attempts >= AttemptLimit

Retry ==
  /\ pc = "retry"
  /\ IF Exhausted
       THEN GoTo(IF verb = "provision" THEN "park" ELSE "giveUp") /\ UNCHANGED jobs
       ELSE Settle("queued")
  /\ UNCHANGED <<rowVars, assigned, worldVars, delivered>>

\* failProvision parks the request at approved with the instance name it had
\* when the handler read it.
Park ==
  /\ pc = "park"
  /\ SetRequest(req, "approved", snap.named, FALSE)
  /\ GoTo("giveUp")
  /\ UNCHANGED <<jobs, assigned, worldVars, delivered>>

-----------------------------------------------------------------------------
(* Faults *)

\* The next statement of these points goes to the database.
DbPoints == {"load", "claim", "mint", "assign", "ready", "promote", "release",
             "powered", "setupSkip", "setupBegin", "setupSteps", "setupDone",
             "setupFail", "recipe", "mark", "complete", "retry", "park", "skip",
             "giveUp"}

\* Errors inside provision, teardown and power are retried like any other;
\* the others end the tick and leave the job leased until the next Boot.
InsideAttempt == \/ pc \in {"claim", "mint", "assign", "ready", "promote",
                            "release", "powered", "recipe"}
                 \/ pc \in {"mark", "complete"} /\ verb # "setup"

DbError ==
  /\ pc \in DbPoints
  /\ pc = "ready" => HasIPv6
  /\ dbErrors < MaxDbErrors
  /\ dbErrors' = dbErrors + 1
  /\ IF InsideAttempt THEN pc' = "retry" /\ cur' = cur
                      ELSE pc' = "idle" /\ cur' = 0
  /\ UNCHANGED <<snap, restarts, planeVars>>

Crash ==
  /\ pc # "down"
  /\ restarts < MaxRestarts
  /\ restarts' = restarts + 1
  /\ pc' = "down" /\ cur' = 0
  /\ UNCHANGED <<snap, dbErrors, planeVars>>

-----------------------------------------------------------------------------
Building    == \/ Claim \/ ProjectFails \/ Clean \/ Mint \/ Launch
                \/ LaunchFails \/ Booted \/ Access \/ Assign \/ Publish
                \/ Ready \/ Promote
TearingDown  == Destroy \/ ReleaseAddress \/ Unpublish
Powering     == SetPower \/ Powered
SettingUp    == SetupSkip \/ SetupBegin \/ SetupSteps \/ SetupDone \/ SetupFail
Ending       == EnqueueRecipe \/ Mark \/ Finish \/ Retry \/ Park

\* A step of the worker's own, the one fairness is about.
WorkerStep == \/ Boot \/ Lease \/ Load
              \/ Building \/ TearingDown \/ Powering \/ SettingUp \/ Ending

WorkerFault == SetupInterrupted \/ DbError \/ Crash

WorkerNext == WorkerStep \/ WorkerFault
=============================================================================
