------------------------- MODULE ProvisioningProofs -------------------------
(***************************************************************************)
(* The composed provisioning system.  First its types, and the lemmas on   *)
(* the job table and on the worker's steps that the rest needs: the        *)
(* invariant is WorkerInv, the type, the lease the worker holds while it   *)
(* is inside a handler, and the handler its program point belongs to; none *)
(* of the three is inductive without the others.  With it the API and the  *)
(* worker implement the job queue of JobQueue, step by step.               *)
(*                                                                         *)
(* Then the safety properties.  Those that hold whatever fails are each    *)
(* the consequence of an invariant that is inductive relative to WorkerInv.*)
(* What the panel says of a box agrees with the world only as long as no   *)
(* database statement of the worker has failed (the last part).  There the *)
(* argument is that a request that was promoted once is never built again: *)
(* no attempt parks it, so no retry of an operator can find it approved.   *)
(* A failed statement after the promotion breaks exactly that: the         *)
(* invariant is kept up to the first one.                                  *)
(***************************************************************************)
EXTENDS Provisioning, SequenceTheorems, FiniteSetTheorems, TLAPS

JobStatuses == {"queued", "leased", "done", "failed"}

\* The rows of the table.
LEMMA JobRows ==
  ASSUME jobs \in Seq(Job)
  PROVE  /\ Len(jobs) \in Nat /\ DOMAIN jobs = 1 .. Len(jobs)
         /\ \A i \in DOMAIN jobs : jobs[i] \in Job
<1>1. /\ Len(jobs) \in Nat /\ DOMAIN jobs = 1 .. Len(jobs)
      /\ jobs \in [1 .. Len(jobs) -> Job]
  BY LenProperties
<1> QED
  BY <1>1

\* A table with one more row keeps the rows it had.
LEMMA AddedJob ==
  ASSUME NEW r \in Requests, NEW a \in Actions, jobs \in Seq(Job), InsertJob(r, a)
  PROVE  /\ jobs' \in Seq(Job)
         /\ DOMAIN jobs' = DOMAIN jobs \cup {Len(jobs) + 1}
         /\ \A i \in DOMAIN jobs : jobs'[i] = jobs[i]
         /\ jobs'[Len(jobs) + 1] = [req |-> r, action |-> a, status |-> "queued",
                                    attempts |-> 0]
         /\ Len(jobs) + 1 \notin DOMAIN jobs
<1> DEFINE new == [req |-> r, action |-> a, status |-> "queued", attempts |-> 0]
<1>1. new \in Job
  BY DEF Job
<1>2. jobs' = Append(jobs, new)
  BY DEF InsertJob
<1>3. /\ Len(jobs) \in Nat /\ DOMAIN jobs = 1 .. Len(jobs)
      /\ \A i \in DOMAIN jobs : jobs[i] \in Job
  BY JobRows
<1>4. /\ jobs' \in Seq(Job) /\ Len(jobs') = Len(jobs) + 1
      /\ \A i \in 1 .. Len(jobs) : jobs'[i] = jobs[i]
      /\ jobs'[Len(jobs) + 1] = new
  BY <1>1, <1>2, AppendProperties
<1>5. DOMAIN jobs' = 1 .. (Len(jobs) + 1)
  BY <1>4, LenProperties
<1> QED
  BY <1>3, <1>4, <1>5

\* A job replaced by another leaves the rest of the table alone.
LEMMA ReplacedJob ==
  ASSUME NEW j \in DOMAIN jobs, NEW new \in Job, jobs \in Seq(Job),
         jobs' = [jobs EXCEPT ![j] = new]
  PROVE  /\ jobs' \in Seq(Job)
         /\ DOMAIN jobs' = DOMAIN jobs
         /\ \A i \in DOMAIN jobs : jobs'[i] = IF i = j THEN new ELSE jobs[i]
<1>1. /\ Len(jobs) \in Nat /\ DOMAIN jobs = 1 .. Len(jobs)
  BY JobRows
<1>2. /\ jobs' \in Seq(Job) /\ Len(jobs') = Len(jobs)
      /\ \A i \in 1 .. Len(jobs) : jobs'[i] = IF i = j THEN new ELSE jobs[i]
  BY <1>1, ExceptSeq
<1>3. DOMAIN jobs' = 1 .. Len(jobs)
  BY <1>2, LenProperties
<1> QED
  BY <1>1, <1>2, <1>3

Restated(job, s) == [req |-> job.req, action |-> job.action, status |-> s,
                     attempts |-> job.attempts]

\* A job whose status changes keeps its key and its attempts.
LEMMA RestatedJob ==
  ASSUME NEW s \in JobStatuses, NEW j \in DOMAIN jobs, jobs \in Seq(Job),
         jobs' = [jobs EXCEPT ![j].status = s]
  PROVE  /\ jobs' \in Seq(Job)
         /\ DOMAIN jobs' = DOMAIN jobs
         /\ \A i \in DOMAIN jobs : jobs'[i] = IF i = j THEN Restated(jobs[i], s)
                                                      ELSE jobs[i]
         /\ \A i \in DOMAIN jobs : /\ jobs'[i].req = jobs[i].req
                                   /\ jobs'[i].action = jobs[i].action
                                   /\ jobs'[i].status = IF i = j THEN s
                                                                ELSE jobs[i].status
<1>1. jobs[j] \in Job
  BY JobRows
<1>2. Restated(jobs[j], s) \in Job
  BY <1>1 DEF Job, JobStatuses, Restated
<1>3. jobs' = [jobs EXCEPT ![j] = Restated(jobs[j], s)]
  <2>1. [jobs[j] EXCEPT !.status = s] = Restated(jobs[j], s)
    BY <1>1 DEF Restated, Job
  <2> QED
    BY <2>1, Zenon
<1>4. /\ jobs' \in Seq(Job) /\ DOMAIN jobs' = DOMAIN jobs
      /\ \A i \in DOMAIN jobs : jobs'[i] = IF i = j THEN Restated(jobs[i], s)
                                                   ELSE jobs[i]
  BY <1>2, <1>3, ReplacedJob
<1> QED
  BY <1>4 DEF Restated

\* A lease also counts the attempt.
LEMMA LeasedJob ==
  ASSUME NEW j \in DOMAIN jobs, jobs \in Seq(Job),
         jobs' = [jobs EXCEPT ![j] = Leased(@)]
  PROVE  /\ jobs' \in Seq(Job)
         /\ DOMAIN jobs' = DOMAIN jobs
         /\ \A i \in DOMAIN jobs :
              /\ jobs'[i] = IF i = j THEN Leased(jobs[i]) ELSE jobs[i]
              /\ jobs'[i].req = jobs[i].req /\ jobs'[i].action = jobs[i].action
              /\ jobs'[i].status = IF i = j THEN "leased" ELSE jobs[i].status
         /\ Leased(jobs[j]) = [req |-> jobs[j].req, action |-> jobs[j].action,
                               status |-> "leased",
                               attempts |-> jobs[j].attempts + 1]
<1>1. jobs[j] \in Job
  BY JobRows
<1>2. Leased(jobs[j]) = [req |-> jobs[j].req, action |-> jobs[j].action,
                         status |-> "leased", attempts |-> jobs[j].attempts + 1]
  BY <1>1 DEF Leased, Attempted, Job
<1>3. Leased(jobs[j]) \in Job
  BY <1>1, <1>2 DEF Job
<1>4. /\ jobs' \in Seq(Job) /\ DOMAIN jobs' = DOMAIN jobs
      /\ \A i \in DOMAIN jobs : jobs'[i] = IF i = j THEN Leased(jobs[i]) ELSE jobs[i]
  BY <1>3, ReplacedJob
<1> QED
  BY <1>2, <1>4 DEF Leased

\* A worker that starts changes only the status of leased jobs.
LEMMA RequeuedJobs ==
  ASSUME jobs \in Seq(Job), RequeueLeased
  PROVE  /\ jobs' \in Seq(Job)
         /\ DOMAIN jobs' = DOMAIN jobs
         /\ \A i \in DOMAIN jobs :
              /\ jobs'[i].req = jobs[i].req
              /\ jobs'[i].action = jobs[i].action
              /\ jobs'[i].status = IF jobs[i].status = "leased" THEN "queued"
                                                               ELSE jobs[i].status
<1> DEFINE new(i) == IF jobs[i].status = "leased"
                       THEN Restated(jobs[i], "queued") ELSE jobs[i]
<1>1. /\ Len(jobs) \in Nat /\ DOMAIN jobs = 1 .. Len(jobs)
      /\ \A i \in DOMAIN jobs : jobs[i] \in Job
  BY JobRows
<1>2. ASSUME NEW i \in 1 .. Len(jobs) PROVE new(i) \in Job
  BY <1>1 DEF Job, Restated
<1>3. jobs' = [i \in 1 .. Len(jobs) |-> new(i)]
  <2>1. \A i \in DOMAIN jobs : Restated(jobs[i], "queued")
                                 = [jobs[i] EXCEPT !.status = "queued"]
    BY <1>1 DEF Restated, Job
  <2> QED
    BY <1>1, <2>1, Zenon DEF RequeueLeased
<1>4. jobs' \in [1 .. Len(jobs) -> Job]
  BY <1>2, <1>3
<1>5. jobs' \in Seq(Job)
  BY <1>1, <1>4, SeqDef
<1> QED
  BY <1>1, <1>3, <1>5 DEF Restated

-----------------------------------------------------------------------------
(* Types, and the job the worker is on *)

\* Whatever statement of a handler comes next, the worker holds the lease of
\* the job it handles.
HoldsLease == pc \in Busy => cur \in DOMAIN jobs /\ jobs[cur].status = "leased"

\* The statement belongs to the handler of that job's action.
InHandler ==
  /\ pc \in ProvisionPoints \cup {"park"} => verb = "provision"
  /\ pc \in TeardownPoints => verb = "teardown"
  /\ pc \in PowerPoints => verb \in {"stop", "start"}
  /\ pc \in SetupPoints => verb = "setup"
  /\ pc = "recipe" => verb \in {"provision", "start"}
  /\ pc = "mark" => verb \in {"provision", "setup"}
  /\ pc = "skip" => verb \in {"provision", "setup"}

WorkerInv == TypeOK /\ HoldsLease /\ InHandler

USE DEF Statuses, SetupStatuses, Actions, InstanceStates, Busy, Points,
        ProvisionPoints, TeardownPoints, PowerPoints, SetupPoints, EndPoints

LEMMA WorkerInit_ == Init => WorkerInv
BY EmptySeq DEF Init, PlaneInit, WorkerInit, WorkerInv, TypeOK, PlaneTypeOK,
                WorkerTypeOK, HoldsLease, InHandler

\* The request and the action of the job in hand.
LEMMA InHand ==
  ASSUME WorkerInv, pc \in Busy
  PROVE  /\ req \in Requests /\ verb \in Actions
         /\ cur \in DOMAIN jobs /\ jobs[cur] \in Job
         /\ jobs[cur].status = "leased"
<1>1. cur \in DOMAIN jobs /\ jobs[cur].status = "leased" /\ jobs \in Seq(Job)
  BY DEF WorkerInv, HoldsLease, TypeOK, PlaneTypeOK
<1>2. jobs[cur] \in Job
  BY <1>1, JobRows
<1> QED
  BY <1>1, <1>2 DEF Job, req, verb

\* Handing back or settling the job in hand leaves the worker idle.
LEMMA SettleKeepsWorkerInv ==
  ASSUME WorkerInv, pc \in Busy, NEW st \in JobStatuses, Settle(st),
         UNCHANGED <<rowVars, assigned, worldVars, delivered>>
  PROVE  WorkerInv'
<1>1. jobs' \in Seq(Job)
  BY InHand, RestatedJob DEF WorkerInv, TypeOK, PlaneTypeOK, Settle
<1> QED
  BY <1>1 DEF Settle, rowVars, worldVars, WorkerInv, TypeOK, PlaneTypeOK,
              WorkerTypeOK, HoldsLease, InHandler

\* A step inside a handler that adds a job, or none, leaves the job in hand.
LEMMA InsertKeepsWorkerInv ==
  ASSUME WorkerInv, NEW r \in Requests, NEW a \in Actions, InsertJob(r, a),
         UNCHANGED <<assigned, worldVars, delivered, snap, restarts, dbErrors>>,
         status' \in [Requests -> Statuses], setup' \in [Requests -> SetupStatuses],
         UNCHANGED <<named, ipv4, ipv6, secret, built, cur>>,
         \/ pc' = pc
         \/ pc = "recipe" /\ pc' = IF verb = "provision" THEN "mark" ELSE "complete"
  PROVE  WorkerInv'
<1>1. /\ jobs' \in Seq(Job) /\ DOMAIN jobs \subseteq DOMAIN jobs'
      /\ \A i \in DOMAIN jobs : jobs'[i] = jobs[i]
  BY AddedJob DEF WorkerInv, TypeOK, PlaneTypeOK
<1> QED
  BY <1>1 DEF worldVars, WorkerInv, TypeOK, PlaneTypeOK, WorkerTypeOK,
              HoldsLease, InHandler, verb

LEMMA ApiKeepsWorkerInv ==
  ASSUME WorkerInv, ApiNext, UNCHANGED workerVars
  PROVE  WorkerInv'
<1> USE DEF workerVars, rowVars, worldVars, verb
<1> SUFFICES ASSUME NEW r \in Requests,
                    \/ Create(r) \/ Approve(r) \/ Reject(r) \/ Cancel(r)
                    \/ \E act \in {"stop", "start"} : Power(r, act)
                    \/ RetryProvision(r) \/ RetrySetup(r) \/ ReadPassword(r)
             PROVE  WorkerInv'
  BY DEF ApiNext
<1>1. CASE Create(r)
  BY <1>1 DEF Create, WorkerInv, TypeOK, PlaneTypeOK, WorkerTypeOK, HoldsLease, InHandler
<1>2. CASE Approve(r)
  BY <1>2, InsertKeepsWorkerInv DEF Approve, WorkerInv, TypeOK, PlaneTypeOK
<1>3. CASE Reject(r)
  BY <1>3 DEF Reject, WorkerInv, TypeOK, PlaneTypeOK, WorkerTypeOK, HoldsLease, InHandler
<1>4. CASE Cancel(r)
  <2>1. CASE NeedsTeardown(r)
    BY <1>4, <2>1, InsertKeepsWorkerInv DEF Cancel, WorkerInv, TypeOK, PlaneTypeOK
  <2>2. CASE ~NeedsTeardown(r)
    BY <1>4, <2>2 DEF Cancel, WorkerInv, TypeOK, PlaneTypeOK, WorkerTypeOK, HoldsLease, InHandler
  <2> QED
    BY <2>1, <2>2
<1>5. ASSUME NEW act \in {"stop", "start"}, Power(r, act) PROVE WorkerInv'
  BY <1>5, InsertKeepsWorkerInv DEF Power, WorkerInv, TypeOK, PlaneTypeOK
<1>6. CASE RetryProvision(r)
  BY <1>6, InsertKeepsWorkerInv DEF RetryProvision, WorkerInv, TypeOK, PlaneTypeOK
<1>7. CASE RetrySetup(r)
  BY <1>7, InsertKeepsWorkerInv DEF RetrySetup, WorkerInv, TypeOK, PlaneTypeOK
<1>8. CASE ReadPassword(r)
  BY <1>8 DEF ReadPassword, WorkerInv, TypeOK, PlaneTypeOK, WorkerTypeOK, HoldsLease, InHandler
<1> QED
  BY <1>1, <1>2, <1>3, <1>4, <1>5, <1>6, <1>7, <1>8

\* The handler of an action is the one entered.
LEMMA EntryOf ==
  ASSUME NEW r, verb \in Actions
  PROVE  /\ verb = "provision" => Entry(r) = ProvisionEntry(r)
         /\ verb = "teardown" => Entry(r) = "destroy"
         /\ verb \in {"stop", "start"} =>
              Entry(r) = IF r \in named THEN "power" ELSE "giveUp"
         /\ verb = "setup" => Entry(r) = SetupEntry(r)
<1>1. ASSUME verb = "provision" PROVE Entry(r) = ProvisionEntry(r)
  BY <1>1 DEF Entry
<1>2. ASSUME verb = "teardown" PROVE Entry(r) = "destroy"
  BY <1>2 DEF Entry
<1>3. ASSUME verb \in {"stop", "start"}
      PROVE  Entry(r) = IF r \in named THEN "power" ELSE "giveUp"
  BY <1>3 DEF Entry
<1>4. ASSUME verb = "setup" PROVE Entry(r) = SetupEntry(r)
  BY <1>4 DEF Entry
<1> QED
  BY <1>1, <1>2, <1>3, <1>4

LEMMA StartKeepsWorkerInv ==
  ASSUME WorkerInv, Boot \/ Lease \/ Load
  PROVE  WorkerInv'
<1> USE DEF GoTo, InHandler, verb, req, rowVars, worldVars, planeVars
<1>1. CASE Boot
  <2>1. jobs' \in Seq(Job)
    BY <1>1, RequeuedJobs DEF Boot, WorkerInv, TypeOK, PlaneTypeOK
  <2> QED
    BY <1>1, <2>1 DEF Boot, LiveWithAddress, WorkerInv, TypeOK, PlaneTypeOK,
                      WorkerTypeOK, HoldsLease
<1>2. CASE Lease
  <2>1. PICK j \in DOMAIN jobs : /\ jobs' = [jobs EXCEPT ![j] = Leased(@)]
                                 /\ cur' = j
    BY <1>2 DEF Lease
  <2>2. /\ jobs' \in Seq(Job) /\ DOMAIN jobs' = DOMAIN jobs
        /\ jobs'[j].status = "leased"
    <3>1. jobs \in Seq(Job)
      BY DEF WorkerInv, TypeOK, PlaneTypeOK
    <3>2. /\ jobs' \in Seq(Job) /\ DOMAIN jobs' = DOMAIN jobs
          /\ jobs'[j] = Leased(jobs[j])
      BY <2>1, <3>1, LeasedJob
    <3> QED
      BY <3>2 DEF Leased
  <2>3. j \in Nat
    BY JobRows DEF WorkerInv, TypeOK, PlaneTypeOK
  <2> QED
    BY <1>2, <2>1, <2>2, <2>3 DEF Lease, WorkerInv, TypeOK, PlaneTypeOK,
                                  WorkerTypeOK, HoldsLease
<1>3. CASE Load
  <2>1. pc' \in Busy /\ InHandler'
    BY <1>3, InHand, EntryOf DEF Load, ProvisionEntry, SetupEntry
  <2>2. snap' \in [status : Statuses, named : BOOLEAN]
    BY <1>3, InHand DEF Load, WorkerInv, TypeOK, PlaneTypeOK
  <2> QED
    BY <1>3, <2>1, <2>2 DEF Load, WorkerInv, TypeOK, PlaneTypeOK, WorkerTypeOK, HoldsLease
<1> QED
  BY <1>1, <1>2, <1>3

LEMMA BuildingKeepsWorkerInv ==
  ASSUME WorkerInv, Building
  PROVE  WorkerInv'
<1> USE DEF GoTo, InHandler, verb, req, rowVars, worldVars, planeVars,
            WorkerInv, HoldsLease, TypeOK, PlaneTypeOK, WorkerTypeOK
<1>1. CASE Claim
  BY <1>1, InHand DEF Claim, SetRequest, Put
<1>2. CASE ProjectFails
  BY <1>2, InHand DEF ProjectFails
<1>3. CASE Clean
  BY <1>3, InHand DEF Clean, DeleteOutcomes
<1>4. CASE Mint
  BY <1>4, InHand DEF Mint, StoredSecrets
<1>5. CASE Launch
  BY <1>5, InHand DEF Launch
<1>6. CASE LaunchFails
  BY <1>6, InHand DEF LaunchFails
<1>7. CASE Booted
  BY <1>7, InHand DEF Booted, AfterAccess
<1>8. CASE Access
  BY <1>8, InHand DEF Access, AfterAccess
<1>9. CASE Assign
  BY <1>9, InHand DEF Assign
<1>10. CASE Publish
  BY <1>10, InHand DEF Publish
<1>11. CASE Ready
  BY <1>11, InHand DEF Ready
<1>12. CASE Promote
  BY <1>12, InHand DEF Promote, SetRequest, Put
<1> QED
  BY <1>1, <1>2, <1>3, <1>4, <1>5, <1>6, <1>7, <1>8, <1>9, <1>10, <1>11, <1>12
     DEF Building

LEMMA OtherHandlersKeepWorkerInv ==
  ASSUME WorkerInv, TearingDown \/ Powering \/ SettingUp
  PROVE  WorkerInv'
<1> USE DEF GoTo, InHandler, verb, req, rowVars, worldVars, planeVars,
            WorkerInv, HoldsLease, TypeOK, PlaneTypeOK, WorkerTypeOK
<1>1. CASE Destroy
  BY <1>1, InHand DEF Destroy, DeleteOutcomes
<1>2. CASE ReleaseAddress
  BY <1>2, InHand DEF ReleaseAddress
<1>3. CASE Unpublish
  BY <1>3, InHand DEF Unpublish
<1>4. CASE SetPower
  BY <1>4, InHand DEF SetPower, Target
<1>5. CASE Powered
  BY <1>5, InHand DEF Powered, SetRequest, Put, Target, AfterPower
<1>6. CASE SetupSkip \/ SetupBegin \/ SetupDone \/ SetupFail
  BY <1>6, InHand DEF SetupSkip, SetupBegin, SetupDone, SetupFail, SetSetup
<1>7. CASE SetupSteps
  BY <1>7, InHand DEF SetupSteps
<1> QED
  BY <1>1, <1>2, <1>3, <1>4, <1>5, <1>6, <1>7 DEF TearingDown, Powering, SettingUp

LEMMA EndingKeepsWorkerInv ==
  ASSUME WorkerInv, Ending
  PROVE  WorkerInv'
<1> USE DEF GoTo, rowVars, worldVars, planeVars
<1>1. CASE EnqueueRecipe
  <2>1. CASE WantsSetup(req) /\ ~Active(req, "setup")
    BY <1>1, <2>1, InHand, InsertKeepsWorkerInv
       DEF EnqueueRecipe, EnqueueSetupIfPending, WorkerInv, TypeOK, PlaneTypeOK
  <2>2. CASE UNCHANGED jobs
    BY <1>1, <2>2, InHand DEF EnqueueRecipe, WorkerInv, HoldsLease, TypeOK,
       PlaneTypeOK, WorkerTypeOK, InHandler, verb
  <2> QED
    BY <1>1, <2>1, <2>2 DEF EnqueueRecipe, EnqueueSetupIfPending
<1>2. CASE Mark
  BY <1>2, InHand DEF Mark, MarkBuilt, WorkerInv, HoldsLease, TypeOK, PlaneTypeOK,
     WorkerTypeOK, InHandler, verb
<1>3. CASE Finish
  BY <1>3, SettleKeepsWorkerInv DEF Finish, JobStatuses
<1>4. CASE Retry
  <2>1. CASE Exhausted
    BY <1>4, <2>1, InHand DEF Retry, WorkerInv, HoldsLease, TypeOK, PlaneTypeOK,
       WorkerTypeOK, InHandler, verb
  <2>2. CASE ~Exhausted
    BY <1>4, <2>2, SettleKeepsWorkerInv DEF Retry, JobStatuses
  <2> QED
    BY <2>1, <2>2
<1>5. CASE Park
  BY <1>5, InHand DEF Park, SetRequest, Put, WorkerInv, HoldsLease, TypeOK,
     PlaneTypeOK, WorkerTypeOK, InHandler, verb, req
<1> QED
  BY <1>1, <1>2, <1>3, <1>4, <1>5 DEF Ending

LEMMA FaultsKeepWorkerInv ==
  ASSUME WorkerInv, WorkerFault
  PROVE  WorkerInv'
<1> USE FaultsAssumption DEF rowVars, worldVars, planeVars, WorkerInv, HoldsLease,
        TypeOK, PlaneTypeOK, WorkerTypeOK, InHandler, verb
<1>1. CASE SetupInterrupted
  <2>1. jobs' \in Seq(Job)
    BY <1>1, InHand, RestatedJob DEF SetupInterrupted, JobStatuses
  <2> QED
    BY <1>1, <2>1 DEF SetupInterrupted
<1>2. CASE DbError
  BY <1>2 DEF DbError, InsideAttempt, DbPoints
<1>3. CASE Crash
  BY <1>3 DEF Crash
<1> QED
  BY <1>1, <1>2, <1>3 DEF WorkerFault

LEMMA WorkerInvStep ==
  ASSUME WorkerInv, [Next]_vars
  PROVE  WorkerInv'
<1>1. CASE UNCHANGED vars
  BY <1>1 DEF vars, planeVars, workerVars, rowVars, worldVars, WorkerInv,
     HoldsLease, TypeOK, PlaneTypeOK, WorkerTypeOK, InHandler, verb
<1> QED
  BY <1>1, ApiKeepsWorkerInv, StartKeepsWorkerInv, BuildingKeepsWorkerInv,
     OtherHandlersKeepWorkerInv, EndingKeepsWorkerInv, FaultsKeepWorkerInv
     DEF Next, WorkerNext, WorkerStep

\* Every reachable state has its declared types.
THEOREM TypeCorrect == Spec => []TypeOK
<1>1. Spec => []WorkerInv
  BY WorkerInit_, WorkerInvStep, PTL DEF Spec
<1>2. WorkerInv => TypeOK
  BY DEF WorkerInv
<1> QED
  BY <1>1, <1>2, PTL

-----------------------------------------------------------------------------
(* The job queue *)

\* Each step of the API or of the worker adds one job, moves one, requeues the
\* leases of a dead worker, or leaves the table alone.
LEMMA InsertIsSubmit ==
  ASSUME NEW r \in Requests, NEW a \in Actions, InsertJob(r, a)
  PROVE  Queue!Next
<1>1. Queue!Submit(r, a)
  BY DEF InsertJob, Active, HasJob, Queue!Submit, Queue!Active, Queue!NewJob,
         Queue!ActiveStatuses
<1> QED
  BY <1>1 DEF Queue!Next

LEMMA SettleIsRelease ==
  ASSUME WorkerInv, pc \in Busy, NEW s \in {"queued", "done", "failed"},
         jobs' = [jobs EXCEPT ![cur].status = s]
  PROVE  Queue!Next
<1>1. Queue!Release(cur, s) /\ cur \in DOMAIN jobs
  BY InHand DEF Queue!Release
<1> QED
  BY <1>1 DEF Queue!Next

LEMMA ApiRefinesQueue ==
  ASSUME WorkerInv, ApiNext, UNCHANGED workerVars
  PROVE  [Queue!Next]_jobs
<1> SUFFICES ASSUME NEW r \in Requests,
                    \/ Create(r) \/ Approve(r) \/ Reject(r) \/ Cancel(r)
                    \/ \E act \in {"stop", "start"} : Power(r, act)
                    \/ RetryProvision(r) \/ RetrySetup(r) \/ ReadPassword(r)
             PROVE  [Queue!Next]_jobs
  BY DEF ApiNext
<1>1. CASE Create(r) \/ Reject(r) \/ ReadPassword(r)
  BY <1>1 DEF Create, Reject, ReadPassword
<1>2. CASE Approve(r)
  BY <1>2, InsertIsSubmit DEF Approve
<1>3. CASE Cancel(r)
  BY <1>3, InsertIsSubmit DEF Cancel
<1>4. ASSUME NEW act \in {"stop", "start"}, Power(r, act) PROVE Queue!Next
  BY <1>4, InsertIsSubmit DEF Power
<1>5. CASE RetryProvision(r) \/ RetrySetup(r)
  BY <1>5, InsertIsSubmit DEF RetryProvision, RetrySetup
<1> QED
  BY <1>1, <1>2, <1>3, <1>4, <1>5

LEMMA WorkerRefinesQueue ==
  ASSUME WorkerInv, WorkerNext
  PROVE  [Queue!Next]_jobs
<1> USE DEF planeVars
<1>1. CASE Boot
  BY <1>1 DEF Boot, RequeueLeased, Queue!Next, Queue!Recover
<1>2. CASE Lease
  <2>1. PICK j \in DOMAIN jobs : Oldest(j) /\ jobs' = [jobs EXCEPT ![j] = Leased(@)]
    BY <1>2 DEF Lease
  <2>2. DOMAIN jobs = 1 .. Len(jobs) /\ Len(jobs) \in Nat
    BY JobRows DEF WorkerInv, TypeOK, PlaneTypeOK
  <2>3. \A i \in DOMAIN jobs : i < j => jobs[i].status # "queued"
    BY <2>1, <2>2 DEF Oldest
  <2>4. Leased(jobs[j]) = Queue!Taken(jobs[j])
    BY DEF Leased, Attempted, Queue!Taken
  <2>5. Queue!Lease(j)
    BY <2>1, <2>3, <2>4 DEF Oldest, Queue!Lease
  <2> QED
    BY <2>5 DEF Queue!Next
<1>3. CASE Load \/ Building \/ TearingDown \/ Powering \/ SettingUp
  BY <1>3 DEF Load, Building, Claim, ProjectFails, Clean, Mint, Launch, LaunchFails,
     Booted, Access, Assign, Publish, Ready, Promote, TearingDown, Destroy,
     ReleaseAddress, Unpublish, Powering, SetPower, Powered, SettingUp, SetupSkip,
     SetupBegin, SetupSteps, SetupDone, SetupFail
<1>4. CASE EnqueueRecipe
  BY <1>4, InHand, InsertIsSubmit DEF EnqueueRecipe, EnqueueSetupIfPending
<1>5. CASE Mark \/ Park
  BY <1>5 DEF Mark, Park
<1>6. CASE Finish
  BY <1>6, SettleIsRelease DEF Finish, Settle
<1>7. CASE Retry
  BY <1>7, SettleIsRelease DEF Retry, Settle
<1>8. CASE SetupInterrupted
  BY <1>8, SettleIsRelease DEF SetupInterrupted
<1>9. CASE DbError \/ Crash
  BY <1>9 DEF DbError, Crash
<1> QED
  BY <1>1, <1>2, <1>3, <1>4, <1>5, <1>6, <1>7, <1>8, <1>9
     DEF WorkerNext, WorkerStep, WorkerFault, Ending

\* The provisioning system implements the abstract job queue, for any number
\* of requests, attempts, restarts and failed statements (leaseJob, finishJob,
\* requeue, requeueLeased, the inserts of requests.ts and the partial index).
THEOREM QueueImplemented == Spec => ImplementsQueue
<1>1. Init => Queue!Init
  BY DEF Init, PlaneInit, Queue!Init
<1>2. ASSUME WorkerInv, [Next]_vars PROVE [Queue!Next]_jobs
  <2>1. CASE UNCHANGED vars
    BY <2>1 DEF vars, planeVars
  <2> QED
    BY <1>2, <2>1, ApiRefinesQueue, WorkerRefinesQueue DEF Next
<1>3. Spec => []WorkerInv
  BY WorkerInit_, WorkerInvStep, PTL DEF Spec
<1> QED
  BY <1>1, <1>2, <1>3, PTL DEF Spec, ImplementsQueue, Queue!Spec

-----------------------------------------------------------------------------
(* Safety *)

USE DEF Statuses, SetupStatuses, Actions, InstanceStates, Busy, Points,
        ProvisionPoints, TeardownPoints, PowerPoints, SetupPoints, EndPoints,
        JobStatuses

\* The types the leaves below need, and the job in hand.
LEMMA Typed ==
  ASSUME WorkerInv
  PROVE  /\ status \in [Requests -> Statuses]
         /\ setup \in [Requests -> SetupStatuses]
         /\ instance \in [Requests -> InstanceStates]
         /\ jobs \in Seq(Job)
         /\ DOMAIN jobs = 1 .. Len(jobs) /\ Len(jobs) \in Nat
         /\ \A j \in DOMAIN jobs : jobs[j] \in Job
BY JobRows DEF WorkerInv, TypeOK, PlaneTypeOK

LEMMA NoRows == DOMAIN << >> = {}
OBVIOUS

\* The jobs a transaction or a handler adds have the key it names.
LEMMA InsertedKeys ==
  ASSUME WorkerInv, NEW r \in Requests, NEW a \in Actions, InsertJob(r, a)
  PROVE  \A j \in DOMAIN jobs' : \/ j \in DOMAIN jobs /\ jobs'[j] = jobs[j]
                                \/ /\ jobs'[j].req = r /\ jobs'[j].action = a
                                   /\ jobs'[j].status = "queued"
<1>1. jobs \in Seq(Job)
  BY Typed
<1>2. /\ DOMAIN jobs' = DOMAIN jobs \cup {Len(jobs) + 1}
      /\ \A i \in DOMAIN jobs : jobs'[i] = jobs[i]
      /\ jobs'[Len(jobs) + 1] = [req |-> r, action |-> a, status |-> "queued",
                                 attempts |-> 0]
  BY <1>1, AddedJob
<1> QED
  BY <1>2

\* The steps that move jobs keep their keys.
LEMMA MovedKeys ==
  ASSUME WorkerInv,
         \/ Boot \/ Lease \/ SetupInterrupted
         \/ pc \in Busy /\ \E s \in JobStatuses : Settle(s)
  PROVE  /\ DOMAIN jobs' = DOMAIN jobs
         /\ \A j \in DOMAIN jobs : /\ jobs'[j].req = jobs[j].req
                                  /\ jobs'[j].action = jobs[j].action
<1>1. CASE Boot
  BY <1>1, Typed, RequeuedJobs DEF Boot
<1>2. CASE Lease
  <2>1. PICK j \in DOMAIN jobs : jobs' = [jobs EXCEPT ![j] = Leased(@)]
    BY <1>2 DEF Lease
  <2> QED
    BY <2>1, Typed, LeasedJob
<1>3. CASE SetupInterrupted
  BY <1>3, Typed, InHand, RestatedJob DEF SetupInterrupted
<1>4. ASSUME pc \in Busy, NEW s \in JobStatuses, Settle(s)
      PROVE  /\ DOMAIN jobs' = DOMAIN jobs
             /\ \A j \in DOMAIN jobs : /\ jobs'[j].req = jobs[j].req
                                      /\ jobs'[j].action = jobs[j].action
  BY <1>4, Typed, InHand, RestatedJob DEF Settle
<1> QED
  BY <1>1, <1>2, <1>3, <1>4

-----------------------------------------------------------------------------
(* Nothing is spent before an operator approves *)

Untouched(r) ==
  /\ \A j \in DOMAIN jobs : jobs[j].req # r
  /\ instance[r] = "absent"
  /\ r \notin named \cup assigned \cup aaaa \cup routes \cup secret \cup ipv6

ApprovalInv == \A r \in Requests : status[r] \in Deciding => Untouched(r)

\* The worker only handles requests that were approved.
LEMMA OnApproved ==
  ASSUME WorkerInv, ApprovalInv, pc \in Busy
  PROVE  status[req] \notin Deciding /\ req \in Requests
BY InHand DEF ApprovalInv, Untouched, req

\* At most a job for r is new in the table.
Added(r) == \A j \in DOMAIN jobs' : \/ jobs'[j].req = r
                                    \/ j \in DOMAIN jobs /\ jobs'[j].req = jobs[j].req

LEMMA ApprovalApi ==
  ASSUME WorkerInv, ApprovalInv, ApiNext
  PROVE  ApprovalInv'
<1> USE Typed DEF ApprovalInv, Untouched, Deciding, rowVars, worldVars
<1> SUFFICES ASSUME NEW r \in Requests,
                    \/ Create(r) \/ Approve(r) \/ Reject(r) \/ Cancel(r)
                    \/ \E act \in {"stop", "start"} : Power(r, act)
                    \/ RetryProvision(r) \/ RetrySetup(r) \/ ReadPassword(r)
             PROVE  ApprovalInv'
  BY DEF ApiNext
<1>1. CASE Create(r) \/ Reject(r)
  BY <1>1 DEF Create, Reject, Decidable
<1>2. CASE Approve(r)
  <2>1. Added(r)
    BY <1>2, InsertedKeys DEF Approve, Added
  <2> QED
    BY <1>2, <2>1 DEF Approve, Decidable, Added
<1>3. CASE Cancel(r)
  <2>1. Added(r)
    BY <1>3, InsertedKeys DEF Cancel, Added
  <2> QED
    BY <1>3, <2>1 DEF Cancel, Added
<1>4. ASSUME NEW act \in {"stop", "start"}, Power(r, act) PROVE ApprovalInv'
  <2>1. Added(r)
    BY <1>4, InsertedKeys DEF Power, Added
  <2> QED
    BY <1>4, <2>1 DEF Power, PowerFrom, Added
<1>5. CASE RetryProvision(r)
  <2>1. Added(r)
    BY <1>5, InsertedKeys DEF RetryProvision, Added
  <2> QED
    BY <1>5, <2>1 DEF RetryProvision, Retryable, Added
<1>6. CASE RetrySetup(r)
  <2>1. Added(r)
    BY <1>6, InsertedKeys DEF RetrySetup, Added
  <2> QED
    BY <1>6, <2>1 DEF RetrySetup, Added
<1>7. CASE ReadPassword(r)
  BY <1>7 DEF ReadPassword
<1> QED
  BY <1>1, <1>2, <1>3, <1>4, <1>5, <1>6, <1>7

LEMMA ApprovalWorker ==
  ASSUME WorkerInv, ApprovalInv, WorkerNext
  PROVE  ApprovalInv'
<1> USE Typed, OnApproved DEF ApprovalInv, Untouched, Deciding, GoTo, rowVars, worldVars, planeVars
<1>1. CASE Boot
  BY <1>1, RequeuedJobs DEF Boot, LiveWithAddress
<1>2. CASE Lease
  <2>1. /\ DOMAIN jobs' = DOMAIN jobs
        /\ \A j \in DOMAIN jobs : jobs'[j].req = jobs[j].req
    BY <1>2, MovedKeys
  <2> QED
    BY <1>2, <2>1 DEF Lease
<1>3. CASE Load
  BY <1>3 DEF Load
<1>4. CASE Claim \/ ProjectFails
  BY <1>4 DEF Claim, ProjectFails, SetRequest, Put
<1>5. CASE Clean \/ Mint \/ Launch \/ LaunchFails
  BY <1>5 DEF Clean, Mint, StoredSecrets, Launch, LaunchFails
<1>6. CASE Booted \/ Access \/ Assign \/ Publish \/ Ready
  BY <1>6 DEF Booted, Access, Assign, Publish, Ready
<1>7. CASE Promote
  BY <1>7 DEF Promote, SetRequest, Put
<1>8. CASE TearingDown
  BY <1>8 DEF TearingDown, Destroy, ReleaseAddress, Unpublish
<1>9. CASE Powering
  BY <1>9 DEF Powering, SetPower, Powered, SetRequest, Put, Target
<1>10. CASE SettingUp
  BY <1>10 DEF SettingUp, SetupSkip, SetupBegin, SetupSteps, SetupDone,
     SetupFail, SetSetup
<1>11. CASE EnqueueRecipe
  BY <1>11, InsertedKeys DEF EnqueueRecipe, EnqueueSetupIfPending
<1>12. CASE Mark
  BY <1>12 DEF Mark
<1>13. CASE Finish \/ Retry
  <2>1. UNCHANGED jobs \/ \E s \in JobStatuses : Settle(s)
    BY <1>13 DEF Finish, Retry
  <2>2. pc \in Busy /\ UNCHANGED <<rowVars, assigned, worldVars, delivered>>
    BY <1>13 DEF Finish, Retry
  <2>3. /\ DOMAIN jobs' = DOMAIN jobs
        /\ \A j \in DOMAIN jobs : jobs'[j].req = jobs[j].req
    BY <2>1, <2>2, MovedKeys
  <2> QED
    BY <2>2, <2>3
<1>14. CASE Park
  BY <1>14 DEF Park, SetRequest, Put
<1>15. CASE SetupInterrupted
  BY <1>15, MovedKeys DEF SetupInterrupted
<1>16. CASE DbError \/ Crash
  BY <1>16 DEF DbError, Crash
<1> QED
  BY <1>1, <1>2, <1>3, <1>4, <1>5, <1>6, <1>7, <1>8, <1>9, <1>10, <1>11, <1>12,
     <1>13, <1>14, <1>15, <1>16
     DEF WorkerNext, WorkerStep, WorkerFault, Building, Ending

LEMMA ApprovalAlways == Spec => [](WorkerInv /\ ApprovalInv)
<1>1. Init => ApprovalInv
  BY NoRows DEF Init, PlaneInit, ApprovalInv, Untouched
<1>2. ASSUME WorkerInv, ApprovalInv, [Next]_vars PROVE ApprovalInv'
  <2>1. CASE UNCHANGED vars
    BY <2>1, <1>2 DEF vars, planeVars, rowVars, worldVars, ApprovalInv, Untouched
  <2> QED
    BY <1>2, <2>1, ApprovalApi, ApprovalWorker DEF Next
<1> QED
  BY <1>1, <1>2, WorkerInit_, WorkerInvStep, PTL DEF Spec

\* No job, instance, address or record ever exists for a request that no
\* operator approved (decideRequest).
THEOREM NothingBeforeApproval == Spec => []UnapprovedUsesNothing
<1>1. ApprovalInv => UnapprovedUsesNothing
  BY DEF ApprovalInv, Untouched, UnapprovedUsesNothing
<1> QED
  BY <1>1, ApprovalAlways, PTL

-----------------------------------------------------------------------------
(* A request waiting to be built has a job *)

UnderWay   == {r \in Requests : Active(r, "provision")}
SeenFailed == {r \in Requests : HasJob(r, "provision", {"failed"})}

Tracked == \A r \in Requests :
             /\ status[r] = "approved" => r \in UnderWay \cup SeenFailed
             /\ status[r] = "provisioning" => r \in UnderWay

BuildInv ==
  /\ Tracked
  /\ pc = "giveUp" /\ verb = "provision" => status[req] # "provisioning"
  /\ pc \in {"recipe", "mark", "complete", "skip"} /\ verb = "provision"
       => status[req] \notin {"approved", "provisioning"}

\* No provision job ends, and failed ones stay.
BuildsKept == UnderWay \subseteq UnderWay' /\ SeenFailed \subseteq SeenFailed'

LEMMA InsertKeepsBuilds ==
  ASSUME WorkerInv, NEW r \in Requests, NEW a \in Actions, InsertJob(r, a)
  PROVE  /\ BuildsKept
         /\ a = "provision" => r \in UnderWay'
         /\ pc \in Busy => jobs'[cur] = jobs[cur]
<1>1. jobs \in Seq(Job)
  BY Typed
<1>2. /\ DOMAIN jobs' = DOMAIN jobs \cup {Len(jobs) + 1}
      /\ \A i \in DOMAIN jobs : jobs'[i] = jobs[i]
      /\ jobs'[Len(jobs) + 1] = [req |-> r, action |-> a, status |-> "queued",
                                 attempts |-> 0]
  BY <1>1, AddedJob
<1> QED
  BY <1>2, InHand DEF BuildsKept, UnderWay, SeenFailed, Active, HasJob, req

LEMMA MovesKeepBuilds ==
  ASSUME WorkerInv, \/ Boot \/ Lease \/ SetupInterrupted
                    \/ pc \in Busy /\ Settle("queued")
  PROVE  BuildsKept
<1> USE DEF BuildsKept, UnderWay, SeenFailed, Active, HasJob
<1>1. CASE Boot
  BY <1>1, Typed, RequeuedJobs DEF Boot
<1>2. CASE Lease
  <2>1. PICK j \in DOMAIN jobs : Oldest(j) /\ jobs' = [jobs EXCEPT ![j] = Leased(@)]
    BY <1>2 DEF Lease
  <2>2. /\ DOMAIN jobs' = DOMAIN jobs
        /\ \A i \in DOMAIN jobs :
              /\ jobs'[i].req = jobs[i].req /\ jobs'[i].action = jobs[i].action
              /\ jobs'[i].status = IF i = j THEN "leased" ELSE jobs[i].status
    BY <2>1, Typed, LeasedJob
  <2> QED
    BY <2>1, <2>2 DEF Oldest
<1>3. CASE \/ SetupInterrupted
           \/ pc \in Busy /\ Settle("queued")
  <2>1. /\ DOMAIN jobs' = DOMAIN jobs /\ cur \in DOMAIN jobs
        /\ \A i \in DOMAIN jobs :
              /\ jobs'[i].req = jobs[i].req /\ jobs'[i].action = jobs[i].action
              /\ jobs'[i].status = IF i = cur THEN "queued" ELSE jobs[i].status
    BY <1>3, Typed, InHand, RestatedJob DEF SetupInterrupted, Settle
  <2> QED
    BY <1>3, <2>1, InHand DEF SetupInterrupted
<1> QED
  BY <1>1, <1>2, <1>3

LEMMA SettleOnBuilds ==
  ASSUME WorkerInv, pc \in Busy, NEW s \in {"done", "failed"}, Settle(s)
  PROVE  /\ SeenFailed \subseteq SeenFailed'
         /\ verb # "provision" => UnderWay \subseteq UnderWay'
         /\ UnderWay \ {req} \subseteq UnderWay'
         /\ s = "failed" /\ verb = "provision" => req \in SeenFailed'
<1>1. /\ DOMAIN jobs' = DOMAIN jobs /\ cur \in DOMAIN jobs
      /\ \A i \in DOMAIN jobs :
            /\ jobs'[i].req = jobs[i].req /\ jobs'[i].action = jobs[i].action
            /\ jobs'[i].status = IF i = cur THEN s ELSE jobs[i].status
  BY Typed, InHand, RestatedJob DEF Settle
<1> QED
  BY <1>1, InHand DEF UnderWay, SeenFailed, Active, HasJob, req, verb

\* The job in hand is one that is under way.
LEMMA InHandUnderWay ==
  ASSUME WorkerInv, pc \in Busy, verb = "provision"
  PROVE  req \in UnderWay
BY InHand DEF UnderWay, Active, HasJob, req, verb

LEMMA SameBuilds == ASSUME UNCHANGED jobs PROVE BuildsKept
BY DEF BuildsKept, UnderWay, SeenFailed, Active, HasJob

LEMMA BuildApi ==
  ASSUME WorkerInv, ApprovalInv, BuildInv, ApiNext, UNCHANGED workerVars
  PROVE  BuildInv'
<1> USE Typed DEF BuildInv, Tracked, BuildsKept, rowVars, worldVars, workerVars,
                  req, verb
<1> SUFFICES ASSUME NEW r \in Requests,
                    \/ Create(r) \/ Approve(r) \/ Reject(r) \/ Cancel(r)
                    \/ \E act \in {"stop", "start"} : Power(r, act)
                    \/ RetryProvision(r) \/ RetrySetup(r) \/ ReadPassword(r)
             PROVE  BuildInv'
  BY DEF ApiNext
<1>1. CASE Create(r) \/ Reject(r) \/ ReadPassword(r)
  BY <1>1, SameBuilds, InHand DEF Create, Reject, ReadPassword
<1>2. CASE Approve(r)
  BY <1>2, InsertKeepsBuilds, InHand, OnApproved DEF Approve, Decidable, Deciding
<1>3. CASE Cancel(r)
  BY <1>3, InsertKeepsBuilds, SameBuilds DEF Cancel
<1>4. ASSUME NEW act \in {"stop", "start"}, Power(r, act) PROVE BuildInv'
  BY <1>4, InsertKeepsBuilds DEF Power
<1>5. CASE RetryProvision(r)
  BY <1>5, InsertKeepsBuilds DEF RetryProvision
<1>6. CASE RetrySetup(r)
  BY <1>6, InsertKeepsBuilds DEF RetrySetup
<1> QED
  BY <1>1, <1>2, <1>3, <1>4, <1>5, <1>6

LEMMA BuildWorker ==
  ASSUME WorkerInv, BuildInv, WorkerNext
  PROVE  BuildInv'
<1> USE Typed, InHand DEF BuildInv, Tracked, BuildsKept, GoTo, rowVars, worldVars,
                          planeVars
<1>1. CASE Boot \/ Lease
  BY <1>1, MovesKeepBuilds DEF Boot, Lease
<1>2. CASE Load
  BY <1>2, SameBuilds, EntryOf DEF Load, ProvisionEntry, SetupEntry, Buildable, req, verb
<1>3. CASE Claim \/ ProjectFails
  BY <1>3, SameBuilds, InHandUnderWay DEF Claim, ProjectFails, SetRequest, InHandler,
     WorkerInv, req, verb
<1>4. CASE Clean \/ Mint \/ Launch \/ LaunchFails
  BY <1>4, SameBuilds DEF Clean, Mint, Launch, LaunchFails
<1>5. CASE Booted \/ Access \/ Assign \/ Publish \/ Ready
  BY <1>5, SameBuilds DEF Booted, Access, AfterAccess, Assign, Publish, Ready
<1>6. CASE Promote
  BY <1>6, SameBuilds DEF Promote, SetRequest, req, verb
<1>7. CASE TearingDown
  BY <1>7, SameBuilds DEF TearingDown, Destroy, ReleaseAddress, Unpublish, InHandler,
     WorkerInv, req, verb
<1>8. CASE Powering
  BY <1>8, SameBuilds DEF Powering, SetPower, Powered, SetRequest, Target, AfterPower,
     InHandler, WorkerInv, req, verb
<1>9. CASE SettingUp
  BY <1>9, SameBuilds DEF SettingUp, SetupSkip, SetupBegin, SetupSteps, SetupDone,
     SetupFail, SetSetup, InHandler, WorkerInv, req, verb
<1>10. CASE EnqueueRecipe
  BY <1>10, InsertKeepsBuilds, SameBuilds DEF EnqueueRecipe, EnqueueSetupIfPending, req, verb
<1>11. CASE Mark
  BY <1>11, SameBuilds DEF Mark, req, verb
<1>12. CASE Finish
  BY <1>12, SettleOnBuilds DEF Finish, Settle, Tracked, SeenFailed, UnderWay
<1>13. CASE Retry
  BY <1>13, MovesKeepBuilds, SameBuilds DEF Retry, Settle, req, verb
<1>14. CASE Park
  BY <1>14, SameBuilds, InHandUnderWay DEF Park, SetRequest, InHandler, WorkerInv, req, verb
<1>15. CASE SetupInterrupted
  BY <1>15, MovesKeepBuilds DEF SetupInterrupted
<1>16. CASE DbError \/ Crash
  BY <1>16, SameBuilds DEF DbError, Crash, req, verb
<1> QED
  BY <1>1, <1>2, <1>3, <1>4, <1>5, <1>6, <1>7, <1>8, <1>9, <1>10, <1>11, <1>12,
     <1>13, <1>14, <1>15, <1>16
     DEF WorkerNext, WorkerStep, WorkerFault, Building, Ending

\* A request waiting to be built always has its provision job under way or a
\* failed one an operator can see (decideRequest, failProvision, requeueLeased).
THEOREM BuildsAreTracked == Spec => []BuildIsTracked
<1>1. Init => BuildInv
  BY NoRows DEF Init, PlaneInit, WorkerInit, BuildInv, Tracked
<1>2. ASSUME WorkerInv, ApprovalInv, BuildInv, [Next]_vars PROVE BuildInv'
  <2>1. CASE UNCHANGED vars
    BY <2>1, <1>2, SameBuilds DEF vars, planeVars, rowVars, workerVars, BuildInv,
       Tracked, BuildsKept, req, verb
  <2> QED
    BY <1>2, <2>1, BuildApi, BuildWorker DEF Next
<1>3. BuildInv => BuildIsTracked
  BY DEF BuildInv, Tracked, BuildIsTracked, UnderWay, SeenFailed
<1> QED
  BY <1>1, <1>2, <1>3, ApprovalAlways, PTL DEF Spec

-----------------------------------------------------------------------------
(* The owner of a running box can log in *)

Accessible == secret \cup delivered

AccessInv ==
  /\ \A r \in Requests : status[r] \in {"running", "stopped"} => r \in Accessible
  /\ \A j \in DOMAIN jobs :
       jobs[j].action \in {"stop", "start"} => jobs[j].req \in Accessible
  /\ pc \in {"launch", "booted"} /\ req \in Vms => req \in Accessible
  /\ pc \in {"access", "assign", "publish", "ready", "promote"}
       => req \in Accessible

LEMMA AccessApi ==
  ASSUME WorkerInv, AccessInv, ApiNext, UNCHANGED workerVars
  PROVE  AccessInv'
<1> USE Typed, InHand DEF AccessInv, Accessible, rowVars, worldVars, workerVars, req
<1> SUFFICES ASSUME NEW r \in Requests,
                    \/ Create(r) \/ Approve(r) \/ Reject(r) \/ Cancel(r)
                    \/ \E act \in {"stop", "start"} : Power(r, act)
                    \/ RetryProvision(r) \/ RetrySetup(r) \/ ReadPassword(r)
             PROVE  AccessInv'
  BY DEF ApiNext
<1>1. CASE Create(r) \/ Reject(r) \/ ReadPassword(r)
  BY <1>1 DEF Create, Reject, ReadPassword
<1>2. CASE Approve(r)
  BY <1>2, InsertedKeys, InsertKeepsBuilds DEF Approve
<1>3. CASE Cancel(r)
  BY <1>3, InsertedKeys, InsertKeepsBuilds DEF Cancel
<1>4. ASSUME NEW act \in {"stop", "start"}, Power(r, act) PROVE AccessInv'
  BY <1>4, InsertedKeys, InsertKeepsBuilds DEF Power, PowerFrom
<1>5. CASE RetryProvision(r)
  BY <1>5, InsertedKeys, InsertKeepsBuilds DEF RetryProvision
<1>6. CASE RetrySetup(r)
  BY <1>6, InsertedKeys, InsertKeepsBuilds DEF RetrySetup
<1> QED
  BY <1>1, <1>2, <1>3, <1>4, <1>5, <1>6

LEMMA AccessWorker ==
  ASSUME WorkerInv, AccessInv, WorkerNext
  PROVE  AccessInv'
<1> USE Typed, InHand DEF AccessInv, Accessible, GoTo, rowVars, worldVars, planeVars, req
<1>1. CASE Boot \/ Lease
  <2>1. /\ DOMAIN jobs' = DOMAIN jobs
        /\ \A j \in DOMAIN jobs : /\ jobs'[j].req = jobs[j].req
                                 /\ jobs'[j].action = jobs[j].action
    BY <1>1, MovedKeys
  <2> QED
    BY <1>1, <2>1 DEF Boot, Lease
<1>2. CASE Load
  BY <1>2, EntryOf DEF Load, ProvisionEntry, SetupEntry
<1>3. CASE Claim
  BY <1>3 DEF Claim, SetRequest
<1>4. CASE ProjectFails \/ Clean \/ Launch \/ LaunchFails
  BY <1>4 DEF ProjectFails, Clean, Launch, LaunchFails
<1>5. CASE Mint
  BY <1>5 DEF Mint, StoredSecrets
<1>6. CASE Booted \/ Access \/ Assign \/ Publish \/ Ready
  BY <1>6 DEF Booted, Access, AfterAccess, Assign, Publish, Ready
<1>7. CASE Promote
  BY <1>7 DEF Promote, SetRequest
<1>8. CASE TearingDown
  BY <1>8 DEF TearingDown, Destroy, ReleaseAddress, Unpublish
<1>9. CASE Powering
  BY <1>9 DEF Powering, SetPower, Powered, SetRequest, Target, AfterPower, InHandler,
     WorkerInv, verb
<1>10. CASE SettingUp
  BY <1>10 DEF SettingUp, SetupSkip, SetupBegin, SetupSteps, SetupDone, SetupFail, SetSetup
<1>11. CASE EnqueueRecipe
  BY <1>11, InsertedKeys DEF EnqueueRecipe, EnqueueSetupIfPending
<1>12. CASE Mark
  BY <1>12 DEF Mark
<1>13. CASE Finish \/ Retry
  <2>1. UNCHANGED jobs \/ \E s \in JobStatuses : Settle(s)
    BY <1>13 DEF Finish, Retry
  <2>2. /\ pc \in Busy /\ UNCHANGED <<rowVars, assigned, worldVars, delivered>>
        /\ pc' \in {"park", "giveUp", "idle"}
    BY <1>13 DEF Finish, Retry, Settle
  <2>3. /\ DOMAIN jobs' = DOMAIN jobs
        /\ \A j \in DOMAIN jobs : /\ jobs'[j].req = jobs[j].req
                                 /\ jobs'[j].action = jobs[j].action
    BY <2>1, <2>2, MovedKeys
  <2> QED
    BY <2>2, <2>3
<1>14. CASE Park
  BY <1>14 DEF Park, SetRequest
<1>15. CASE SetupInterrupted
  BY <1>15, MovedKeys DEF SetupInterrupted
<1>16. CASE DbError \/ Crash
  BY <1>16 DEF DbError, Crash
<1> QED
  BY <1>1, <1>2, <1>3, <1>4, <1>5, <1>6, <1>7, <1>8, <1>9, <1>10, <1>11, <1>12,
     <1>13, <1>14, <1>15, <1>16
     DEF WorkerNext, WorkerStep, WorkerFault, Building, Ending

\* The password a running box was built with was stored and is either still
\* there or was read (setInstancePassword, readInstancePassword).
THEOREM OwnersHaveAccess == Spec => []OwnerHasAccess
<1>1. Init => AccessInv
  BY NoRows DEF Init, PlaneInit, WorkerInit, AccessInv
<1>2. ASSUME WorkerInv, AccessInv, [Next]_vars PROVE AccessInv'
  <2>1. CASE UNCHANGED vars
    BY <2>1, <1>2 DEF vars, planeVars, rowVars, workerVars, AccessInv, Accessible, req
  <2> QED
    BY <1>2, <2>1, AccessApi, AccessWorker DEF Next
<1>3. AccessInv => OwnerHasAccess
  BY DEF AccessInv, Accessible, OwnerHasAccess
<1> QED
  BY <1>1, <1>2, <1>3, WorkerInit_, WorkerInvStep, PTL DEF Spec

-----------------------------------------------------------------------------
(* A finished teardown leaves nothing behind *)

TeardownInv ==
  /\ pc \in {"release", "unpublish"} => instance[req] = "absent"
  /\ pc = "unpublish" => req \notin assigned
  /\ pc = "complete" /\ verb = "teardown" =>
       instance[req] = "absent" /\ req \notin assigned /\ (HasDns => req \notin aaaa)

LEMMA TeardownApi ==
  ASSUME WorkerInv, TeardownInv, ApiNext, UNCHANGED workerVars
  PROVE  TeardownInv' /\ \A j \in DOMAIN jobs : jobs'[j] = jobs[j]
<1>1. /\ UNCHANGED <<assigned, worldVars>>
      /\ UNCHANGED jobs \/ \E r \in Requests, a \in Actions : InsertJob(r, a)
  BY DEF ApiNext, Create, Approve, Reject, Cancel, Power, RetryProvision, RetrySetup,
         ReadPassword, rowVars
<1>2. \A j \in DOMAIN jobs : jobs'[j] = jobs[j]
  BY <1>1, Typed, AddedJob
<1> QED
  BY <1>1, <1>2, InHand DEF TeardownInv, worldVars, workerVars, req, verb

LEMMA TeardownWorker ==
  ASSUME WorkerInv, TeardownInv, WorkerNext
  PROVE  TeardownInv'
<1> USE Typed, InHand DEF TeardownInv, GoTo, rowVars, worldVars, planeVars, req, verb,
                          WorkerInv, InHandler
<1>1. CASE Boot \/ Lease \/ Finish \/ SetupInterrupted \/ Crash
  BY <1>1 DEF Boot, Lease, Finish, Settle, SetupInterrupted, Crash
<1>2. CASE Load
  BY <1>2, EntryOf DEF Load, ProvisionEntry, SetupEntry
<1>3. CASE Building
  BY <1>3 DEF Building, Claim, ProjectFails, Clean, Mint, Launch, LaunchFails, Booted,
     Access, AfterAccess, Assign, Publish, Ready, Promote
<1>4. CASE TearingDown
  BY <1>4 DEF TearingDown, Destroy, ConfirmedGone, ReleaseAddress, Unpublish
<1>5. CASE Powering \/ SettingUp
  BY <1>5 DEF Powering, SetPower, Powered, AfterPower, SettingUp, SetupSkip, SetupBegin,
     SetupSteps, SetupDone, SetupFail
<1>6. CASE EnqueueRecipe
  BY <1>6, InsertKeepsBuilds DEF EnqueueRecipe, EnqueueSetupIfPending
<1>7. CASE Mark \/ Retry \/ Park
  BY <1>7 DEF Mark, Retry, Settle, Park
<1>8. CASE DbError
  BY <1>8 DEF DbError
<1> QED
  BY <1>1, <1>2, <1>3, <1>4, <1>5, <1>6, <1>7, <1>8
     DEF WorkerNext, WorkerStep, WorkerFault, Ending

\* Only the end of the job in hand makes a job done.
LEMMA OnlyFinishIsDone ==
  ASSUME WorkerInv, WorkerNext, NEW j \in DOMAIN jobs,
         jobs[j].status # "done", jobs'[j].status = "done"
  PROVE  j = cur /\ pc \in {"complete", "skip"}
<1> USE Typed, InHand DEF planeVars
<1>1. CASE Boot
  BY <1>1, RequeuedJobs DEF Boot
<1>2. CASE Lease
  <2>1. PICK i \in DOMAIN jobs : jobs' = [jobs EXCEPT ![i] = Leased(@)]
    BY <1>2 DEF Lease
  <2> QED
    BY <2>1, LeasedJob
<1>3. CASE Finish
  <2>1. PICK s \in JobStatuses : Settle(s) /\ (s = "done" => pc \in {"complete", "skip"})
    BY <1>3 DEF Finish
  <2>2. pc \in Busy
    BY <1>3 DEF Finish
  <2>3. jobs'[j].status = IF j = cur THEN s ELSE jobs[j].status
    BY <2>1, <2>2, RestatedJob DEF Settle
  <2> QED
    BY <2>1, <2>3
<1>4. CASE Retry \/ SetupInterrupted
  BY <1>4, RestatedJob DEF Retry, Settle, SetupInterrupted
<1>5. CASE EnqueueRecipe
  BY <1>5, AddedJob DEF EnqueueRecipe, EnqueueSetupIfPending
<1>6. CASE UNCHANGED jobs
  BY <1>6
<1> QED
  BY <1>1, <1>2, <1>3, <1>4, <1>5, <1>6
     DEF WorkerNext, WorkerStep, WorkerFault, Ending, Load, Building, Claim,
         ProjectFails, Clean, Mint, Launch, LaunchFails, Booted, Access, Assign,
         Publish, Ready, Promote, TearingDown, Destroy, ReleaseAddress, Unpublish,
         Powering, SetPower, Powered, SettingUp, SetupSkip, SetupBegin, SetupSteps,
         SetupDone, SetupFail, Mark, Park, DbError, Crash

\* A teardown job is done only when the instance, its address and its AAAA
\* record are gone, however often it failed half way before (teardown).
THEOREM TeardownsAreComplete == Spec => TeardownIsComplete
<1>1. Init => TeardownInv
  BY DEF Init, WorkerInit, TeardownInv
<1>2. ASSUME WorkerInv, TeardownInv, [Next]_vars PROVE TeardownInv'
  <2>1. CASE UNCHANGED vars
    BY <2>1, <1>2 DEF vars, planeVars, worldVars, workerVars, TeardownInv, req, verb
  <2> QED
    BY <1>2, <2>1, TeardownApi, TeardownWorker DEF Next
<1>3. ASSUME WorkerInv, TeardownInv, [Next]_vars, NEW j \in DOMAIN jobs,
             jobs[j].action = "teardown",
             jobs[j].status # "done", jobs'[j].status = "done"
      PROVE  LET r == jobs[j].req
             IN  instance[r] = "absent" /\ r \notin assigned /\ (HasDns => r \notin aaaa)
  <2>1. CASE UNCHANGED vars \/ (ApiNext /\ UNCHANGED workerVars)
    BY <1>3, <2>1, TeardownApi DEF vars, planeVars
  <2>2. CASE WorkerNext
    BY <1>3, <2>2, OnlyFinishIsDone DEF TeardownInv, WorkerInv, InHandler, req, verb
  <2> QED
    BY <1>3, <2>1, <2>2 DEF Next
<1>4. ASSUME WorkerInv, TeardownInv, [Next]_vars
      PROVE  [\A j \in DOMAIN jobs :
                /\ jobs[j].action = "teardown"
                /\ jobs[j].status # "done" /\ jobs'[j].status = "done"
                => LET r == jobs[j].req
                   IN  instance[r] = "absent" /\ r \notin assigned /\ (HasDns => r \notin aaaa)]_vars
  BY <1>3, <1>4
<1> QED
  BY <1>1, <1>2, <1>4, WorkerInit_, WorkerInvStep, PTL DEF Spec, TeardownIsComplete

-----------------------------------------------------------------------------
(* Leases *)

LeasedJobs == {j \in DOMAIN jobs : jobs[j].status = "leased"}
Stranded   == LeasedJobs \ {cur}

LeaseInv == /\ pc \in {"idle", "down"} => cur = 0
            /\ pc # "down" => IsFiniteSet(Stranded) /\ Cardinality(Stranded) <= dbErrors

\* Fewer stranded leases are no more than the errors that stranded them.
LEMMA FewerStranded ==
  ASSUME WorkerInv, LeaseInv, pc # "down", Stranded' \subseteq Stranded,
         dbErrors' = dbErrors
  PROVE  IsFiniteSet(Stranded') /\ Cardinality(Stranded') <= dbErrors'
<1>1. IsFiniteSet(Stranded) /\ Cardinality(Stranded) <= dbErrors /\ dbErrors \in Nat
  BY DEF LeaseInv, WorkerInv, TypeOK, WorkerTypeOK
<1>2. /\ IsFiniteSet(Stranded') /\ Cardinality(Stranded') <= Cardinality(Stranded)
      /\ Cardinality(Stranded) \in Nat /\ Cardinality(Stranded') \in Nat
  BY <1>1, FS_Subset, FS_CardinalityType
<1> QED
  BY <1>1, <1>2

LEMMA LeaseStep ==
  ASSUME WorkerInv, LeaseInv, [Next]_vars
  PROVE  LeaseInv'
<1> USE Typed, InHand
<1>1. CASE Boot
  <2>1. LeasedJobs' = {}
    BY <1>1, RequeuedJobs DEF Boot, LeasedJobs
  <2>2. Stranded' = {} /\ cur' = cur /\ dbErrors' = dbErrors /\ pc' = "idle" /\ pc = "down"
    BY <1>1, <2>1 DEF Stranded, Boot, GoTo
  <2>3. dbErrors \in Nat
    BY DEF WorkerInv, TypeOK, WorkerTypeOK
  <2> QED
    BY <2>2, <2>3, FS_EmptySet DEF LeaseInv
<1>2. CASE Lease
  <2>1. PICK j \in DOMAIN jobs : /\ Oldest(j) /\ cur' = j
                                 /\ jobs' = [jobs EXCEPT ![j] = Leased(@)]
    BY <1>2 DEF Lease
  <2>2. /\ DOMAIN jobs' = DOMAIN jobs
        /\ \A i \in DOMAIN jobs :
              jobs'[i].status = IF i = j THEN "leased" ELSE jobs[i].status
    BY <2>1, LeasedJob
  <2>3. Stranded' \subseteq Stranded
    BY <1>2, <2>1, <2>2 DEF Stranded, LeasedJobs, Lease, LeaseInv
  <2> QED
    BY <1>2, <2>3, FewerStranded DEF Lease, LeaseInv
<1>3. CASE DbError
  <2>1. /\ Stranded' \subseteq Stranded \cup {cur} /\ dbErrors' = dbErrors + 1
        /\ pc # "down" /\ (pc' = "idle" => cur' = 0) /\ pc' # "down"
    BY <1>3 DEF DbError, DbPoints, planeVars, Stranded, LeasedJobs
  <2>2. IsFiniteSet(Stranded) /\ Cardinality(Stranded) <= dbErrors /\ dbErrors \in Nat
    BY <2>1 DEF LeaseInv, WorkerInv, TypeOK, WorkerTypeOK
  <2>3. /\ IsFiniteSet(Stranded \cup {cur})
        /\ Cardinality(Stranded \cup {cur}) <= dbErrors + 1
    <3>1. Cardinality(Stranded) \in Nat
      BY <2>2, FS_CardinalityType
    <3>2. /\ IsFiniteSet(Stranded \cup {cur})
          /\ \/ Cardinality(Stranded \cup {cur}) = Cardinality(Stranded)
             \/ Cardinality(Stranded \cup {cur}) = Cardinality(Stranded) + 1
      BY <2>2, FS_AddElement
    <3> HIDE Typed, InHand
    <3> QED
      BY <2>2, <3>1, <3>2
  <2>4. IsFiniteSet(Stranded') /\ Cardinality(Stranded') <= Cardinality(Stranded \cup {cur})
    BY <2>1, <2>3, FS_Subset
  <2>5. Cardinality(Stranded') \in Nat /\ Cardinality(Stranded \cup {cur}) \in Nat
    BY <2>3, <2>4, FS_CardinalityType
  <2>6. Cardinality(Stranded') <= dbErrors'
    BY <2>1, <2>2, <2>3, <2>4, <2>5
  <2> QED
    BY <2>1, <2>4, <2>6 DEF LeaseInv
<1>4. CASE Crash \/ SetupInterrupted
  BY <1>4 DEF Crash, SetupInterrupted, LeaseInv
<1>5. CASE Finish \/ Retry
  <2>1. CASE UNCHANGED jobs
    <3>1. jobs[cur].status = "leased" /\ pc \in Busy /\ cur \in DOMAIN jobs
      BY <1>5 DEF Finish, Retry
    <3>2. ASSUME NEW s \in {"queued", "done", "failed"}, Settle(s) PROVE FALSE
      <4>1. jobs' = [jobs EXCEPT ![cur].status = s] /\ s \in JobStatuses
        BY <3>2 DEF Settle, JobStatuses
      <4>2. jobs'[cur].status = s
        <5>1. jobs \in Seq(Job)
          BY Typed
        <5>2. \A i \in DOMAIN jobs : jobs'[i].status = IF i = cur THEN s ELSE jobs[i].status
          BY <3>1, <4>1, <5>1, RestatedJob
        <5> HIDE Typed, InHand
        <5> QED
          BY <3>1, <5>2
      <4>3. s # "leased"
        OBVIOUS
      <4> HIDE Typed, InHand
      <4> QED
        BY <2>1, <3>1, <4>2, <4>3
    <3>3. pc' \in Busy /\ cur' = cur /\ dbErrors' = dbErrors
      BY <1>5, <3>2 DEF Finish, Retry, GoTo
    <3>4. Stranded' = Stranded
      BY <2>1, <3>3 DEF Stranded, LeasedJobs
    <3> QED
      BY <3>1, <3>3, <3>4, FewerStranded DEF LeaseInv
  <2>2. ASSUME NEW s \in JobStatuses, Settle(s), s # "leased" PROVE LeaseInv'
    <3>1. pc \in Busy
      BY <1>5 DEF Finish, Retry
    <3>2. /\ DOMAIN jobs' = DOMAIN jobs
          /\ \A i \in DOMAIN jobs :
                jobs'[i].status = IF i = cur THEN s ELSE jobs[i].status
      BY <2>2, <3>1, RestatedJob DEF Settle
    <3>3. Stranded' \subseteq Stranded
      BY <2>2, <3>2 DEF Stranded, LeasedJobs
    <3> QED
      BY <2>2, <3>1, <3>3, FewerStranded DEF Settle, LeaseInv
  <2> QED
    BY <1>5, <2>1, <2>2 DEF Finish, Retry, GoTo
<1>6. CASE \/ ApiNext /\ UNCHANGED workerVars
           \/ EnqueueRecipe
           \/ UNCHANGED vars
           \/ Load \/ Building \/ TearingDown \/ Powering \/ SettingUp \/ Mark \/ Park
  <2>1. \/ UNCHANGED jobs
        \/ \E r \in Requests, a \in Actions : InsertJob(r, a)
    BY <1>6 DEF vars, planeVars, ApiNext, Create, Approve, Reject, Cancel, Power,
       RetryProvision, RetrySetup, ReadPassword, rowVars, EnqueueRecipe,
       EnqueueSetupIfPending, Load, Building, Claim, ProjectFails, Clean, Mint, Launch,
       LaunchFails, Booted, Access, Assign, Publish, Ready, Promote, TearingDown, Destroy,
       ReleaseAddress, Unpublish, Powering, SetPower, Powered, SettingUp, SetupSkip,
       SetupBegin, SetupSteps, SetupDone, SetupFail, Mark, Park
  <2>2. LeasedJobs' \subseteq LeasedJobs
    BY <2>1, InsertedKeys DEF LeasedJobs
  <2>3. CASE UNCHANGED workerVars \/ UNCHANGED vars
    <3>1. pc' = pc /\ cur' = cur /\ dbErrors' = dbErrors
      BY <2>3 DEF vars, workerVars
    <3> QED
      BY <2>2, <3>1, FewerStranded DEF LeaseInv, Stranded
  <2>4. CASE ~(UNCHANGED workerVars \/ UNCHANGED vars)
    <3>1. pc \in Busy /\ cur' = cur /\ dbErrors' = dbErrors
      BY <1>6, <2>4 DEF GoTo, EnqueueRecipe, Load, Building, Claim, ProjectFails, Clean,
         Mint, Launch, LaunchFails, Booted, Access, Assign, Publish, Ready, Promote,
         TearingDown, Destroy, ReleaseAddress, Unpublish, Powering, SetPower, Powered,
         SettingUp, SetupSkip, SetupBegin, SetupSteps, SetupDone, SetupFail, Mark, Park
    <3>2. pc' \in Busy
      <4>1. CASE Load
        BY <4>1, EntryOf DEF Load, ProvisionEntry, SetupEntry
      <4>2. CASE EnqueueRecipe \/ Building \/ TearingDown \/ Powering \/ SettingUp \/ Mark \/ Park
        BY <4>2 DEF GoTo, EnqueueRecipe, Building, Claim, ProjectFails, Clean, Mint,
           Launch, LaunchFails, Booted, Access, Assign, AfterAccess, Publish, Ready,
           Promote, TearingDown, Destroy, ReleaseAddress, Unpublish, Powering, SetPower,
           Powered, AfterPower, SettingUp, SetupSkip, SetupBegin, SetupSteps, SetupDone,
           SetupFail, Mark, Park
      <4> QED
        BY <1>6, <2>4, <4>1, <4>2
    <3> QED
      BY <2>2, <3>1, <3>2, FewerStranded DEF LeaseInv, Stranded
  <2> QED
    BY <2>3, <2>4
<1> QED
  BY <1>1, <1>2, <1>3, <1>4, <1>5, <1>6
     DEF Next, WorkerNext, WorkerStep, WorkerFault, Ending

\* The worker only acts under a lease it holds, and every other leased job was
\* stranded by a failed statement of its own (leaseJob, tick).
THEOREM LeasesHeld == Spec => []LeasesAreHeld
<1>1. Init => LeaseInv
  BY DEF Init, WorkerInit, LeaseInv
<1>2. WorkerInv /\ LeaseInv => LeasesAreHeld
  BY DEF WorkerInv, HoldsLease, LeaseInv, LeasesAreHeld, Stranded, LeasedJobs
<1> QED
  BY <1>1, <1>2, LeaseStep, WorkerInit_, WorkerInvStep, PTL DEF Spec

-----------------------------------------------------------------------------
(* Attribution *)

\* Requests that were promoted to running at some time.
Promoted == {r \in Requests : \/ status[r] \in {"running", "stopped"}
                              \/ \E j \in DOMAIN jobs : /\ jobs[j].req = r
                                                        /\ jobs[j].action \in {"stop", "start"}}

\* An attempt that may still park its request is not of a promoted one.
Attempting == \/ pc \in ProvisionPoints \cup {"park"}
              \/ pc = "retry" /\ verb = "provision"

Attached(r) ==
  /\ HasIPv6 => r \in assigned
  /\ HasIPv6 /\ HasDns => r \in aaaa
  /\ r \in Desktops => r \in routes

PromotionInv ==
  /\ \A r \in Promoted : /\ status[r] \in {"running", "stopped", "deleted"}
                         /\ instance[r] # "absent" => Attached(r)
  /\ Attempting => req \notin Promoted

\* How far the attempt in hand has come.
ProgressInv ==
  /\ pc \in {"booted", "access", "assign", "publish", "ready", "promote"}
       => instance[req] = "running"
  /\ pc = "mint" /\ req \notin Vms => instance[req] = "running"
  /\ pc \in {"publish", "ready", "promote"} /\ HasIPv6 => req \in assigned
  /\ pc \in {"ready", "promote"} /\ HasIPv6 /\ HasDns => req \in aaaa
  /\ pc = "promote" /\ req \in Desktops => req \in routes
  /\ pc = "powered" => instance[req] = Target
  /\ pc \in {"release", "unpublish"} => instance[req] = "absent"

AttributionInv == PromotionInv /\ ProgressInv

SoundUntilError == dbErrors = 0 => AttributionInv

\* Steps that promote nothing and take nothing away.
LEMMA InsertPromotes ==
  ASSUME WorkerInv, NEW r \in Requests, NEW a \in Actions, InsertJob(r, a),
         a \in {"stop", "start"} => r \in Promoted,
         \A x \in Requests : status'[x] \in {"running", "stopped"} =>
                               status[x] \in {"running", "stopped"}
  PROVE  Promoted' \subseteq Promoted
BY InsertedKeys DEF Promoted

LEMMA MovesPromote ==
  ASSUME WorkerInv, \/ Boot \/ Lease \/ SetupInterrupted
                    \/ pc \in Busy /\ \E s \in JobStatuses : Settle(s),
         UNCHANGED status
  PROVE  Promoted' \subseteq Promoted
BY MovedKeys DEF Promoted

LEMMA KeepsPromoted ==
  ASSUME UNCHANGED jobs,
         \A x \in Requests : status'[x] \in {"running", "stopped"} =>
                               status[x] \in {"running", "stopped"}
  PROVE  Promoted' \subseteq Promoted
BY DEF Promoted

LEMMA AttributionApi ==
  ASSUME WorkerInv, AttributionInv, ApiNext, UNCHANGED workerVars
  PROVE  AttributionInv'
<1>1. PICK r \in Requests : \/ Create(r) \/ Approve(r) \/ Reject(r) \/ Cancel(r)
                            \/ \E act \in {"stop", "start"} : Power(r, act)
                            \/ RetryProvision(r) \/ RetrySetup(r) \/ ReadPassword(r)
  BY DEF ApiNext
<1>2. /\ \A x \in Requests : status'[x] \in {"running", "stopped"} =>
                               status[x] \in {"running", "stopped"}
      /\ UNCHANGED <<assigned, worldVars>>
  BY <1>1, Typed DEF Create, Approve, Reject, Cancel, Power, RetryProvision,
     RetrySetup, ReadPassword, rowVars
<1>3. \/ UNCHANGED jobs
      \/ \E a \in Actions : InsertJob(r, a) /\ (a \in {"stop", "start"} => r \in Promoted)
  BY <1>1 DEF Create, Approve, Reject, Cancel, Power, PowerFrom, RetryProvision,
     RetrySetup, ReadPassword, Promoted
<1>4. Promoted' \subseteq Promoted
  BY <1>2, <1>3, InsertPromotes, KeepsPromoted
<1>5. pc \in Busy => jobs'[cur] = jobs[cur]
  BY <1>3, InsertKeepsBuilds
<1>6. \A x \in Promoted' : status'[x] \in {"running", "stopped", "deleted"}
  BY <1>1, <1>4, Typed DEF AttributionInv, PromotionInv, Create, Approve, Decidable,
     Reject, Cancel, Power, RetryProvision, RetrySetup, ReadPassword, rowVars, Promoted
<1>7. PromotionInv'
  BY <1>2, <1>4, <1>5, <1>6 DEF AttributionInv, PromotionInv, Attempting, Attached,
     workerVars, worldVars, req, verb
<1>8. ProgressInv'
  BY <1>2, <1>5 DEF AttributionInv, ProgressInv, Target, workerVars, worldVars, req, verb
<1> QED
  BY <1>7, <1>8 DEF AttributionInv

LEMMA AttributionWorker ==
  ASSUME WorkerInv, AttributionInv, WorkerNext, ~DbError
  PROVE  AttributionInv'
<1> USE Typed, InHand DEF AttributionInv, PromotionInv, ProgressInv, Attempting,
        Attached, Target, GoTo, rowVars, worldVars, planeVars, req, verb, WorkerInv,
        InHandler
<1>1. CASE Boot \/ Lease
  BY <1>1, MovesPromote DEF Boot, Lease
<1>2. CASE Load
  BY <1>2, KeepsPromoted, EntryOf DEF Load, ProvisionEntry, SetupEntry, Buildable
<1>3. CASE Claim \/ ProjectFails
  <2>1. Promoted' \subseteq Promoted
    BY <1>3, KeepsPromoted DEF Claim, ProjectFails, SetRequest
  <2>2. \A x \in Promoted' : status'[x] = status[x]
    <3>1. Promoted \subseteq Requests
      BY DEF Promoted
    <3> QED
      BY <1>3, <2>1, <3>1 DEF Claim, ProjectFails, SetRequest
  <2>3. PromotionInv'
    BY <1>3, <2>1, <2>2 DEF Claim, ProjectFails
  <2>4. ProgressInv'
    BY <1>3 DEF Claim, ProjectFails
  <2> QED
    BY <2>3, <2>4
<1>4. CASE Clean \/ Mint \/ Launch \/ LaunchFails
  <2>1. Promoted' \subseteq Promoted /\ UNCHANGED <<jobs, status, assigned, aaaa, routes>>
    BY <1>4, KeepsPromoted DEF Clean, Mint, Launch, LaunchFails
  <2>2. \A x \in Promoted' : instance'[x] = instance[x]
    BY <1>4, <2>1 DEF Clean, Mint, Launch, LaunchFails, Promoted
  <2>3. PromotionInv'
    BY <1>4, <2>1, <2>2 DEF Clean, Mint, Launch, LaunchFails
  <2>4. ProgressInv'
    <3>1. CASE Clean \/ LaunchFails
      BY <1>4, <3>1 DEF Clean, LaunchFails
    <3>2. CASE Mint
      BY <1>4, <3>2 DEF Mint
    <3>3. CASE Launch
      BY <1>4, <3>3 DEF Launch
    <3> QED
      BY <1>4, <3>1, <3>2, <3>3
  <2> QED
    BY <2>3, <2>4
<1>5. CASE Booted \/ Access \/ Assign
  BY <1>5, KeepsPromoted DEF Booted, Access, AfterAccess, Assign
<1>6. CASE Publish \/ Ready
  BY <1>6, KeepsPromoted DEF Publish, Ready
<1>7. CASE Promote
  <2>1. Promoted' \subseteq Promoted \cup {req}
    BY <1>7 DEF Promote, SetRequest, Promoted
  <2> QED
    BY <1>7, <2>1 DEF Promote, SetRequest
<1>8. CASE Destroy
  BY <1>8, KeepsPromoted DEF Destroy, ConfirmedGone, DeleteOutcomes
<1>9. CASE ReleaseAddress \/ Unpublish
  BY <1>9, KeepsPromoted DEF ReleaseAddress, Unpublish
<1>10. CASE SetPower
  <2>1. Promoted' \subseteq Promoted /\ UNCHANGED <<jobs, status, assigned, aaaa, routes>>
    BY <1>10, KeepsPromoted DEF SetPower
  <2>2. \A x \in Requests : instance'[x] # "absent" => instance[x] # "absent"
    BY <1>10 DEF SetPower
  <2>3. PromotionInv'
    BY <1>10, <2>1, <2>2 DEF SetPower, Promoted
  <2>4. ProgressInv'
    BY <1>10 DEF SetPower
  <2> QED
    BY <2>3, <2>4
<1>11. CASE Powered
  <2>1. Promoted' \subseteq Promoted /\ req \in Promoted
    BY <1>11 DEF Powered, SetRequest, Promoted
  <2>2. PromotionInv'
    BY <1>11, <2>1 DEF Powered, SetRequest, AfterPower, Promoted
  <2>3. ProgressInv'
    BY <1>11 DEF Powered, AfterPower
  <2> QED
    BY <2>2, <2>3
<1>12. CASE SettingUp
  BY <1>12, KeepsPromoted DEF SettingUp, SetupSkip, SetupBegin, SetupSteps, SetupDone,
     SetupFail, SetSetup
<1>13. CASE EnqueueRecipe
  <2>1. Promoted' \subseteq Promoted
    BY <1>13, KeepsPromoted, InsertPromotes DEF EnqueueRecipe, EnqueueSetupIfPending
  <2> QED
    BY <1>13, <2>1 DEF EnqueueRecipe
<1>14. CASE Mark
  BY <1>14, KeepsPromoted DEF Mark
<1>15. CASE Finish
  <2>1. Promoted' \subseteq Promoted /\ pc' = "idle"
    BY <1>15, MovesPromote DEF Finish, Settle
  <2> QED
    BY <1>15, <2>1 DEF Finish
<1>16. CASE Retry
  <2>1. Promoted' \subseteq Promoted
    BY <1>16, MovesPromote, KeepsPromoted DEF Retry
  <2> QED
    BY <1>16, <2>1 DEF Retry, Settle
<1>17. CASE Park
  BY <1>17, KeepsPromoted DEF Park, SetRequest
<1>18. CASE SetupInterrupted
  BY <1>18, MovesPromote DEF SetupInterrupted
<1>19. CASE Crash
  BY <1>19, KeepsPromoted DEF Crash
<1> QED
  BY <1>1, <1>2, <1>3, <1>4, <1>5, <1>6, <1>7, <1>8, <1>9, <1>10, <1>11, <1>12, <1>13,
     <1>14, <1>15, <1>16, <1>17, <1>18, <1>19
     DEF WorkerNext, WorkerStep, WorkerFault, Building, TearingDown, Powering, Ending

\* Statements that failed stay counted, and a failing one is counted.
LEMMA ErrorsAreCounted ==
  ASSUME WorkerInv, [Next]_vars, dbErrors' = 0
  PROVE  dbErrors = 0 /\ ~DbError
<1>1. dbErrors \in Nat
  BY DEF WorkerInv, TypeOK, WorkerTypeOK
<1>2. [Next]_vars => (UNCHANGED dbErrors \/ DbError)
  <2>1. (ApiNext /\ UNCHANGED workerVars) \/ UNCHANGED vars => UNCHANGED dbErrors
    BY DEF vars, workerVars
  <2>2. Boot \/ Lease \/ Load \/ Crash \/ SetupInterrupted => UNCHANGED dbErrors
    BY DEF Boot, Lease, Load, Crash, SetupInterrupted, GoTo, Settle
  <2>3. Building => UNCHANGED dbErrors
    BY DEF Building, Claim, ProjectFails, Clean, Mint, Launch, LaunchFails, Booted,
       Access, Assign, Publish, Ready, Promote, GoTo
  <2>4. TearingDown \/ Powering => UNCHANGED dbErrors
    BY DEF TearingDown, Destroy, ReleaseAddress, Unpublish, Powering, SetPower, Powered, GoTo
  <2>5. SettingUp \/ Ending => UNCHANGED dbErrors
    BY DEF SettingUp, SetupSkip, SetupBegin, SetupSteps, SetupDone, SetupFail, Ending,
       EnqueueRecipe, Mark, Finish, Retry, Park, GoTo, Settle
  <2> QED
    BY <2>1, <2>2, <2>3, <2>4, <2>5 DEF Next, WorkerNext, WorkerStep, WorkerFault
<1>3. DbError => dbErrors' = dbErrors + 1
  BY DEF DbError
<1> QED
  BY <1>1, <1>2, <1>3

LEMMA AttributionAlways == Spec => [](WorkerInv /\ SoundUntilError)
<1>1. Init => SoundUntilError
  BY NoRows DEF Init, PlaneInit, WorkerInit, AttributionInv, PromotionInv, ProgressInv,
     Promoted, Attempting, SoundUntilError
<1>2. ASSUME WorkerInv, SoundUntilError, [Next]_vars
      PROVE  SoundUntilError'
  <2> SUFFICES ASSUME dbErrors' = 0
               PROVE  AttributionInv'
    BY DEF SoundUntilError
  <2>1. AttributionInv /\ ~DbError
    BY <1>2, ErrorsAreCounted DEF SoundUntilError
  <2>2. CASE UNCHANGED vars
    <3>1. UNCHANGED <<jobs, status, assigned, aaaa, routes, instance, pc, cur>>
      BY <2>2 DEF vars, planeVars, rowVars, worldVars, workerVars
    <3>2. Promoted' = Promoted
      BY <3>1 DEF Promoted
    <3> QED
      BY <2>1, <3>1, <3>2 DEF AttributionInv, PromotionInv, ProgressInv, Attempting,
         Attached, Target, req, verb
  <2> QED
    BY <1>2, <2>1, <2>2, AttributionApi, AttributionWorker DEF Next
<1> QED
  BY <1>1, <1>2, WorkerInit_, WorkerInvStep, PTL DEF Spec

\* While no statement of the worker fails, a box the panel shows keeps its open
\* ip_assignments row for as long as it exists (setIpv6, releaseIpv6).
THEOREM LiveBoxesAreAttributed == Spec => []LiveBoxIsAttributed
<1>1. WorkerInv /\ SoundUntilError => LiveBoxIsAttributed
  BY DEF SoundUntilError, AttributionInv, PromotionInv, Promoted, Attached, LiveBoxIsAttributed
<1> QED
  BY <1>1, AttributionAlways, PTL

\* While no statement of the worker fails, a row starts to say running only
\* when the box is up and everything that makes it reachable is in place
\* (provision, power).
THEOREM PromotionsAreReady == Spec => RunningMeansReady
<1>1. ASSUME WorkerInv, AttributionInv, [Next]_vars, NEW r \in Requests,
             status[r] # "running", status'[r] = "running"
      PROVE  instance[r] = "running" /\ Attached(r)
  <2>1. pc \in Busy /\ r = req /\ (Promote \/ (Powered /\ verb = "start"))
    BY <1>1, Typed, InHand DEF Next, vars, planeVars, rowVars, ApiNext, Create, Approve,
       Reject, Cancel, Power, RetryProvision, RetrySetup, ReadPassword, WorkerNext,
       WorkerStep, WorkerFault, Boot, Lease, Load, Building, Claim, ProjectFails, Clean,
       Mint, Launch, LaunchFails, Booted, Access, Assign, Publish, Ready, Promote,
       TearingDown, Destroy, ReleaseAddress, Unpublish, Powering, SetPower, Powered,
       SettingUp, SetupSkip, SetupBegin, SetupSteps, SetupDone, SetupFail, Ending,
       EnqueueRecipe, Mark, Finish, Retry, Park, SetupInterrupted, DbError, Crash,
       SetRequest, SetSetup, Target, WorkerInv, InHandler
  <2>2. CASE Promote
    BY <1>1, <2>1, <2>2 DEF Promote, AttributionInv, ProgressInv, Attached
  <2>3. CASE Powered /\ verb = "start"
    <3>1. req \in Promoted /\ instance[req] = "running"
      BY <1>1, <2>1, <2>3, InHand DEF Powered, Promoted, AttributionInv, ProgressInv,
         Target, req, verb
    <3> QED
      BY <1>1, <2>1, <3>1 DEF AttributionInv, PromotionInv
  <2> QED
    BY <2>1, <2>2, <2>3
<1>2. ASSUME WorkerInv, SoundUntilError, [Next]_vars
      PROVE  [dbErrors = 0 => \A r \in Requests : status[r] # "running" /\ status'[r] = "running" =>
                /\ instance[r] = "running"
                /\ HasIPv6 => r \in assigned
                /\ HasIPv6 /\ HasDns => r \in aaaa
                /\ r \in Desktops => r \in routes]_vars
  BY <1>1, <1>2 DEF Attached, SoundUntilError
<1> QED
  BY <1>2, AttributionAlways, PTL DEF Spec, RunningMeansReady
=============================================================================
