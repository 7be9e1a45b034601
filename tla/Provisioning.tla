---------------------------- MODULE Provisioning ----------------------------
(***************************************************************************)
(* The API server and the host worker together: two programs that share a  *)
(* database and never call each other.                                     *)
(***************************************************************************)
EXTENDS RequestApi, JobWorker

vars == <<planeVars, workerVars>>

Init == PlaneInit /\ WorkerInit

Next == \/ ApiNext /\ UNCHANGED workerVars
        \/ WorkerNext

Spec == Init /\ [][Next]_vars

\* systemd keeps the worker alive and its loop never stops by itself; users,
\* operators and faults owe nothing.
FairSpec == Spec /\ WF_vars(WorkerStep)

TypeOK == PlaneTypeOK /\ WorkerTypeOK

-----------------------------------------------------------------------------
(* Safety *)

Deciding == {"none", "pending_approval", "rejected"}

\* Nothing is spent on a request no operator approved: while it is pending or
\* rejected it has no job, no instance, no public address and no DNS record
\* (decideRequest: no job without approval).
UnapprovedUsesNothing ==
  \A r \in Requests : status[r] \in Deciding =>
    /\ \A j \in DOMAIN jobs : jobs[j].req # r
    /\ instance[r] = "absent"
    /\ r \notin named \cup assigned \cup aaaa \cup routes \cup secret

\* A request waiting to be built is never forgotten: an approved row has a
\* provision job under way or a failed one an operator can see and retry, a
\* provisioning row has one under way, whatever cancels, crashes and retries
\* came in between (decideRequest, failProvision, requeueLeased).
BuildIsTracked ==
  \A r \in Requests :
    /\ status[r] = "approved" => \/ Active(r, "provision")
                                 \/ HasJob(r, "provision", {"failed"})
    /\ status[r] = "provisioning" => Active(r, "provision")

\* The worker only acts for a job it holds the lease of, and a leased job it
\* does not hold was stranded by a database error of its own.
LeasesAreHeld ==
  LET leased == {j \in DOMAIN jobs : jobs[j].status = "leased"}
  IN  /\ pc \in Busy => cur \in leased
      /\ pc # "down" => Cardinality(leased \ {cur}) <= dbErrors

\* A box the panel shows as running or stopped can be attributed to its owner
\* as long as it exists: its address has an open ip_assignments row, through
\* cancellations, teardowns that fail half way and restarts, up to the first
\* failed statement (setIpv6, releaseIpv6).
LiveBoxIsAttributed ==
  HasIPv6 /\ dbErrors = 0 => \A r \in Requests :
    instance[r] # "absent" /\ status[r] \in {"running", "stopped"} => r \in assigned

\* The owner of a running box can log in: the password the guest was built
\* with is still stored for its one read or has been read, and no retry left
\* an older one in its place (setInstancePassword, readInstancePassword).
OwnerHasAccess ==
  \A r \in Requests : status[r] = "running" => r \in secret \cup delivered

\* Everything a request occupies is paid for or on its way out: an instance
\* or an open address belongs to a row that holds quota, or a teardown job
\* for it is under way or failed in sight of the operator (cancelRequest).
NothingLeaks ==
  \A r \in Requests :
    instance[r] # "absent" \/ r \in assigned =>
      \/ status[r] \in HoldingStatuses
      \/ Active(r, "teardown")
      \/ HasJob(r, "teardown", {"failed"})

-----------------------------------------------------------------------------
(* Action properties *)

\* A row starts to say running only when the box is up, its address is
\* attributed and its AAAA record and desktop route are in place: until a
\* statement fails, no attempt promotes what an earlier or a concurrent step
\* has taken away again.
RunningMeansReady ==
  [][dbErrors = 0 => \A r \in Requests : status[r] # "running" /\ status'[r] = "running" =>
        /\ instance[r] = "running"
        /\ HasIPv6 => r \in assigned
        /\ HasIPv6 /\ HasDns => r \in aaaa
        /\ r \in Desktops => r \in routes]_vars

\* A teardown job is done only when nothing of the box is left outside: no
\* instance, no open address, no AAAA record.
TeardownIsComplete ==
  [][\A j \in DOMAIN jobs :
       /\ jobs[j].action = "teardown"
       /\ jobs[j].status # "done" /\ jobs'[j].status = "done"
       => LET r == jobs[j].req
          IN  instance[r] = "absent" /\ r \notin assigned /\ (HasDns => r \notin aaaa)]_vars

\* The reservation of a deleted request stays released (README: "Delete the
\* request to release its reservation").
DeletedStaysDeleted ==
  [][\A r \in Requests : status[r] = "deleted" =>
        status'[r] \notin HoldingStatuses]_vars

-----------------------------------------------------------------------------
(* The outbox as its users see it *)

\* Every transaction and every worker step is one step of the job queue or
\* leaves it alone: settled jobs stay settled, a key has one active job, jobs
\* are leased oldest first, and only a lease holder releases a job.
Queue == INSTANCE JobQueue
ImplementsQueue == Queue!Spec

-----------------------------------------------------------------------------
(* Liveness *)

\* A job that is queued ends: its attempts run out if nothing else happens.
JobsEnd ==
  \A j \in 1 .. (2 * MaxJobs) :
    (j \in DOMAIN jobs) ~> (j \in DOMAIN jobs /\ jobs[j].status \in {"done", "failed"})
=============================================================================
