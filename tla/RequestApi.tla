----------------------------- MODULE RequestApi -----------------------------
(***************************************************************************)
(* The transactions of the API server (apps/api/src/domain/requests.ts)    *)
(* that change a server request.  Each of them locks the request row, and  *)
(* the owner's users row where quota is at stake, before it reads, so each *)
(* is one atomic step here; a transaction that is refused or rolled back   *)
(* changes nothing and is not an action.  Resources other than the number  *)
(* of servers, the GPU cap and agent proposals are not part of this module.*)
(***************************************************************************)
EXTENDS ControlPlane

CONSTANT MaxJobs   \* bound: jobs in the table after which the API adds none

ASSUME MaxJobsAssumption == MaxJobs \in Nat

Room == Len(jobs) < MaxJobs

-----------------------------------------------------------------------------
(* createRequest *)

\* Quota admission, counted under the lock on the owner's row.
Admits(r) == Cardinality(Held(OwnerOf[r])) + 1 <= ServerQuota

Create(r) ==
  /\ status[r] = "none"
  /\ Admits(r)
  /\ status' = [status EXCEPT ![r] = "pending_approval"]
  /\ setup' = [setup EXCEPT ![r] = IF r \in Recipes THEN "pending" ELSE "none"]
  /\ UNCHANGED <<named, ipv4, ipv6, secret, built, jobs, assigned, worldVars,
                 delivered>>

-----------------------------------------------------------------------------
(* decideRequest: an operator decides a pending request once; approval and *)
(* its provision job are one transaction.                                  *)

Decidable(r) == status[r] = "pending_approval"

Approve(r) ==
  /\ Room
  /\ Decidable(r)
  /\ status' = [status EXCEPT ![r] = "approved"]
  /\ InsertJob(r, "provision")
  /\ UNCHANGED <<setup, named, ipv4, ipv6, secret, built, assigned, worldVars,
                 delivered>>

Reject(r) ==
  /\ Decidable(r)
  /\ status' = [status EXCEPT ![r] = "rejected"]
  /\ UNCHANGED <<setup, named, ipv4, ipv6, secret, built, jobs, assigned,
                 worldVars, delivered>>

-----------------------------------------------------------------------------
(* cancelRequest: the row is deleted at once; a row with an instance also  *)
(* gets a teardown job.                                                    *)

\* Seeded fault: only a box the panel shows is torn down.
MutNeedsTeardown(r) == r \in named /\ status[r] \in {"running", "stopped"}

NeedsTeardown(r) ==
  r \in named /\ status[r] \in {"approved", "provisioning", "running", "stopped"}

Cancel(r) ==
  /\ status[r] \notin {"none", "deleted"}
  /\ IF NeedsTeardown(r) THEN Room /\ InsertJob(r, "teardown")
                         ELSE UNCHANGED jobs
  /\ status' = [status EXCEPT ![r] = "deleted"]
  /\ UNCHANGED <<setup, named, ipv4, ipv6, secret, built, assigned, worldVars,
                 delivered>>

-----------------------------------------------------------------------------
(* powerRequest, retryProvision and retrySetup queue work for the worker   *)
(* and leave the status to it.                                             *)

PowerFrom(act) == IF act = "stop" THEN "running" ELSE "stopped"

Power(r, act) ==
  /\ Room
  /\ status[r] = PowerFrom(act)
  /\ InsertJob(r, act)
  /\ UNCHANGED <<rowVars, assigned, worldVars, delivered>>

\* Seeded fault: a rejected request can be retried as well.
MutRetryable(r) == status[r] \in {"approved", "rejected"}

Retryable(r) == status[r] = "approved"

RetryProvision(r) ==
  /\ Room
  /\ Retryable(r)
  /\ InsertJob(r, "provision")
  /\ UNCHANGED <<rowVars, assigned, worldVars, delivered>>

\* The reset of setup_status rolls back if a setup job is still active.
RetrySetup(r) ==
  /\ Room
  /\ status[r] = "running"
  /\ setup[r] = "failed"
  /\ setup' = [setup EXCEPT ![r] = "pending"]
  /\ InsertJob(r, "setup")
  /\ UNCHANGED <<status, named, ipv4, ipv6, secret, built, assigned, worldVars,
                 delivered>>

-----------------------------------------------------------------------------
(* readInstancePassword: read and cleared under the row lock, in any       *)
(* status.                                                                 *)

ReadPassword(r) ==
  /\ r \in secret
  /\ secret' = secret \ {r}
  /\ delivered' = delivered \cup {r}
  /\ UNCHANGED <<status, setup, named, ipv4, ipv6, built, jobs, assigned,
                 worldVars>>

-----------------------------------------------------------------------------
ApiNext ==
  \E r \in Requests :
    \/ Create(r)
    \/ Approve(r)
    \/ Reject(r)
    \/ Cancel(r)
    \/ \E act \in {"stop", "start"} : Power(r, act)
    \/ RetryProvision(r)
    \/ RetrySetup(r)
    \/ ReadPassword(r)
=============================================================================
