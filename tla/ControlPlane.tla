---------------------------- MODULE ControlPlane ----------------------------
(***************************************************************************)
(* The state the API server and the host worker share, and nothing else    *)
(* connects them: the server_requests rows, the provision_jobs outbox and  *)
(* the ip_assignments history in Postgres; and the world the worker acts   *)
(* on: Incus instances, AAAA records and desktop route files.              *)
(*                                                                         *)
(* A column that is NULL or not, or a thing that exists or not, is a set   *)
(* of requests.  A row's name, plan, address and secrets are not           *)
(* represented: the worker derives the instance name and the IPv6 address  *)
(* from the request id, so each request has one of each and no two         *)
(* requests share one.  Activity events are written by the modelled        *)
(* transactions but never read by them, and are left out.                  *)
(***************************************************************************)
EXTENDS Integers, Sequences, FiniteSets

CONSTANTS
  Requests,          \* request ids; each is created at most once
  OwnerOf,           \* the user a request belongs to
  Vms,               \* requests whose plan is a VM (the others: containers)
  Desktops,          \* requests whose plan bakes a desktop (VM plans only)
  Recipes,           \* requests that carry a setup recipe
  Refused,           \* requests whose plan the worker refuses to build
  HasIPv6,           \* the worker has a routed prefix (WORKER_IPV6_PREFIX)
  HasDns,            \* the worker has a Cloudflare token
  ServerQuota,       \* servers one owner may hold
  ProvisionAttempts, TeardownAttempts, PowerAttempts, SetupAttempts

ASSUME RequestsAssumption ==
  /\ IsFiniteSet(Requests)
  /\ Vms \subseteq Requests
  /\ Desktops \subseteq Vms
  /\ Recipes \subseteq Requests
  /\ Refused \subseteq Requests
  /\ HasIPv6 \in BOOLEAN /\ HasDns \in BOOLEAN

ASSUME LimitsAssumption ==
  /\ ServerQuota \in Nat
  /\ ProvisionAttempts \in Nat /\ TeardownAttempts \in Nat
  /\ PowerAttempts \in Nat /\ SetupAttempts \in Nat

VARIABLES
  \* server_requests, one entry per request
  status,       \* lifecycle status; "none" before the row is inserted
  setup,        \* setup_status
  named,        \* rows with instance_name set
  ipv4,         \* rows with ipv4 set
  ipv6,         \* rows with ipv6 set
  secret,       \* rows whose one-read instance_password is still stored
  built,        \* rows with build_ms set
  \* the other tables
  jobs,         \* provision_jobs, oldest created_at first
  assigned,     \* requests with an open ip_assignments row
  \* the world outside Postgres
  instance,     \* the Incus instance of a request
  aaaa,         \* requests whose AAAA record is published
  routes,       \* requests whose desktop route file is written
  delivered     \* requests whose current guest password was handed out

rowVars   == <<status, setup, named, ipv4, ipv6, secret, built>>
worldVars == <<instance, aaaa, routes>>
planeVars == <<rowVars, jobs, assigned, worldVars, delivered>>

Statuses == {"none", "pending_approval", "approved", "provisioning",
             "running", "stopped", "rejected", "deleted"}
HoldingStatuses == {"pending_approval", "approved", "provisioning",
                    "running", "stopped"}
SetupStatuses  == {"none", "pending", "running", "done", "failed"}
Actions        == {"provision", "teardown", "stop", "start", "setup"}
InstanceStates == {"absent", "stopped", "running"}

Job == [req : Requests, action : Actions,
        status : {"queued", "leased", "done", "failed"}, attempts : Nat]

PlaneTypeOK ==
  /\ status \in [Requests -> Statuses]
  /\ setup \in [Requests -> SetupStatuses]
  /\ named \in SUBSET Requests /\ ipv4 \in SUBSET Requests
  /\ ipv6 \in SUBSET Requests /\ secret \in SUBSET Requests
  /\ built \in SUBSET Requests
  /\ jobs \in Seq(Job)
  /\ assigned \in SUBSET Requests
  /\ instance \in [Requests -> InstanceStates]
  /\ aaaa \in SUBSET Requests /\ routes \in SUBSET Requests
  /\ delivered \in SUBSET Requests

PlaneInit ==
  /\ status = [r \in Requests |-> "none"]
  /\ setup = [r \in Requests |-> "none"]
  /\ named = {} /\ ipv4 = {} /\ ipv6 = {} /\ secret = {} /\ built = {}
  /\ jobs = << >>
  /\ assigned = {}
  /\ instance = [r \in Requests |-> "absent"]
  /\ aaaa = {} /\ routes = {}
  /\ delivered = {}

-----------------------------------------------------------------------------
(* Reading the shared state *)

\* Rows of an owner that consume quota.
Held(o) == {r \in Requests : OwnerOf[r] = o /\ status[r] \in HoldingStatuses}

\* A job of this request and action is in one of these statuses.
HasJob(r, a, S) == \E j \in DOMAIN jobs : /\ jobs[j].req = r
                                          /\ jobs[j].action = a
                                          /\ jobs[j].status \in S

\* The rows the partial unique index provision_jobs_active_unique covers.
Active(r, a) == HasJob(r, a, {"queued", "leased"})

\* INSERT INTO provision_jobs: the index refuses a second active job.
InsertJob(r, a) ==
  /\ ~Active(r, a)
  /\ jobs' = Append(jobs, [req |-> r, action |-> a, status |-> "queued",
                           attempts |-> 0])

\* Set membership of r made to agree with b: a nullable column's update.
Put(S, r, b) == IF b THEN S \cup {r} ELSE S \ {r}
=============================================================================
