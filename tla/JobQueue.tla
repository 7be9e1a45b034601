------------------------------ MODULE JobQueue ------------------------------
(***************************************************************************)
(* What the provision_jobs outbox promises, whoever reads and writes it:   *)
(* a job is submitted once per request and action, taken oldest first,     *)
(* handed back or settled by its holder, and never touched again once it   *)
(* is settled.  The table is the sequence of its rows in created_at order. *)
(*                                                                         *)
(* Provisioning.tla, which models the API transactions and the worker that *)
(* use the table, is shown to implement this module.                       *)
(***************************************************************************)
EXTENDS Naturals, Sequences

CONSTANTS Requests,   \* the server requests jobs are about
          Actions     \* what a job does: provision, teardown, stop, ...

VARIABLE jobs

Job == [req : Requests, action : Actions,
        status : {"queued", "leased", "done", "failed"}, attempts : Nat]

ActiveStatuses == {"queued", "leased"}

\* A queued or leased job for this request and action exists.
Active(r, a) == \E j \in DOMAIN jobs : /\ jobs[j].req = r
                                       /\ jobs[j].action = a
                                       /\ jobs[j].status \in ActiveStatuses

NewJob(r, a) == [req |-> r, action |-> a, status |-> "queued", attempts |-> 0]

-----------------------------------------------------------------------------
Init == jobs = << >>

\* The partial unique index refuses a second active job of the same key.
Submit(r, a) == /\ ~Active(r, a)
                /\ jobs' = Append(jobs, NewJob(r, a))

Taken(job) == [req |-> job.req, action |-> job.action, status |-> "leased",
               attempts |-> job.attempts + 1]

\* The oldest queued job is leased; the attempt is counted at the lease.
Lease(j) == /\ jobs[j].status = "queued"
            /\ \A i \in DOMAIN jobs : i < j => jobs[i].status # "queued"
            /\ jobs' = [jobs EXCEPT ![j] = Taken(@)]

\* The holder of a lease hands the job back or settles it.
Release(j, s) == /\ jobs[j].status = "leased"
                 /\ jobs' = [jobs EXCEPT ![j].status = s]

\* Every lease of a dead worker returns to the queue at the next start.
Recover == jobs' = [j \in DOMAIN jobs |->
                      IF jobs[j].status = "leased"
                        THEN [jobs[j] EXCEPT !.status = "queued"]
                        ELSE jobs[j]]

Next == \/ \E r \in Requests, a \in Actions : Submit(r, a)
        \/ \E j \in DOMAIN jobs : Lease(j)
        \/ \E j \in DOMAIN jobs, s \in {"queued", "done", "failed"} : Release(j, s)
        \/ Recover

Spec == Init /\ [][Next]_jobs
=============================================================================
