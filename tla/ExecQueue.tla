------------------------------ MODULE ExecQueue ------------------------------
(***************************************************************************)
(* Agent operations on machines (docs/agent-access.md).  An API call puts  *)
(* one row into machine_execs and waits for it; the exec loops of a worker *)
(* claim rows of their own environment, run them and store the outcome.    *)
(* The two sides meet only in the row, and either may die: a call may stop *)
(* waiting at any time, a worker process takes all its loops with it and   *)
(* fails what it left behind when it starts again.                         *)
(*                                                                         *)
(* Commands, file contents and outputs are left out: an operation either   *)
(* succeeds ("done") or ends with a code.                                  *)
(***************************************************************************)
EXTENDS Naturals, Sequences, FiniteSets

CONSTANTS
  Execs,        \* the calls agents make, each with the id of its row
  Tokens,       \* access tokens
  Machines,     \* the machines calls are about
  Envs,         \* environments, one worker process each
  Loops,        \* exec loops (WORKER_EXEC_CONCURRENCY of them per process)
  TokenOf, MachineOf,   \* of a call
  EnvOf, LoopEnv,       \* of a machine, of a loop
  Cap,          \* EXEC_CONCURRENCY_PER_TOKEN
  Long,         \* the calls with a timeout above 585 seconds
  MaxRestarts,  \* bound: deaths of worker processes
  MaxDbErrors,  \* bound: statements that fail
  MaxToggles    \* bound: changes of a machine's status

ASSUME ExecAssumption ==
  /\ TokenOf \in [Execs -> Tokens] /\ MachineOf \in [Execs -> Machines]
  /\ EnvOf \in [Machines -> Envs] /\ LoopEnv \in [Loops -> Envs]
  /\ IsFiniteSet(Execs)
  /\ Cap \in Nat \ {0}
  /\ Long \subseteq Execs
  /\ MaxRestarts \in Nat /\ MaxDbErrors \in Nat /\ MaxToggles \in Nat

VARIABLES
  row,      \* machine_execs.status; "none" before the insert, "purged" after
  error,    \* machine_execs.error
  made,     \* the calls in the order of created_at, the start of the insert
  aged,     \* rows older than execQueueTTL
  call,     \* where the API call stands
  answer,   \* what the agent was told
  at,       \* per loop: its next statement
  held,     \* per loop: the set of the row it holds, empty or one
  outcome,  \* per loop: what it will store
  up,       \* environments whose worker process runs
  live,     \* machines whose request row says running
  ran,      \* how often the operation was started on the guest
  restarts, dbErrors, toggles

rowVars  == <<row, error>>
callVars == <<made, aged, call, answer>>
loopVars == <<at, held, outcome, ran>>
envVars  == <<up, live, restarts, toggles>>
vars     == <<rowVars, callVars, loopVars, envVars, dbErrors>>

Codes == {"machine_not_running", "exec_failed", "worker_restarted", "expired"}

TypeOK ==
  /\ row \in [Execs -> {"none", "queued", "running", "done", "failed", "purged"}]
  /\ error \in [Execs -> {"none"} \cup Codes]
  /\ made \in Seq(Execs)
  /\ aged \subseteq Execs
  /\ call \in [Execs -> {"idle", "enqueue", "wait", "late", "last", "answered",
                         "lost"}]
  /\ answer \in [Execs -> {"none", "done", "busy", "machine_not_running",
                           "exec_failed", "exec_timeout"}]
  /\ at \in [Loops -> {"down", "idle", "look", "run", "finish"}]
  /\ held \in [Loops -> SUBSET Execs]
  /\ outcome \in [Loops -> {"none", "done", "machine_not_running", "exec_failed"}]
  /\ up \subseteq Envs /\ live \subseteq Machines
  /\ ran \in [Execs -> Nat]
  /\ restarts \in Nat /\ dbErrors \in Nat /\ toggles \in Nat

Init ==
  /\ row = [e \in Execs |-> "none"] /\ error = [e \in Execs |-> "none"]
  /\ made = << >> /\ aged = {}
  /\ call = [e \in Execs |-> "idle"] /\ answer = [e \in Execs |-> "none"]
  /\ at = [l \in Loops |-> "down"] /\ held = [l \in Loops |-> {}]
  /\ outcome = [l \in Loops |-> "none"]
  /\ up = {} /\ live \in SUBSET Machines
  /\ ran = [e \in Execs |-> 0]
  /\ restarts = 0 /\ dbErrors = 0 /\ toggles = 0

ActiveRows(t) == {e \in Execs : TokenOf[e] = t /\ row[e] \in {"queued", "running"}}
Finished(e)   == row[e] \in {"done", "failed"}
Fail(e, code) == /\ row' = [row EXCEPT ![e] = "failed"]
                 /\ error' = [error EXCEPT ![e] = code]
EnvOfExec(e)  == EnvOf[MachineOf[e]]

-----------------------------------------------------------------------------
(* The API call *)

Answer(e, a) == /\ call' = [call EXCEPT ![e] = "answered"]
                /\ answer' = [answer EXCEPT ![e] = a]

\* execFailure.
Told(e) == CASE row[e] = "done"                    -> "done"
             [] error[e] = "machine_not_running"   -> "machine_not_running"
             [] error[e] = "expired"               -> "exec_timeout"
             [] OTHER                              -> "exec_failed"

\* The machine row was read when the token was checked; the transaction that
\* inserts starts here and may wait for the token's lock.
Begin(e) ==
  /\ call[e] = "idle"
  /\ IF MachineOf[e] \in live
       THEN /\ call' = [call EXCEPT ![e] = "enqueue"]
            /\ made' = Append(made, e)
            /\ UNCHANGED answer
       ELSE Answer(e, "machine_not_running") /\ UNCHANGED made
  /\ UNCHANGED <<rowVars, aged, loopVars, envVars, dbErrors>>

\* Seeded fault: only running rows count towards the cap.
MutOverCap(t) == Cardinality({e \in ActiveRows(t) : row[e] = "running"}) >= Cap

OverCap(t) == Cardinality(ActiveRows(t)) >= Cap

\* enqueueExec, under the lock of the token row.
Enqueue(e) ==
  /\ call[e] = "enqueue"
  /\ IF OverCap(TokenOf[e])
       THEN Answer(e, "busy") /\ UNCHANGED row
       ELSE /\ row' = [row EXCEPT ![e] = "queued"]
            /\ call' = [call EXCEPT ![e] = "wait"]
            /\ UNCHANGED answer
  /\ UNCHANGED <<error, made, aged, loopVars, envVars, dbErrors>>

\* A notification or a second has passed: the row is read again.
Poll(e) ==
  /\ call[e] = "wait" /\ Finished(e)
  /\ Answer(e, Told(e))
  /\ UNCHANGED <<rowVars, made, aged, loopVars, envVars, dbErrors>>

\* A read found the row unfinished, and timeoutMs + 15 s are over.
Deadline(e) ==
  /\ call[e] = "wait" /\ ~Finished(e)
  /\ call' = [call EXCEPT ![e] = "late"]
  /\ UNCHANGED <<rowVars, made, aged, answer, loopVars, envVars, dbErrors>>

\* Seeded fault: nothing is expired.
MutExpirable(e) == FALSE

\* expireQueuedExec; when the statement fails the call goes on all the same.
Expirable(e) == row[e] = "queued"

Expire(e) ==
  /\ call[e] = "late"
  /\ call' = [call EXCEPT ![e] = "last"]
  /\ \/ /\ IF Expirable(e) THEN Fail(e, "expired") ELSE UNCHANGED rowVars
        /\ UNCHANGED dbErrors
     \/ /\ dbErrors < MaxDbErrors /\ dbErrors' = dbErrors + 1
        /\ UNCHANGED rowVars
  /\ UNCHANGED <<made, aged, answer, loopVars, envVars>>

LastRead(e) ==
  /\ call[e] = "last"
  /\ Answer(e, IF Finished(e) THEN Told(e) ELSE "exec_timeout")
  /\ UNCHANGED <<rowVars, made, aged, loopVars, envVars, dbErrors>>

\* The API process dies, or one of its reads fails: nobody waits any more.
Drop(e) ==
  /\ call[e] \in {"enqueue", "wait", "late", "last"}
  /\ call' = [call EXCEPT ![e] = "lost"]
  /\ UNCHANGED <<rowVars, made, aged, answer, loopVars, envVars, dbErrors>>

\* Ten minutes pass.  Only a call with a timeout above 585 s waits longer.
Age(e) ==
  /\ row[e] = "queued" /\ e \notin aged
  /\ call[e] = "wait" => e \in Long
  /\ aged' = aged \cup {e}
  /\ UNCHANGED <<rowVars, made, call, answer, loopVars, envVars, dbErrors>>

-----------------------------------------------------------------------------
(* The exec loops *)

LoopAt(l, p, h, o) == /\ at' = [at EXCEPT ![l] = p]
                      /\ held' = [held EXCEPT ![l] = h]
                      /\ outcome' = [outcome EXCEPT ![l] = o]

Claimable(n, e) == /\ e \in Execs
                   /\ row[e] = "queued"
                   /\ EnvOfExec(e) = n

\* claimExec: the oldest queued row of the loop's environment.
Claim(l) ==
  /\ at[l] = "idle"
  /\ \E i \in DOMAIN made :
       /\ Claimable(LoopEnv[l], made[i])
       /\ \A k \in 1 .. (i - 1) : ~Claimable(LoopEnv[l], made[k])
       /\ row' = [row EXCEPT ![made[i]] = "running"]
       /\ LoopAt(l, "look", {made[i]}, "none")
  /\ UNCHANGED <<error, callVars, envVars, ran, dbErrors>>

\* runExec reads the request row; an error of that read is an outcome too.
Look(l) ==
  /\ at[l] = "look"
  /\ \E e \in held[l] :
       \/ /\ MachineOf[e] \in live
          /\ LoopAt(l, "run", held[l], "none")
          /\ UNCHANGED dbErrors
       \/ /\ MachineOf[e] \notin live
          /\ LoopAt(l, "finish", held[l], "machine_not_running")
          /\ UNCHANGED dbErrors
       \/ /\ dbErrors < MaxDbErrors /\ dbErrors' = dbErrors + 1
          /\ LoopAt(l, "finish", held[l], "exec_failed")
  /\ UNCHANGED <<rowVars, callVars, envVars, ran>>

\* The operation runs on the guest, to its end or its timeout.
RunIt(l) ==
  /\ at[l] = "run"
  /\ \E o \in {"done", "exec_failed"} : LoopAt(l, "finish", held[l], o)
  /\ ran' = [e \in Execs |-> IF e \in held[l] THEN ran[e] + 1 ELSE ran[e]]
  /\ UNCHANGED <<rowVars, callVars, envVars, dbErrors>>

\* finishExec touches running rows only.  When it fails the loop goes on and
\* the row stays running until the next start of the process.
Finish(l) ==
  /\ at[l] = "finish"
  /\ LoopAt(l, "idle", {}, "none")
  /\ \/ /\ \E e \in held[l] :
             IF row[e] # "running" THEN UNCHANGED rowVars
             ELSE IF outcome[l] = "done"
                    THEN row' = [row EXCEPT ![e] = "done"] /\ UNCHANGED error
                    ELSE Fail(e, outcome[l])
        /\ UNCHANGED dbErrors
     \/ /\ dbErrors < MaxDbErrors /\ dbErrors' = dbErrors + 1
        /\ UNCHANGED rowVars
  /\ UNCHANGED <<callVars, envVars, ran>>

-----------------------------------------------------------------------------
(* Worker processes *)

\* Seeded fault: rows a dead worker was at stay as they are.
MutLeftBehind(e, n) == FALSE

LeftBehind(e, n) == row[e] = "running" /\ EnvOfExec(e) = n
TooOld(e, n)     == row[e] = "queued" /\ e \in aged /\ EnvOfExec(e) = n

\* Seeded fault: what was running is put back.
MutRecovered(e, n) == IF LeftBehind(e, n) THEN "queued" ELSE row[e]

Recovered(e, n) == IF LeftBehind(e, n) \/ TooOld(e, n) THEN "failed" ELSE row[e]

RecoveredError(e, n) == CASE LeftBehind(e, n) -> "worker_restarted"
                          [] TooOld(e, n)     -> "expired"
                          [] OTHER            -> error[e]

\* recoverExecs, then the loops start.
Boot(n) ==
  /\ n \notin up
  /\ up' = up \cup {n}
  /\ row' = [e \in Execs |-> Recovered(e, n)]
  /\ error' = [e \in Execs |-> RecoveredError(e, n)]
  /\ at' = [l \in Loops |-> IF LoopEnv[l] = n THEN "idle" ELSE at[l]]
  /\ UNCHANGED <<callVars, held, outcome, ran, live, restarts, toggles, dbErrors>>

Crash(n) ==
  /\ n \in up
  /\ restarts < MaxRestarts /\ restarts' = restarts + 1
  /\ up' = up \ {n}
  /\ at' = [l \in Loops |-> IF LoopEnv[l] = n THEN "down" ELSE at[l]]
  /\ held' = [l \in Loops |-> IF LoopEnv[l] = n THEN {} ELSE held[l]]
  /\ outcome' = [l \in Loops |-> IF LoopEnv[l] = n THEN "none" ELSE outcome[l]]
  /\ UNCHANGED <<rowVars, callVars, ran, live, toggles, dbErrors>>

\* purgeExecs: 24 hours after the end, long after every call.
Purge(e) ==
  /\ up # {}
  /\ Finished(e) /\ call[e] \in {"answered", "lost"}
  /\ row' = [row EXCEPT ![e] = "purged"]
  /\ UNCHANGED <<error, callVars, loopVars, envVars, dbErrors>>

\* The machine is started, stopped or deleted (Provisioning.tla).
Toggle(m) ==
  /\ toggles < MaxToggles /\ toggles' = toggles + 1
  /\ live' = IF m \in live THEN live \ {m} ELSE live \cup {m}
  /\ UNCHANGED <<rowVars, callVars, loopVars, up, restarts, dbErrors>>

-----------------------------------------------------------------------------
CallStep(e) == \/ Begin(e) \/ Enqueue(e) \/ Poll(e) \/ Deadline(e) \/ Expire(e)
               \/ LastRead(e)
LoopStep(l) == Claim(l) \/ Look(l) \/ RunIt(l) \/ Finish(l)

Next == \/ \E e \in Execs : CallStep(e) \/ Drop(e) \/ Age(e) \/ Purge(e)
        \/ \E l \in Loops : LoopStep(l)
        \/ \E n \in Envs : Boot(n) \/ Crash(n)
        \/ \E m \in Machines : Toggle(m)

Spec == Init /\ [][Next]_vars

\* The timers of a call's own loop run on, whatever becomes of the workers.
\* Agents owe no call.
CallsGoOn ==
  \A e \in Execs : WF_vars(Enqueue(e) \/ Poll(e) \/ Deadline(e) \/ Expire(e)
                             \/ LastRead(e))

\* systemd keeps the workers up, and each exec loop takes its next step.
WorkersGoOn == /\ \A l \in Loops : WF_vars(LoopStep(l))
               /\ \A n \in Envs : WF_vars(Boot(n))

-----------------------------------------------------------------------------
(* Properties *)

\* An operation is started at most once, gets one outcome that stays, and what
\* the agent was told is what happened, whatever restarts, failed statements
\* and impatient callers come in between (claimExec: "Rows are never
\* re-queued, so an operation runs at most once"; finishExec, recoverExecs,
\* expireQueuedExec, execFailure).
Outcome(e) == IF error[e] # "none" THEN error[e]
              ELSE IF row[e] \in {"done", "purged"} THEN "done"
              ELSE IF row[e] = "none" /\ answer[e] # "none" THEN "refused"
              ELSE "open"

Promised == INSTANCE OneShot WITH
  Calls   <- Execs,
  starts  <- ran,
  outcome <- [e \in Execs |-> Outcome(e)],
  told    <- answer

OperationsAreOneShot == Promised!Spec

\* Concurrent calls never put more operations under way than a token may have
\* (enqueueExec).
CapHolds == \A t \in Tokens : Cardinality(ActiveRows(t)) <= Cap

\* An operation in a live loop is not declared dead by another process: its
\* row stays running and is held by that loop alone (recoverExecs, claimExec).
HeldIsRunning ==
  \A l \in Loops : \A e \in held[l] :
    /\ row[e] = "running"
    /\ \A k \in Loops \ {l} : e \notin held[k]

\* Once the caller has its answer the operation cannot start any more, unless
\* the statement that expires it failed (docs/agent-access.md: "the API fails
\* it as expired so a late worker never runs it").
AnsweredIsNotQueued ==
  dbErrors = 0 => \A e \in Execs : call[e] = "answered" => row[e] # "queued"

\* Every call that is waiting is answered by its own timers, whatever the
\* workers do (waitForExec); and every row is settled by the workers, also one
\* whose caller is gone, unless a statement failed (runNextExec, recoverExecs).
OperationsEnd ==
  /\ CallsGoOn => \A e \in Execs :
       call[e] = "wait" ~> call[e] \in {"answered", "lost"}
  /\ WorkersGoOn => \A e \in Execs :
       row[e] = "queued" ~> row[e] \in {"done", "failed", "purged"} \/ dbErrors > 0
=============================================================================
