------------------------------- MODULE Wakeup -------------------------------
(***************************************************************************)
(* How queued rows reach idle worker loops (apps/worker/internal/worker,   *)
(* notify.go with the loops of worker.go and execs.go).  Postgres notifies *)
(* every insert to the connection that LISTENs at its commit, and to no    *)
(* other; the listener pokes a channel that holds one token; an idle loop  *)
(* takes the token or waits for its poll timer, and then looks for itself. *)
(*                                                                         *)
(* A behaviour is about one of the two channels.  Serial: the one loop     *)
(* over provision_jobs, which may put a job back without a notification.   *)
(* Not serial: the loops over machine_execs, which poke each other.  Rows  *)
(* are counted: JobQueue and ExecQueue say what happens to one of them.    *)
(***************************************************************************)
EXTENDS Naturals, FiniteSets

CONSTANTS
  JobLoop,      \* the loop over provision_jobs
  ExecLoops,    \* the loops over machine_execs (WORKER_EXEC_CONCURRENCY)
  MaxRows,      \* bound: rows inserted
  MaxErrors,    \* bound: statements that fail, jobs put back
  MaxDrops      \* bound: connections lost, restarts

ASSUME WakeupAssumption ==
  /\ IsFiniteSet(ExecLoops) /\ JobLoop \notin ExecLoops
  /\ MaxRows \in Nat /\ MaxErrors \in Nat /\ MaxDrops \in Nat

VARIABLES
  loops,      \* the loops that share the channel
  queued,     \* rows waiting in the table
  stuck,      \* rows taken whose end could not be written
  inflight,   \* notifications sent to the connection and not yet read
  listener,   \* off; due: it listens or has read one, and will poke; waiting
  token,      \* the channel holds its token
  loop,       \* what each loop is about to do
  rows, errors, drops

wakeVars == <<loops, queued, stuck, inflight, listener, token, loop, rows, errors, drops>>

Serial == loops = {JobLoop}

WakeTypeOK ==
  /\ loops \in {{JobLoop}, ExecLoops}
  /\ queued \in Nat /\ stuck \in Nat /\ inflight \in Nat
  /\ listener \in {"off", "due", "waiting"}
  /\ token \in BOOLEAN
  /\ loop \in [loops -> {"look", "took", "busy", "idle", "sleep"}]
  /\ rows \in Nat /\ errors \in Nat /\ drops \in Nat

WakeInit ==
  /\ loops \in {{JobLoop}, ExecLoops}
  /\ queued = 0 /\ stuck = 0 /\ inflight = 0
  /\ listener = "off"
  /\ token = FALSE
  /\ loop = [l \in loops |-> "look"]
  /\ rows = 0 /\ errors = 0 /\ drops = 0

NowTo(l, p) == loop' = [loop EXCEPT ![l] = p]

-----------------------------------------------------------------------------
(* The table and the connection *)

\* The insert trigger notifies at commit whoever listens then.
Insert ==
  /\ rows < MaxRows /\ rows' = rows + 1
  /\ queued' = queued + 1
  /\ inflight' = IF listener = "off" THEN inflight ELSE inflight + 1
  /\ UNCHANGED <<loops, stuck, listener, token, loop, errors, drops>>

\* Seeded fault: the connection only waits for notifications to come.
MutConnected == "waiting"

\* A connection that listens pokes once for what it may have missed.
Connected == "due"

Connect ==
  /\ listener = "off"
  /\ listener' = Connected
  /\ UNCHANGED <<loops, queued, stuck, inflight, token, loop, rows, errors, drops>>

Receive ==
  /\ listener = "waiting" /\ inflight > 0
  /\ inflight' = inflight - 1
  /\ listener' = "due"
  /\ UNCHANGED <<loops, queued, stuck, token, loop, rows, errors, drops>>

\* A token that is already there covers this poke too.
Poke ==
  /\ listener = "due"
  /\ token' = TRUE
  /\ listener' = "waiting"
  /\ UNCHANGED <<loops, queued, stuck, inflight, loop, rows, errors, drops>>

\* The connection is lost, and what was on its way with it.
Disconnect ==
  /\ listener # "off"
  /\ drops < MaxDrops /\ drops' = drops + 1
  /\ listener' = "off" /\ inflight' = 0
  /\ UNCHANGED <<loops, queued, stuck, token, loop, rows, errors>>

-----------------------------------------------------------------------------
(* The loops *)

\* Seeded fault: a loop that took a row goes straight to work.
MutAfterClaim == "busy"

\* More rows may be queued behind this one: runNextExec pokes before it runs it.
AfterClaim == IF Serial THEN "busy" ELSE "took"

Waiting == queued > 0

\* leaseJob, claimExec: at most one loop gets a row.
LookForRow(l) ==
  /\ loop[l] = "look"
  /\ \/ Waiting /\ queued' = queued - 1 /\ NowTo(l, AfterClaim)
     \/ ~Waiting /\ UNCHANGED queued /\ NowTo(l, "idle")
  /\ UNCHANGED <<loops, stuck, inflight, listener, token, rows, errors, drops>>

PokeOthers(l) ==
  /\ loop[l] = "took"
  /\ token' = TRUE
  /\ NowTo(l, "busy")
  /\ UNCHANGED <<loops, queued, stuck, inflight, listener, rows, errors, drops>>

\* The row is settled, and the loop looks again before it rests.
Done(l) ==
  /\ loop[l] = "busy"
  /\ NowTo(l, "look")
  /\ UNCHANGED <<loops, queued, stuck, inflight, listener, token, rows, errors, drops>>

\* retryOrFail and the env filter put a job back: an UPDATE, no notification.
PutBack(l) ==
  /\ Serial /\ loop[l] = "busy"
  /\ errors < MaxErrors /\ errors' = errors + 1
  /\ queued' = queued + 1
  /\ NowTo(l, "look") \/ NowTo(l, "sleep")
  /\ UNCHANGED <<loops, stuck, inflight, listener, token, rows, drops>>

\* A statement failed: the loop sleeps, deaf to pokes.
StatementFails(l) ==
  /\ loop[l] \in {"look", "busy"}
  /\ errors < MaxErrors /\ errors' = errors + 1
  /\ stuck' = IF loop[l] = "busy" THEN stuck + 1 ELSE stuck
  /\ NowTo(l, "sleep")
  /\ UNCHANGED <<loops, queued, inflight, listener, token, rows, drops>>

Wake(l) ==
  /\ loop[l] = "idle" /\ token
  /\ token' = FALSE
  /\ NowTo(l, "look")
  /\ UNCHANGED <<loops, queued, stuck, inflight, listener, rows, errors, drops>>

\* The poll interval is over.
Timer(l) ==
  /\ loop[l] \in {"idle", "sleep"}
  /\ NowTo(l, "look")
  /\ UNCHANGED <<loops, queued, stuck, inflight, listener, token, rows, errors, drops>>

\* A new process: jobs of the old one return to the queue, operations do not.
Restart ==
  /\ drops < MaxDrops /\ drops' = drops + 1
  /\ queued' = IF Serial THEN queued + stuck + Cardinality({l \in loops : loop[l] = "busy"})
                         ELSE queued
  /\ stuck' = 0
  /\ listener' = "off" /\ inflight' = 0 /\ token' = FALSE
  /\ loop' = [l \in loops |-> "look"]
  /\ UNCHANGED <<loops, rows, errors>>

-----------------------------------------------------------------------------
Work(l) == LookForRow(l) \/ PokeOthers(l) \/ Done(l)

WakeNext == \/ Insert \/ Connect \/ Receive \/ Poke \/ Disconnect \/ Restart
            \/ \E l \in loops : Work(l) \/ PutBack(l) \/ StatementFails(l) \/ Wake(l) \/ Timer(l)

WakeSpec == WakeInit /\ [][WakeNext]_wakeVars

AllLoops == ExecLoops \cup {JobLoop}
Mine(l)  == l \in loops

\* The goroutines run on, and only a loop that sleeps has a timer that ends.
LoopsRun ==
  /\ WF_wakeVars(Receive) /\ WF_wakeVars(Poke)
  /\ \A l \in AllLoops : /\ WF_wakeVars(Mine(l) /\ (Work(l) \/ Wake(l)))
                          /\ WF_wakeVars(Mine(l) /\ loop[l] = "sleep" /\ Timer(l))

-----------------------------------------------------------------------------
(* Properties *)

Resting == \E l \in loops : loop[l] = "idle"

\* No wake-up is lost: while the listener is connected, no loop rests over a
\* waiting row unless something already under way will wake it or a loop is
\* about to look, whatever pokes were merged and whoever took the token
\* (listenOnce, runNextExec).
NoRestOverWork ==
  Resting /\ queued > 0 /\ listener # "off" =>
    \/ token \/ listener = "due" \/ inflight > 0
    \/ \E l \in loops : loop[l] \in {"look", "took", "sleep"}

\* With a listener that stays connected every row is taken without the poll
\* timer: an insert or a connection is enough to wake the loops.
NotificationsSuffice == LoopsRun /\ <>[](listener # "off") => []<>(queued = 0)
=============================================================================
