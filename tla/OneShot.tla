-------------------------------- MODULE OneShot --------------------------------
(***************************************************************************)
(* What docs/agent-access.md promises of an operation on a machine: it is  *)
(* started at most once, it gets one outcome that stays, an outcome that   *)
(* says it never ran is true, and the agent is told one thing that fits    *)
(* what happened.  Several operations may move in one step: a worker that  *)
(* starts settles all it left behind at once.                              *)
(***************************************************************************)
EXTENDS Naturals

CONSTANT Calls

VARIABLES
  starts,    \* how often the operation was started on the machine
  outcome,   \* "open", "done", "refused", or the code it failed with
  told       \* what the agent was told, "none" before

shotVars == <<starts, outcome, told>>

NeverRan == {"refused", "machine_not_running", "expired"}
Failures == {"machine_not_running", "expired", "exec_failed", "worker_restarted"}

Init == /\ starts = [c \in Calls |-> 0]
        /\ outcome = [c \in Calls |-> "open"]
        /\ told = [c \in Calls |-> "none"]

Quiet(c) == UNCHANGED <<starts[c], outcome[c], told[c]>>

Start(c) == /\ outcome[c] = "open" /\ starts[c] = 0
            /\ starts'[c] = 1
            /\ UNCHANGED <<outcome[c], told[c]>>

Settle(c) == /\ outcome[c] = "open"
             /\ outcome'[c] \in Failures \cup {"done"}
             /\ outcome'[c] = "done" => starts[c] = 1
             /\ outcome'[c] \in NeverRan => starts[c] = 0
             /\ UNCHANGED <<starts[c], told[c]>>

\* The call is turned away and will never run.
Refuse(c) == /\ outcome[c] = "open" /\ starts[c] = 0 /\ told[c] = "none"
             /\ outcome'[c] = "refused"
             /\ told'[c] \in {"busy", "machine_not_running"}
             /\ UNCHANGED starts[c]

\* "exec_timeout" promises nothing: the operation may be running.
Tell(c) == /\ told[c] = "none"
           /\ \/ told'[c] = "done" /\ outcome[c] = "done"
              \/ told'[c] = "machine_not_running" /\ outcome[c] = "machine_not_running"
              \/ told'[c] = "exec_failed" /\ outcome[c] \in Failures
              \/ told'[c] = "exec_timeout"
           /\ UNCHANGED <<starts[c], outcome[c]>>

Next == \A c \in Calls : Quiet(c) \/ Start(c) \/ Settle(c) \/ Refuse(c) \/ Tell(c)

Spec == Init /\ [][Next]_shotVars
=============================================================================
