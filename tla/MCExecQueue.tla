----------------------------- MODULE MCExecQueue -----------------------------
\* A small instance of ExecQueue: two calls of one token to one machine, whose
\* worker has two loops.
EXTENDS ExecQueue, TLC

CONSTANTS e1, e2, t1, m1, home, l1, l2

MCTokenOf == [e \in Execs |-> t1]
MCMachineOf == [e \in Execs |-> m1]
MCEnvOf == [m \in Machines |-> home]
MCLoopEnv == [l \in Loops |-> home]
=============================================================================
