--------------------------- MODULE ExecQueueProofs ---------------------------
(***************************************************************************)
(* Proofs about the exec queue, for any calls, loops, environments, caps   *)
(* and fault bounds: it implements OneShot (an operation runs at most      *)
(* once, an expired one never, outcomes stay and answers are true), a      *)
(* token stays within its cap, and nothing is left to start once its       *)
(* caller has an answer.                                                   *)
(*                                                                         *)
(* And about the wake-ups of both queues, for any number of loops, rows    *)
(* and faults: none is lost.  That is inductive beside WakeTypeOK, because *)
(* the one job loop is the only loop that takes a row without a poke.      *)
(***************************************************************************)
EXTENDS ExecQueue, Wakeup, FiniteSetTheorems, SequenceTheorems, TLAPS

\* A row nobody took yet is untouched, and nobody holds it.
FreshRow(e) == row[e] \in {"none", "queued"} =>
                 /\ ran[e] = 0 /\ error[e] = "none"
                 /\ \A l \in Loops : e \notin held[l]

\* What a loop holds is a running row of its own live environment, started
\* only once it is past the run.
Holds(l) ==
  /\ at[l] = "down" <=> LoopEnv[l] \notin up
  /\ at[l] \in {"down", "idle"} => held[l] = {}
  /\ \A e \in held[l] :
       /\ row[e] = "running" /\ EnvOfExec(e) = LoopEnv[l]
       /\ at[l] \in {"look", "run"} => ran[e] = 0
       /\ at[l] = "finish" => /\ outcome[l] = "done" => ran[e] = 1
                              /\ outcome[l] # "done" => outcome[l] # "none"
                              /\ outcome[l] = "machine_not_running" => ran[e] = 0

Apart == \A k, l \in Loops : k # l => held[k] \cap held[l] = {}

\* What a row says of its past.
RowSays(e) ==
  /\ ran[e] <= 1
  /\ row[e] = "done" => ran[e] = 1
  /\ row[e] \in {"none", "queued", "running", "done"} => error[e] = "none"
  /\ row[e] = "failed" => error[e] # "none"
  /\ error[e] \in {"machine_not_running", "expired"} => ran[e] = 0

\* What a call says of its row.
CallSays(e) ==
  /\ call[e] \in {"idle", "enqueue"} => row[e] = "none"
  /\ call[e] \in {"wait", "late", "last"} => row[e] # "none"
  /\ answer[e] # "none" => call[e] = "answered"
  /\ answer[e] = "done" => ran[e] = 1
  /\ answer[e] \in {"machine_not_running", "busy"} =>
       ran[e] = 0 /\ row[e] \notin {"queued", "running"}

IInv == /\ TypeOK
        /\ Apart
        /\ \A l \in Loops : Holds(l)
        /\ \A e \in Execs : FreshRow(e) /\ RowSays(e) /\ CallSays(e)

LEMMA InitIInv == Init => IInv
<1> SUFFICES ASSUME Init PROVE IInv
  OBVIOUS
<1>1. TypeOK
  BY DEF Init, TypeOK
<1> QED
  BY <1>1 DEF IInv, Init, Apart, Holds, FreshRow, RowSays, CallSays

LEMMA TypeStep == TypeOK /\ [Next]_vars => TypeOK'
<1> SUFFICES ASSUME TypeOK, [Next]_vars PROVE TypeOK'
  OBVIOUS
<1> USE DEF TypeOK, rowVars, callVars, loopVars, envVars
<1>1. ASSUME NEW e \in Execs, CallStep(e) PROVE TypeOK'
  <2>1. CASE Begin(e)
    <3>1. made' \in Seq(Execs)
      <4>1. made' = made \/ made' = Append(made, e)
        BY <2>1 DEF Begin
      <4>2. made \in Seq(Execs)
        OBVIOUS
      <4> HIDE DEF TypeOK
      <4> QED
        BY <4>1, <4>2, AppendProperties
    <3>2. /\ call' \in [Execs -> {"idle", "enqueue", "wait", "late", "last",
                                  "answered", "lost"}]
          /\ answer' \in [Execs -> {"none", "done", "busy", "machine_not_running",
                                    "exec_failed", "exec_timeout"}]
      BY <2>1 DEF Begin, Answer
    <3> QED
      BY <2>1, <3>1, <3>2 DEF Begin
  <2>2. CASE Enqueue(e)
    BY <2>2 DEF Enqueue, Answer
  <2>3. CASE Poll(e)
    <3>1. Told(e) \in {"done", "machine_not_running", "exec_timeout", "exec_failed"}
      BY Zenon DEF Told
    <3> QED
      BY <2>3, <3>1 DEF Poll, Answer
  <2>4. CASE Deadline(e)
    BY <2>4 DEF Deadline
  <2>5. CASE Expire(e)
    BY <2>5 DEF Expire, Fail, Codes
  <2>6. CASE LastRead(e)
    <3>1. Told(e) \in {"done", "machine_not_running", "exec_timeout", "exec_failed"}
      BY Zenon DEF Told
    <3> QED
      BY <2>6, <3>1 DEF LastRead, Answer
  <2> QED
    BY <1>1, <2>1, <2>2, <2>3, <2>4, <2>5, <2>6 DEF CallStep
<1>2. ASSUME NEW e \in Execs, Drop(e) \/ Age(e) \/ Purge(e) PROVE TypeOK'
  BY <1>2 DEF Drop, Age, Purge
<1>3. ASSUME NEW l \in Loops, LoopStep(l) PROVE TypeOK'
  <2>1. CASE Claim(l)
    <3>1. PICK e \in Execs : /\ row' = [row EXCEPT ![e] = "running"]
                             /\ LoopAt(l, "look", {e}, "none")
      <4>1. PICK i \in DOMAIN made :
               /\ Claimable(LoopEnv[l], made[i])
               /\ row' = [row EXCEPT ![made[i]] = "running"]
               /\ LoopAt(l, "look", {made[i]}, "none")
        BY <2>1 DEF Claim
      <4> QED
        BY <4>1 DEF Claimable
    <3>2. UNCHANGED <<error, callVars, envVars, ran, dbErrors>>
      BY <2>1 DEF Claim
    <3> QED
      BY <3>1, <3>2 DEF LoopAt
  <2>2. CASE Look(l)
    <3>1. PICK p \in {"run", "finish"},
               o \in {"none", "machine_not_running", "exec_failed"} :
             LoopAt(l, p, held[l], o)
      BY <2>2 DEF Look
    <3>2. dbErrors' \in Nat /\ UNCHANGED <<rowVars, callVars, envVars, ran>>
      BY <2>2 DEF Look
    <3> QED
      BY <3>1, <3>2 DEF LoopAt
  <2>3. CASE RunIt(l)
    BY <2>3 DEF RunIt, LoopAt
  <2>4. CASE Finish(l)
    <3>1. \A e \in Execs : outcome[l] \notin {"done", "none"} /\ Fail(e, outcome[l])
             => /\ row' \in [Execs -> {"none", "queued", "running", "done", "failed",
                                       "purged"}]
                /\ error' \in [Execs -> {"none"} \cup Codes]
      BY DEF Fail, Codes
    <3>2. \A e \in Execs : outcome[l] = "none" /\ Fail(e, outcome[l])
             => /\ row' \in [Execs -> {"none", "queued", "running", "done", "failed",
                                       "purged"}]
                /\ error' \in [Execs -> {"none"} \cup Codes]
      BY DEF Fail, Codes
    <3>3. \A e \in held[l] : e \in Execs
      OBVIOUS
    <3>4. /\ row' \in [Execs -> {"none", "queued", "running", "done", "failed",
                                 "purged"}]
          /\ error' \in [Execs -> {"none"} \cup Codes]
      BY <2>4, <3>1, <3>2, <3>3 DEF Finish
    <3> QED
      BY <2>4, <3>4 DEF Finish, LoopAt
  <2> QED
    BY <1>3, <2>1, <2>2, <2>3, <2>4 DEF LoopStep
<1>4. ASSUME NEW n \in Envs, Boot(n) PROVE TypeOK'
  <2>1. \A e \in Execs : Recovered(e, n) \in {"none", "queued", "running", "done",
                                              "failed", "purged"}
    BY DEF Recovered
  <2>2. \A e \in Execs : RecoveredError(e, n) \in {"none"} \cup Codes
    BY Zenon DEF RecoveredError, Codes
  <2> QED
    BY <1>4, <2>1, <2>2 DEF Boot
<1>5. ASSUME NEW n \in Envs, Crash(n) PROVE TypeOK'
  BY <1>5 DEF Crash
<1>6. ASSUME NEW m \in Machines, Toggle(m) PROVE TypeOK'
  BY <1>6 DEF Toggle
<1>7. CASE UNCHANGED vars
  BY <1>7 DEF vars
<1> QED
  BY <1>1, <1>2, <1>3, <1>4, <1>5, <1>6, <1>7 DEF Next

-----------------------------------------------------------------------------
(* The induction *)

\* The parts of the invariant that speak of one loop or of one call.
Parts == /\ Apart
         /\ \A l \in Loops : Holds(l)
         /\ \A e \in Execs : FreshRow(e) /\ RowSays(e) /\ CallSays(e)

LEMMA CallStepParts ==
  ASSUME IInv, NEW e \in Execs, CallStep(e)
  PROVE  Parts'
<1> USE DEF IInv, Parts, Apart, Holds, FreshRow, RowSays, CallSays, TypeOK,
            rowVars, callVars, loopVars, envVars
<1>1. CASE Begin(e)
  BY <1>1 DEF Begin, Answer
<1>2. CASE Enqueue(e)
  BY <1>2 DEF Enqueue, Answer
<1>3. CASE Poll(e)
  <2>1. /\ Told(e) = "done" => row[e] = "done"
        /\ Told(e) = "machine_not_running" => error[e] = "machine_not_running"
        /\ Told(e) # "busy"
    BY Zenon DEF Told
  <2> QED
    BY <1>3, <2>1 DEF Poll, Answer, Finished
<1>4. CASE Deadline(e)
  BY <1>4 DEF Deadline
<1>5. CASE Expire(e)
  BY <1>5 DEF Expire, Expirable, Fail
<1>6. CASE LastRead(e)
  <2>1. /\ Told(e) = "done" => row[e] = "done"
        /\ Told(e) = "machine_not_running" => error[e] = "machine_not_running"
        /\ Told(e) # "busy"
    BY Zenon DEF Told
  <2> QED
    BY <1>6, <2>1 DEF LastRead, Answer, Finished
<1> QED
  BY <1>1, <1>2, <1>3, <1>4, <1>5, <1>6 DEF CallStep

LEMMA OtherParts ==
  ASSUME IInv, NEW e \in Execs, Drop(e) \/ Age(e) \/ Purge(e)
  PROVE  Parts'
<1> USE DEF IInv, Parts, Apart, Holds, FreshRow, RowSays, CallSays, TypeOK,
            rowVars, callVars, loopVars, envVars
<1>1. CASE Drop(e)
  BY <1>1 DEF Drop
<1>2. CASE Age(e)
  BY <1>2 DEF Age
<1>3. CASE Purge(e)
  BY <1>3 DEF Purge, Finished
<1> QED
  BY <1>1, <1>2, <1>3

LEMMA LoopStepParts ==
  ASSUME IInv, NEW l \in Loops, LoopStep(l)
  PROVE  Parts'
<1> USE DEF IInv, Parts, Apart, Holds, FreshRow, RowSays, CallSays, TypeOK,
            rowVars, callVars, loopVars, envVars
<1>1. CASE Claim(l)
  <2>1. PICK e \in Execs : /\ row[e] = "queued" /\ EnvOfExec(e) = LoopEnv[l]
                           /\ row' = [row EXCEPT ![e] = "running"]
                           /\ LoopAt(l, "look", {e}, "none")
    <3>1. PICK i \in DOMAIN made :
             /\ Claimable(LoopEnv[l], made[i])
             /\ row' = [row EXCEPT ![made[i]] = "running"]
             /\ LoopAt(l, "look", {made[i]}, "none")
      BY <1>1 DEF Claim
    <3> QED
      BY <3>1 DEF Claimable
  <2>2. at[l] = "idle" /\ UNCHANGED <<error, callVars, envVars, ran, dbErrors>>
    BY <1>1 DEF Claim
  <2> QED
    BY <2>1, <2>2 DEF LoopAt, EnvOfExec
<1>2. CASE Look(l)
  BY <1>2 DEF Look, LoopAt, EnvOfExec
<1>3. CASE RunIt(l)
  BY <1>3 DEF RunIt, LoopAt, EnvOfExec
<1>4. CASE Finish(l)
  BY <1>4 DEF Finish, LoopAt, Fail, EnvOfExec
<1> QED
  BY <1>1, <1>2, <1>3, <1>4 DEF LoopStep

LEMMA BootParts ==
  ASSUME IInv, NEW n \in Envs, Boot(n)
  PROVE  Parts'
<1> USE DEF IInv, Parts, Apart, Holds, FreshRow, RowSays, CallSays, TypeOK,
            rowVars, callVars, loopVars, envVars
<1>1. \A e \in Execs : LeftBehind(e, n) => \A l \in Loops : e \notin held[l]
  <2>1. \A l \in Loops : LoopEnv[l] = n => held[l] = {}
    BY DEF Boot
  <2> QED
    BY <2>1 DEF LeftBehind, EnvOfExec
<1>2. \A e \in Execs :
        \/ row'[e] = row[e] /\ error'[e] = error[e]
        \/ /\ LeftBehind(e, n)
           /\ row'[e] = "failed" /\ error'[e] = "worker_restarted"
        \/ /\ TooOld(e, n)
           /\ row'[e] = "failed" /\ error'[e] = "expired"
  <2>1. \A e \in Execs :
          /\ LeftBehind(e, n) => RecoveredError(e, n) = "worker_restarted"
          /\ TooOld(e, n) => RecoveredError(e, n) = "expired"
          /\ ~LeftBehind(e, n) /\ ~TooOld(e, n) => RecoveredError(e, n) = error[e]
    <3>1. \A e \in Execs : ~(LeftBehind(e, n) /\ TooOld(e, n))
      BY DEF LeftBehind, TooOld
    <3> QED
      BY <3>1, Zenon DEF RecoveredError
  <2> QED
    BY <2>1 DEF Boot, Recovered
<1>3. \A e \in Execs : LeftBehind(e, n) \/ TooOld(e, n) => row[e] \in {"queued", "running"}
  BY DEF LeftBehind, TooOld
<1>4. \A e \in Execs : TooOld(e, n) => row[e] = "queued"
  BY DEF TooOld
<1>5. UNCHANGED <<callVars, held, outcome, ran>> /\ up' = up \cup {n} /\ n \notin up
  BY DEF Boot
<1>6. at' = [l \in Loops |-> IF LoopEnv[l] = n THEN "idle" ELSE at[l]]
  BY DEF Boot
<1>7. Apart' /\ \A l \in Loops : Holds(l)'
  BY <1>1, <1>2, <1>3, <1>4, <1>5, <1>6 DEF EnvOfExec
<1>8. \A e \in Execs : FreshRow(e)' /\ RowSays(e)' /\ CallSays(e)'
  BY <1>1, <1>2, <1>3, <1>4, <1>5
<1> QED
  BY <1>7, <1>8

LEMMA ProcessParts ==
  ASSUME IInv, \/ \E n \in Envs : Crash(n)
               \/ \E m \in Machines : Toggle(m)
               \/ UNCHANGED vars
  PROVE  Parts'
<1> USE DEF IInv, Parts, Apart, Holds, FreshRow, RowSays, CallSays, TypeOK,
            rowVars, callVars, loopVars, envVars
<1>1. ASSUME NEW n \in Envs, Crash(n) PROVE Parts'
  BY <1>1 DEF Crash, EnvOfExec
<1>2. ASSUME NEW m \in Machines, Toggle(m) PROVE Parts'
  BY <1>2 DEF Toggle, EnvOfExec
<1>3. CASE UNCHANGED vars
  BY <1>3 DEF vars, EnvOfExec
<1> QED
  BY <1>1, <1>2, <1>3

LEMMA StepIInv == IInv /\ [Next]_vars => IInv'
<1> SUFFICES ASSUME IInv, [Next]_vars PROVE IInv'
  OBVIOUS
<1>1. TypeOK'
  BY TypeStep DEF IInv
<1>2. Parts'
  BY CallStepParts, OtherParts, LoopStepParts, BootParts, ProcessParts DEF Next
<1> QED
  BY <1>1, <1>2 DEF IInv, Parts

LEMMA Inductive == Spec => []IInv
<1> QED
  BY InitIInv, StepIInv, PTL DEF Spec

\* Every reachable state is well typed.
THEOREM TypeCorrect == Spec => []TypeOK
<1>1. IInv => TypeOK
  BY DEF IInv
<1> QED
  BY <1>1, Inductive, PTL

\* No process fails a row that a live loop of another one holds (recoverExecs).
THEOREM LoopsKeepTheirRows == Spec => []HeldIsRunning
<1>1. IInv => HeldIsRunning
  BY DEF IInv, TypeOK, Holds, Apart, HeldIsRunning
<1> QED
  BY <1>1, Inductive, PTL

-----------------------------------------------------------------------------
(* The refinement *)

\* The steps of OneShot, for one call, in the variables of the queue.
Same(e)      == ran'[e] = ran[e] /\ Outcome(e)' = Outcome(e) /\ answer'[e] = answer[e]
Started(e)   == /\ Outcome(e) = "open" /\ ran[e] = 0 /\ ran'[e] = 1
                /\ Outcome(e)' = Outcome(e) /\ answer'[e] = answer[e]
Settled(e)   == /\ Outcome(e) = "open"
                /\ \/ Outcome(e)' = "done" /\ ran[e] = 1
                   \/ Outcome(e)' \in {"machine_not_running", "expired"} /\ ran[e] = 0
                   \/ Outcome(e)' \in {"exec_failed", "worker_restarted"}
                /\ ran'[e] = ran[e] /\ answer'[e] = answer[e]
TurnedAway(e) == /\ Outcome(e) = "open" /\ ran[e] = 0 /\ answer[e] = "none"
                 /\ Outcome(e)' = "refused"
                 /\ answer'[e] \in {"busy", "machine_not_running"}
                 /\ ran'[e] = ran[e]
ToldSo(e)    == /\ answer[e] = "none"
                /\ \/ answer'[e] = "done" /\ Outcome(e) = "done"
                   \/ answer'[e] = "machine_not_running" /\ Outcome(e) = "machine_not_running"
                   \/ answer'[e] = "exec_failed" /\ Outcome(e) \in Codes
                   \/ answer'[e] = "exec_timeout"
                /\ ran'[e] = ran[e] /\ Outcome(e)' = Outcome(e)

ShotStep(e) == Same(e) \/ Started(e) \/ Settled(e) \/ TurnedAway(e) \/ ToldSo(e)

\* What a settled row says to its caller.
LEMMA ToldIsTrue ==
  ASSUME IInv, NEW e \in Execs, Finished(e)
  PROVE  \/ Told(e) = "done" /\ Outcome(e) = "done"
         \/ Told(e) = "machine_not_running" /\ Outcome(e) = "machine_not_running"
         \/ Told(e) = "exec_failed" /\ Outcome(e) \in Codes
         \/ Told(e) = "exec_timeout"
<1>1. row[e] = "done" => error[e] = "none" /\ Told(e) = "done"
  <2>1. row[e] = "done" => error[e] = "none"
    BY DEF IInv, RowSays
  <2>2. row[e] = "done" /\ error[e] = "none" => Told(e) = "done"
    BY Zenon DEF Told
  <2> QED
    BY <2>1, <2>2
<1>2. row[e] = "failed" => error[e] \in Codes
  BY DEF IInv, RowSays, TypeOK
<1>3. row[e] = "failed" =>
        \/ error[e] = "machine_not_running" /\ Told(e) = "machine_not_running"
        \/ error[e] = "expired" /\ Told(e) = "exec_timeout"
        \/ Told(e) = "exec_failed"
  <2>1. /\ "done" # "failed" /\ "machine_not_running" # "expired"
    OBVIOUS
  <2> QED
    BY <2>1, Zenon DEF Told
<1> QED
  BY <1>1, <1>2, <1>3 DEF Finished, Outcome, Codes

LEMMA StepsAreShots ==
  ASSUME IInv, [Next]_vars, NEW x \in Execs
  PROVE  ShotStep(x)
<1> USE DEF IInv, TypeOK, ShotStep, Same, Started, Settled, TurnedAway, ToldSo,
            Outcome, FreshRow, RowSays, CallSays, Holds, Apart, rowVars, callVars,
            loopVars, envVars
<1>1. ASSUME NEW e \in Execs, Begin(e) \/ Enqueue(e) \/ Deadline(e) PROVE ShotStep(x)
  BY <1>1 DEF Begin, Enqueue, Deadline, Answer
<1>2. ASSUME NEW e \in Execs, Poll(e) \/ LastRead(e) PROVE ShotStep(x)
  <2>1. UNCHANGED <<rowVars, ran>>
    BY <1>2 DEF Poll, LastRead
  <2>2. \/ answer' = answer
        \/ /\ answer' = [answer EXCEPT ![e] = "exec_timeout"]
           /\ row[e] # "none" /\ answer[e] = "none"
        \/ /\ answer' = [answer EXCEPT ![e] = Told(e)]
           /\ Finished(e) /\ answer[e] = "none"
    BY <1>2 DEF Poll, LastRead, Answer
  <2>3. CASE x = e
    <3> HIDE DEF Outcome
    <3>1. Outcome(x)' = Outcome(x)
      BY <2>1, <2>2, <2>3 DEF Outcome, Finished
    <3>2. CASE answer' = [answer EXCEPT ![e] = Told(e)] /\ Finished(e) /\ answer[e] = "none"
      <4>1. answer'[x] = Told(e) /\ ran'[x] = ran[x]
        BY <2>1, <2>3, <3>2
      <4> QED
        BY <2>3, <3>1, <3>2, <4>1, ToldIsTrue
    <3> QED
      BY <2>1, <2>2, <2>3, <3>1, <3>2
  <2>4. CASE x # e
    BY <2>1, <2>2, <2>4
  <2> QED
    BY <2>3, <2>4
<1>3. ASSUME NEW e \in Execs, Expire(e) PROVE ShotStep(x)
  BY <1>3 DEF Expire, Expirable, Fail, Codes
<1>4. ASSUME NEW e \in Execs, Drop(e) \/ Age(e) \/ Purge(e) PROVE ShotStep(x)
  BY <1>4 DEF Drop, Age, Purge, Finished
<1>5. ASSUME NEW l \in Loops, Claim(l) PROVE ShotStep(x)
  <2>1. PICK i \in DOMAIN made : /\ Claimable(LoopEnv[l], made[i])
                                 /\ row' = [row EXCEPT ![made[i]] = "running"]
    BY <1>5 DEF Claim
  <2>2. UNCHANGED <<error, ran, answer>>
    BY <1>5 DEF Claim
  <2> QED
    BY <2>1, <2>2 DEF Claimable
<1>6. ASSUME NEW l \in Loops, Look(l) \/ RunIt(l) PROVE ShotStep(x)
  BY <1>6 DEF Look, RunIt, LoopAt
<1>7. ASSUME NEW l \in Loops, Finish(l) PROVE ShotStep(x)
  BY <1>7 DEF Finish, Fail
<1>8. ASSUME NEW n \in Envs, Boot(n) PROVE ShotStep(x)
  <2>1. UNCHANGED <<ran, answer>>
    BY <1>8 DEF Boot
  <2>2. CASE LeftBehind(x, n) \/ TooOld(x, n)
    <3>1. \/ row[x] = "running" /\ RecoveredError(x, n) = "worker_restarted"
          \/ row[x] = "queued" /\ RecoveredError(x, n) = "expired"
      <4>1. ~(LeftBehind(x, n) /\ TooOld(x, n))
        BY DEF LeftBehind, TooOld
      <4>2. /\ LeftBehind(x, n) => RecoveredError(x, n) = "worker_restarted"
            /\ TooOld(x, n) => RecoveredError(x, n) = "expired"
        BY <4>1, Zenon DEF RecoveredError
      <4> QED
        BY <2>2, <4>2 DEF LeftBehind, TooOld
    <3>2. row'[x] = "failed" /\ error'[x] = RecoveredError(x, n)
      BY <1>8, <2>2 DEF Boot, Recovered
    <3> QED
      BY <2>1, <3>1, <3>2
  <2>3. CASE ~LeftBehind(x, n) /\ ~TooOld(x, n)
    <3>1. RecoveredError(x, n) = error[x]
      BY <2>3, Zenon DEF RecoveredError
    <3> QED
      BY <1>8, <2>1, <2>3, <3>1 DEF Boot, Recovered
  <2> QED
    BY <2>2, <2>3
<1>9. ASSUME NEW n \in Envs, Crash(n) PROVE ShotStep(x)
  BY <1>9 DEF Crash
<1>10. ASSUME NEW m \in Machines, Toggle(m) PROVE ShotStep(x)
  BY <1>10 DEF Toggle
<1>11. CASE UNCHANGED vars
  BY <1>11 DEF vars
<1> QED
  BY <1>1, <1>2, <1>3, <1>4, <1>5, <1>6, <1>7, <1>8, <1>9, <1>10, <1>11
     DEF Next, CallStep, LoopStep

\* The queue keeps the promise of one shot per operation: whatever dies or
\* fails, an operation starts at most once, its outcome is written once and is
\* true, and the agent is told nothing else (claimExec, finishExec,
\* expireQueuedExec, recoverExecs, execFailure).
THEOREM OneShotImplemented == Spec => OperationsAreOneShot
<1>1. Init => Promised!Init
  BY DEF Init, Promised!Init, Outcome
<1>2. ASSUME IInv, [Next]_vars PROVE [Promised!Next]_(Promised!shotVars)
  <2>1. ASSUME NEW x \in Execs
        PROVE  \/ Promised!Quiet(x) \/ Promised!Start(x) \/ Promised!Settle(x)
               \/ Promised!Refuse(x) \/ Promised!Tell(x)
    <3>1. ShotStep(x)
      BY <1>2, StepsAreShots
    <3>2. Same(x) => Promised!Quiet(x)
      BY DEF Same, Promised!Quiet
    <3>3. Started(x) => Promised!Start(x)
      BY DEF Started, Promised!Start
    <3>4. Settled(x) => Promised!Settle(x)
      BY DEF Settled, Promised!Settle, Promised!Failures, Promised!NeverRan
    <3>5. TurnedAway(x) => Promised!Refuse(x)
      BY DEF TurnedAway, Promised!Refuse
    <3>6. ToldSo(x) => Promised!Tell(x)
      BY DEF ToldSo, Promised!Tell, Promised!Failures, Codes
    <3> QED
      BY <3>1, <3>2, <3>3, <3>4, <3>5, <3>6 DEF ShotStep
  <2> QED
    BY <2>1 DEF Promised!Next
<1> QED
  BY <1>1, <1>2, InitIInv, StepIInv, PTL DEF Spec, OperationsAreOneShot, Promised!Spec

-----------------------------------------------------------------------------
(* The cap *)

\* No row becomes active in this step that was not.
NoNewRow == \A e \in Execs : row'[e] \in {"queued", "running"}
                               => row[e] \in {"queued", "running"}

LEMMA OnlyEnqueueAdds ==
  ASSUME IInv, [Next]_vars
  PROVE  NoNewRow \/ \E e \in Execs : Enqueue(e)
<1> USE DEF IInv, TypeOK, rowVars, callVars, loopVars, envVars
<1>1. ASSUME NEW e \in Execs, CallStep(e), ~Enqueue(e) PROVE NoNewRow
  BY <1>1 DEF NoNewRow, CallStep, Begin, Poll, Deadline, Expire, Fail, LastRead
<1>2. ASSUME NEW e \in Execs, Drop(e) \/ Age(e) \/ Purge(e) PROVE NoNewRow
  BY <1>2 DEF NoNewRow, Drop, Age, Purge
<1>3. ASSUME NEW l \in Loops, Claim(l) PROVE NoNewRow
  <2>1. PICK i \in DOMAIN made : /\ Claimable(LoopEnv[l], made[i])
                                 /\ row' = [row EXCEPT ![made[i]] = "running"]
    BY <1>3 DEF Claim
  <2> QED
    BY <2>1 DEF NoNewRow, Claimable
<1>4. ASSUME NEW l \in Loops, Look(l) \/ RunIt(l) \/ Finish(l) PROVE NoNewRow
  BY <1>4 DEF NoNewRow, Look, RunIt, Finish, Fail
<1>5. ASSUME NEW n \in Envs, Boot(n) \/ Crash(n) PROVE NoNewRow
  BY <1>5 DEF NoNewRow, Boot, Crash, Recovered
<1>6. ASSUME NEW m \in Machines, Toggle(m) PROVE NoNewRow
  BY <1>6 DEF NoNewRow, Toggle
<1>7. CASE UNCHANGED vars
  BY <1>7 DEF NoNewRow, vars
<1> QED
  BY <1>1, <1>2, <1>3, <1>4, <1>5, <1>6, <1>7 DEF Next, LoopStep

\* Only enqueueExec adds an active row, one at a time and below the cap.
LEMMA CapStep == IInv /\ CapHolds /\ [Next]_vars => CapHolds'
<1> SUFFICES ASSUME IInv, CapHolds, [Next]_vars, NEW t \in Tokens
             PROVE  (Cardinality(ActiveRows(t)) <= Cap)'
  BY DEF CapHolds
<1>1. IsFiniteSet(ActiveRows(t)) /\ Cardinality(ActiveRows(t)) \in Nat
  <2>1. ActiveRows(t) \subseteq Execs
    BY DEF ActiveRows
  <2> QED
    BY <2>1, ExecAssumption, FS_Subset, FS_CardinalityType
<1>2. Cardinality(ActiveRows(t)) <= Cap
  BY DEF CapHolds
<1>3. ASSUME NEW e \in Execs, Enqueue(e) PROVE (Cardinality(ActiveRows(t)) <= Cap)'
  <2>1. CASE row' = row
    <3>1. ActiveRows(t)' = ActiveRows(t)
      BY <2>1 DEF ActiveRows
    <3> QED
      BY <3>1, <1>2
  <2>2. CASE row' # row
    <3>1. ~OverCap(TokenOf[e]) /\ row' = [row EXCEPT ![e] = "queued"]
      BY <1>3, <2>2 DEF Enqueue, Answer
    <3>2. CASE TokenOf[e] # t
      <4>1. ActiveRows(t)' = ActiveRows(t)
        BY <3>1, <3>2 DEF ActiveRows, IInv, TypeOK
      <4> QED
        BY <4>1, <1>2
    <3>3. CASE TokenOf[e] = t
      <4>1. ActiveRows(t)' = ActiveRows(t) \cup {e}
        BY <3>1, <3>3 DEF ActiveRows, IInv, TypeOK
      <4>2. Cardinality(ActiveRows(t)) < Cap
        <5>1. ~(Cardinality(ActiveRows(t)) >= Cap)
          BY <3>1, <3>3 DEF OverCap
        <5> QED
          BY <5>1, <1>1, ExecAssumption
      <4>3. Cardinality(ActiveRows(t) \cup {e}) <= Cardinality(ActiveRows(t)) + 1
        <5> DEFINE S == ActiveRows(t)
        <5>1. IsFiniteSet(S) /\ Cardinality(S) \in Nat
          BY <1>1
        <5>2. \/ Cardinality(S \cup {e}) = Cardinality(S)
              \/ Cardinality(S \cup {e}) = Cardinality(S) + 1
          BY <5>1, FS_AddElement
        <5> HIDE DEF S
        <5>3. Cardinality(S \cup {e}) <= Cardinality(S) + 1
          BY <5>1, <5>2
        <5> QED
          BY <5>3 DEF S
      <4>4. Cardinality(ActiveRows(t) \cup {e}) \in Nat
        BY <1>1, FS_AddElement, FS_CardinalityType
      <4> QED
        BY <4>1, <4>2, <4>3, <4>4, <1>1, ExecAssumption
    <3> QED
      BY <3>2, <3>3
  <2> QED
    BY <2>1, <2>2
<1>4. CASE NoNewRow
  <2>1. ActiveRows(t)' \subseteq ActiveRows(t)
    BY <1>4 DEF ActiveRows, NoNewRow
  <2>2. Cardinality(ActiveRows(t)') <= Cardinality(ActiveRows(t))
    BY <2>1, <1>1, FS_Subset
  <2>3. Cardinality(ActiveRows(t)') \in Nat
    BY <2>1, <1>1, FS_Subset, FS_CardinalityType
  <2> QED
    BY <2>2, <2>3, <1>1, <1>2, ExecAssumption
<1> QED
  BY <1>3, <1>4, OnlyEnqueueAdds

\* Concurrent calls never exceed the cap of a token (enqueueExec).
THEOREM TokensKeepTheirCap == Spec => []CapHolds
<1>1. Init => CapHolds
  <2> SUFFICES ASSUME Init, NEW t \in Tokens PROVE Cardinality(ActiveRows(t)) <= Cap
    BY DEF CapHolds
  <2>1. ActiveRows(t) = {}
    BY DEF Init, ActiveRows
  <2> QED
    BY <2>1, FS_EmptySet, ExecAssumption
<1> QED
  BY <1>1, CapStep, Inductive, PTL DEF Spec

-----------------------------------------------------------------------------
\* From the expiry on, a row nobody took is not up for a claim: either it was
\* expired or a statement has failed.
GoneInv == dbErrors = 0 => \A e \in Execs : call[e] \in {"last", "answered"} => row[e] # "queued"

\* Calls and rows of everybody else, in a step that puts nothing into the queue.
LEMMA GoneKeeps ==
  ASSUME IInv, GoneInv, dbErrors' = 0 => dbErrors = 0,
         \A e \in Execs :
           call'[e] \in {"last", "answered"} /\ row'[e] = "queued" =>
             call[e] \in {"last", "answered"} /\ row[e] = "queued"
  PROVE  GoneInv'
BY DEF GoneInv

\* The invariant, one action at a time.
LEMMA GoneStep == ASSUME IInv, GoneInv, [Next]_vars PROVE GoneInv'
<1> USE DEF rowVars, callVars, loopVars, envVars
<1>0. /\ row \in [Execs -> {"none", "queued", "running", "done", "failed", "purged"}]
      /\ call \in [Execs -> {"idle", "enqueue", "wait", "late", "last", "answered", "lost"}]
      /\ dbErrors \in Nat
      /\ \A e \in Execs : call[e] = "idle" => row[e] = "none"
  BY DEF IInv, TypeOK, CallSays
\* A call moves to what is neither its last read nor its answer, or takes its
\* row off the queue, or had left it before.
<1>1. ASSUME NEW e \in Execs, CallStep(e) PROVE GoneInv'
  <2>1. CASE Begin(e)
    BY <1>0, <2>1, GoneKeeps DEF Begin, Answer
  <2>2. CASE Enqueue(e)
    <3>1. CASE OverCap(TokenOf[e])
      <4>1. row[e] = "none" /\ UNCHANGED <<row, dbErrors>>
        BY <2>2, <3>1 DEF Enqueue, IInv, CallSays
      <4> QED
        BY <1>0, <2>2, <3>1, <4>1, GoneKeeps DEF Enqueue, Answer
    <3>2. CASE ~OverCap(TokenOf[e])
      BY <1>0, <2>2, <3>2, GoneKeeps DEF Enqueue
    <3> QED
      BY <3>1, <3>2
  <2>3. CASE Poll(e)
    BY <1>0, <2>3, GoneKeeps DEF Poll, Answer, Finished
  <2>4. CASE Deadline(e)
    BY <1>0, <2>4, GoneKeeps DEF Deadline
  <2>5. CASE Expire(e)
    <3>1. CASE dbErrors' = dbErrors + 1
      <4>1. dbErrors' # 0
        BY <1>0, <3>1
      <4> QED
        BY <4>1 DEF GoneInv
    <3>2. CASE row[e] = "queued" /\ Fail(e, "expired") /\ UNCHANGED dbErrors
      BY <1>0, <2>5, <3>2, GoneKeeps DEF Expire, Fail
    <3>3. CASE row[e] # "queued" /\ UNCHANGED rowVars /\ UNCHANGED dbErrors
      BY <1>0, <2>5, <3>3, GoneKeeps DEF Expire
    <3> QED
      BY <2>5, <3>1, <3>2, <3>3 DEF Expire, Expirable
  <2>6. CASE LastRead(e)
    BY <1>0, <2>6, GoneKeeps DEF LastRead, Answer
  <2> QED
    BY <1>1, <2>1, <2>2, <2>3, <2>4, <2>5, <2>6 DEF CallStep
<1>2. ASSUME NEW e \in Execs, Drop(e) \/ Age(e) \/ Purge(e) PROVE GoneInv'
  BY <1>0, <1>2, GoneKeeps DEF Drop, Age, Purge
<1>3. ASSUME NEW l \in Loops, LoopStep(l) PROVE GoneInv'
  <2>1. UNCHANGED call /\ (dbErrors' = 0 => dbErrors = 0)
    BY <1>0, <1>3 DEF LoopStep, Claim, Look, RunIt, Finish
  <2>2. \A e \in Execs : row'[e] = "queued" => row[e] = "queued"
    BY <1>0, <1>3 DEF LoopStep, Claim, Look, RunIt, Finish, Fail
  <2> QED
    BY <2>1, <2>2, GoneKeeps
<1>4. ASSUME NEW n \in Envs, Boot(n) \/ Crash(n) PROVE GoneInv'
  <2>1. UNCHANGED <<call, dbErrors>>
    BY <1>4 DEF Boot, Crash
  <2>2. \A e \in Execs : row'[e] = "queued" => row[e] = "queued"
    BY <1>0, <1>4 DEF Boot, Crash, Recovered
  <2> QED
    BY <2>1, <2>2, GoneKeeps
<1>5. CASE (\E m \in Machines : Toggle(m)) \/ UNCHANGED vars
  BY <1>5, GoneKeeps DEF Toggle, vars
<1> QED
  BY <1>1, <1>2, <1>3, <1>4, <1>5 DEF Next

\* Once the caller has its answer the operation cannot start any more, unless a
\* statement failed, however loops, restarts and other calls come in between
\* (waitForExec, expireQueuedExec, claimExec, recoverExecs).
THEOREM AnsweredNeverStarts == Spec => []AnsweredIsNotQueued
<1>1. Init => GoneInv
  BY DEF Init, GoneInv
<1>2. GoneInv => AnsweredIsNotQueued
  BY DEF GoneInv, AnsweredIsNotQueued
<1>3. IInv /\ GoneInv /\ [Next]_vars => GoneInv'
  BY GoneStep
<1> QED
  BY <1>1, <1>2, <1>3, Inductive, PTL DEF Spec

-----------------------------------------------------------------------------
(* Wake-ups *)

\* What a step of a loop does to the map of loops.
LEMMA OneLoopMoves ==
  ASSUME WakeTypeOK, NEW l \in loops, NEW p \in {"look", "took", "busy", "idle", "sleep"},
         NowTo(l, p)
  PROVE  /\ loop' \in [loops -> {"look", "took", "busy", "idle", "sleep"}]
         /\ loop'[l] = p
         /\ \A k \in loops \ {l} : loop'[k] = loop[k]
BY DEF WakeTypeOK, NowTo

LEMMA BusyLoopsAreFinite ==
  ASSUME WakeTypeOK
  PROVE  Cardinality({l \in loops : loop[l] = "busy"}) \in Nat
<1> DEFINE Busy == {l \in loops : loop[l] = "busy"}
<1>1. IsFiniteSet({JobLoop})
  BY FS_Singleton
<1>2. loops = {JobLoop} \/ loops = ExecLoops
  BY DEF WakeTypeOK
<1>3. IsFiniteSet(loops)
  BY <1>1, <1>2, WakeupAssumption
<1>4. IsFiniteSet(Busy)
  BY <1>3, FS_Subset
<1> QED
  BY <1>4, FS_CardinalityType

-----------------------------------------------------------------------------
LEMMA TypeOKInit == WakeInit => WakeTypeOK
<1> SUFFICES ASSUME WakeInit PROVE WakeTypeOK
  OBVIOUS
<1>1. loop \in [loops -> {"look", "took", "busy", "idle", "sleep"}]
  BY DEF WakeInit
<1> QED
  BY <1>1 DEF WakeInit, WakeTypeOK

LEMMA TypeOKStep == WakeTypeOK /\ [WakeNext]_wakeVars => WakeTypeOK'
<1> SUFFICES ASSUME WakeTypeOK, [WakeNext]_wakeVars PROVE WakeTypeOK'
  OBVIOUS
<1>1. CASE Insert
  BY <1>1 DEF Insert, WakeTypeOK
<1>2. CASE Connect
  BY <1>2 DEF Connect, Connected, WakeTypeOK
<1>3. CASE Receive
  BY <1>3 DEF Receive, WakeTypeOK
<1>4. CASE Poke
  BY <1>4 DEF Poke, WakeTypeOK
<1>5. CASE Disconnect
  BY <1>5 DEF Disconnect, WakeTypeOK
<1>6. CASE Restart
  <2>1. queued' \in Nat
    <3> DEFINE busy == Cardinality({l \in loops : loop[l] = "busy"})
    <3>1. busy \in Nat
      BY BusyLoopsAreFinite
    <3>2. queued' = IF Serial THEN queued + stuck + busy ELSE queued
      BY <1>6 DEF Restart
    <3> HIDE DEF busy
    <3> QED
      BY <3>1, <3>2 DEF WakeTypeOK
  <2>2. loop' \in [loops -> {"look", "took", "busy", "idle", "sleep"}]
    BY <1>6 DEF Restart
  <2>6. loops' = loops
    BY <1>6 DEF Restart
  <2>3. token' \in BOOLEAN /\ listener' \in {"off", "due", "waiting"}
    BY <1>6 DEF Restart
  <2>4. stuck' \in Nat /\ inflight' \in Nat /\ drops' \in Nat
    BY <1>6 DEF Restart, WakeTypeOK
  <2>5. rows' \in Nat /\ errors' \in Nat
    BY <1>6 DEF Restart, WakeTypeOK
  <2> QED
    BY <2>1, <2>2, <2>3, <2>4, <2>5, <2>6 DEF WakeTypeOK
<1>7. ASSUME NEW l \in loops, LookForRow(l) PROVE WakeTypeOK'
  <2>1. AfterClaim \in {"took", "busy"}
    BY DEF AfterClaim
  <2>2. loop' \in [loops -> {"look", "took", "busy", "idle", "sleep"}]
    BY <1>7, <2>1, OneLoopMoves DEF LookForRow
  <2> QED
    BY <1>7, <2>2 DEF LookForRow, Waiting, WakeTypeOK
<1>8. ASSUME NEW l \in loops, PokeOthers(l) PROVE WakeTypeOK'
  BY <1>8, OneLoopMoves DEF PokeOthers, WakeTypeOK
<1>9. ASSUME NEW l \in loops, Done(l) PROVE WakeTypeOK'
  BY <1>9, OneLoopMoves DEF Done, WakeTypeOK
<1>10. ASSUME NEW l \in loops, PutBack(l) PROVE WakeTypeOK'
  BY <1>10, OneLoopMoves DEF PutBack, WakeTypeOK
<1>11. ASSUME NEW l \in loops, StatementFails(l) PROVE WakeTypeOK'
  BY <1>11, OneLoopMoves DEF StatementFails, WakeTypeOK
<1>12. ASSUME NEW l \in loops, Wake(l) PROVE WakeTypeOK'
  BY <1>12, OneLoopMoves DEF Wake, WakeTypeOK
<1>13. ASSUME NEW l \in loops, Timer(l) PROVE WakeTypeOK'
  BY <1>13, OneLoopMoves DEF Timer, WakeTypeOK
<1>14. CASE UNCHANGED wakeVars
  BY <1>14 DEF wakeVars, WakeTypeOK
<1> QED
  BY <1>1, <1>2, <1>3, <1>4, <1>5, <1>6, <1>7, <1>8, <1>9, <1>10, <1>11, <1>12,
     <1>13, <1>14 DEF WakeNext, Work

\* The state of the wake-up machinery is well typed, whatever fails.
THEOREM WakeTypeCorrect == WakeSpec => []WakeTypeOK
BY TypeOKInit, TypeOKStep, PTL DEF WakeSpec

-----------------------------------------------------------------------------
\* A loop that moves to a state that looks again satisfies the invariant.
LEMMA LookingLoop ==
  ASSUME WakeTypeOK, NEW l \in loops, NEW p \in {"look", "took", "sleep"}, NowTo(l, p), loops' = loops
  PROVE  NoRestOverWork'
<1>1. loop'[l] = p
  BY OneLoopMoves
<1> QED
  BY <1>1 DEF NoRestOverWork

LEMMA NoRestInit == WakeInit => NoRestOverWork
BY DEF WakeInit, NoRestOverWork, Resting

LEMMA NoRestStep == WakeTypeOK /\ NoRestOverWork /\ [WakeNext]_wakeVars => NoRestOverWork'
<1> SUFFICES ASSUME WakeTypeOK, NoRestOverWork, [WakeNext]_wakeVars PROVE NoRestOverWork'
  OBVIOUS
<1>1. CASE Insert
  BY <1>1 DEF Insert, NoRestOverWork, Resting, WakeTypeOK
<1>2. CASE Connect
  BY <1>2 DEF Connect, Connected, NoRestOverWork
<1>3. CASE Receive
  BY <1>3 DEF Receive, NoRestOverWork
<1>4. CASE Poke
  BY <1>4 DEF Poke, NoRestOverWork
<1>5. CASE Disconnect
  BY <1>5 DEF Disconnect, NoRestOverWork
<1>6. CASE Restart
  BY <1>6 DEF Restart, NoRestOverWork
<1>7. ASSUME NEW l \in loops, LookForRow(l) PROVE NoRestOverWork'
  <2>1. CASE Waiting /\ Serial
    <3>1. loop'[l] = "busy"
      BY <1>7, <2>1, OneLoopMoves DEF LookForRow, AfterClaim
    <3>2. ~Resting'
      BY <1>7, <3>1, <2>1 DEF LookForRow, Resting, Serial
    <3> QED
      BY <3>2 DEF NoRestOverWork
  <2>2. CASE Waiting /\ ~Serial
    BY <1>7, <2>2, LookingLoop DEF LookForRow, AfterClaim
  <2>3. CASE ~Waiting
    BY <1>7, <2>3 DEF LookForRow, Waiting, NoRestOverWork
  <2> QED
    BY <2>1, <2>2, <2>3
<1>8. ASSUME NEW l \in loops, PokeOthers(l) PROVE NoRestOverWork'
  BY <1>8 DEF PokeOthers, NoRestOverWork
<1>9. ASSUME NEW l \in loops, Done(l) PROVE NoRestOverWork'
  BY <1>9, LookingLoop DEF Done
<1>10. ASSUME NEW l \in loops, PutBack(l) PROVE NoRestOverWork'
  BY <1>10, LookingLoop DEF PutBack
<1>11. ASSUME NEW l \in loops, StatementFails(l) PROVE NoRestOverWork'
  BY <1>11, LookingLoop DEF StatementFails
<1>12. ASSUME NEW l \in loops, Wake(l) PROVE NoRestOverWork'
  BY <1>12, LookingLoop DEF Wake
<1>13. ASSUME NEW l \in loops, Timer(l) PROVE NoRestOverWork'
  BY <1>13, LookingLoop DEF Timer
<1>14. CASE UNCHANGED wakeVars
  BY <1>14 DEF wakeVars, NoRestOverWork, Resting
<1> QED
  BY <1>1, <1>2, <1>3, <1>4, <1>5, <1>6, <1>7, <1>8, <1>9, <1>10, <1>11, <1>12,
     <1>13, <1>14 DEF WakeNext, Work

\* No wake-up is lost, for any loops and any faults: while the listener is
\* connected no loop rests over a waiting row unless something under way will
\* wake it (listenOnce, runNextExec, idle).
THEOREM WakeUpsAreKept == WakeSpec => []NoRestOverWork
<1>1. WakeInit => WakeTypeOK /\ NoRestOverWork
  BY TypeOKInit, NoRestInit
<1>2. WakeTypeOK /\ NoRestOverWork /\ [WakeNext]_wakeVars => (WakeTypeOK /\ NoRestOverWork)'
  BY TypeOKStep, NoRestStep
<1> QED
  BY <1>1, <1>2, PTL DEF WakeSpec
=============================================================================
