------------------------------- MODULE BenchRun -------------------------------
(***************************************************************************)
(* A benchmark run (packages/bench/src/run.ts): a few runners generate one *)
(* site after the other.  Their calls go through the record/replay cache   *)
(* (cache.ts), below it through a guard that all of them share (spend.ts), *)
(* and from there to the provider.  Each finished attempt is a row of the  *)
(* results file.                                                           *)
(*                                                                         *)
(* Every key of the cache is looked up once in a run, so a lookup finds    *)
(* anything.  Grading, reports and timings are left out.                   *)
(***************************************************************************)
EXTENDS SiteGenerate, Sequences, SequencesExt

CONSTANTS
  Runners,        \* RunOptions.concurrency
  Cap,            \* SpendGuard.capMicroUsd
  Costs,          \* what one call may be billed
  MaxDiskErrors   \* bound: cache entries that cannot be written

ASSUME BenchAssumption ==
  /\ Runners \in Nat \ {0} /\ Cap \in Nat
  /\ Costs \subseteq Nat /\ IsFiniteSet(Costs) /\ 0 \in Costs
  /\ MaxDiskErrors \in Nat

VARIABLES
  mode,        \* live, record, replay
  cursor,      \* jobs begun
  stopped,     \* the run has a reason to stop
  spent,       \* SpendGuard.spentMicroUsd
  unknown,     \* SpendGuard.unknownSpend
  jobSpent,    \* what each job's own calls were billed
  rows,        \* the spending each recorded job's row shows
  file,        \* the jobs in results.jsonl
  saves,       \* checkpoints asked for and not finished, by job
  finished,
  diskErrors

guardVars == <<spent, unknown, jobSpent>>
fileVars  == <<rows, file, saves>>
vars == <<siteVars, mode, cursor, stopped, guardVars, fileVars, finished, diskErrors>>

Answers == {"good", "bad", "missing"}

TypeOK ==
  /\ SiteTypeOK({"live"} \cup Answers)
  /\ mode \in {"live", "record", "replay"}
  /\ cursor \in 0 .. Jobs /\ stopped \in BOOLEAN
  /\ spent \in Nat /\ unknown \in BOOLEAN
  /\ jobSpent \in [1 .. Jobs -> Nat]
  /\ DOMAIN rows \subseteq 1 .. Jobs /\ \A j \in DOMAIN rows : rows[j] \in Nat
  /\ file \subseteq 1 .. Jobs
  /\ saves \in Seq(1 .. Jobs)
  /\ finished \in BOOLEAN
  /\ diskErrors \in Nat

Init ==
  /\ SiteInit
  /\ mode \in {"live", "record", "replay"}
  /\ cursor = 0 /\ stopped = FALSE
  /\ spent = 0 /\ unknown = FALSE
  /\ jobSpent = [j \in 1 .. Jobs |-> 0]
  /\ rows = << >> /\ file = {} /\ saves = << >>
  /\ finished = FALSE
  /\ diskErrors = 0

Recorded == DOMAIN rows
Active   == {j \in 1 .. cursor : j \notin Recorded \/ j \in ToSet(saves)}
InFlight == {k \in Pieces : call[k] = "live"}

-----------------------------------------------------------------------------
(* The runners *)

Start(j) ==
  /\ ~stopped /\ j = cursor + 1
  /\ Cardinality(Active) < Runners
  /\ cursor' = j
  /\ Generate(j)
  /\ UNCHANGED <<mode, stopped, guardVars, fileVars, finished, diskErrors>>

Proceed(j) ==
  /\ SiteStep(j)
  /\ UNCHANGED <<mode, cursor, stopped, guardVars, fileVars, finished, diskErrors>>

\* The row is set; a cap that is reached stops the run; a save is queued.
Record(j) ==
  /\ phase[j] = "over" /\ j \notin Recorded
  /\ rows' = [i \in Recorded \cup {j} |-> IF i = j THEN jobSpent[j] ELSE rows[i]]
  /\ stopped' = (stopped \/ (spent > 0 /\ spent >= Cap /\ mode # "replay"))
  /\ saves' = Append(saves, j)
  /\ UNCHANGED <<siteVars, mode, cursor, guardVars, file, finished, diskErrors>>

\* Seeded fault: a checkpoint writes the row it was asked for.
MutContent == {Head(saves)}

Content == Recorded

\* Checkpoints are chained, and each writes what is recorded when its turn
\* comes; the runner that asked for it goes on then.
Save ==
  /\ saves # << >>
  /\ file' = Content
  /\ saves' = Tail(saves)
  /\ UNCHANGED <<siteVars, mode, cursor, stopped, guardVars, rows, finished, diskErrors>>

Finish ==
  /\ Active = {} /\ (stopped \/ cursor = Jobs) /\ ~finished
  /\ finished' = TRUE
  /\ UNCHANGED <<siteVars, mode, cursor, stopped, guardVars, fileVars, diskErrors>>

-----------------------------------------------------------------------------
(* A call's way down and up again *)

Halts(a) == a = "missing"

\* An answer reaches the generation, with content that passes its checks or not.
Deliver(k, a) ==
  /\ \E good \in BOOLEAN : (good => a = "good") /\ Return(k, good)
  /\ stopped' = (stopped \/ Halts(a))

\* The cache has the key: an answer, or an error that was recorded.
Hit(k) ==
  /\ call[k] = "ask" /\ mode # "live"
  /\ \E a \in Answers : Deliver(k, a)
  /\ UNCHANGED <<mode, cursor, guardVars, fileVars, finished, diskErrors>>

\* Seeded fault: the cap itself may be spent once more.
MutRefused == mode = "replay" \/ unknown \/ spent > Cap

\* CacheMiss, UnknownSpend, SpendCapExceeded.
Refused == mode = "replay" \/ unknown \/ spent >= Cap

Refuse(k) ==
  /\ call[k] = "ask" /\ Refused
  /\ Return(k, FALSE)
  /\ stopped' = TRUE
  /\ UNCHANGED <<mode, cursor, guardVars, fileVars, finished, diskErrors>>

\* The guard is looked at and the call starts in one step of the event loop.
GoLive(k) ==
  /\ call[k] = "ask" /\ ~Refused
  /\ call' = [call EXCEPT ![k] = "live"]
  /\ UNCHANGED <<phase, stage, made, mode, cursor, stopped, guardVars, fileVars, finished,
                 diskErrors>>

Bill(k, c) == /\ spent' = spent + c
              /\ jobSpent' = [jobSpent EXCEPT ![k[1]] = @ + c]

\* The provider answers, or its error or a timeout does; errors may be billed.
Answer(k) ==
  /\ call[k] = "live"
  /\ \E a \in Answers : call' = [call EXCEPT ![k] = a]
  /\ IF call'[k] = "missing" THEN Bill(k, 0) ELSE \E c \in Costs : Bill(k, c)
  /\ unknown' = (unknown \/ call'[k] = "missing")
  /\ UNCHANGED <<phase, stage, made, mode, cursor, stopped, fileVars, finished, diskErrors>>

\* Recording stores the answer first.
Settle(k) ==
  /\ call[k] \in Answers
  /\ Deliver(k, call[k])
  /\ UNCHANGED <<mode, cursor, guardVars, fileVars, finished, diskErrors>>

\* The disk's error takes the place of the answer.
StoreFails(k) ==
  /\ call[k] \in Answers /\ mode = "record"
  /\ diskErrors < MaxDiskErrors /\ diskErrors' = diskErrors + 1
  /\ Return(k, FALSE)
  /\ UNCHANGED <<mode, cursor, stopped, guardVars, fileVars, finished>>

-----------------------------------------------------------------------------
CallStep(k) == Hit(k) \/ Refuse(k) \/ GoLive(k) \/ Answer(k) \/ Settle(k) \/ StoreFails(k)
RunStep == \/ \E j \in 1 .. Jobs : Start(j) \/ Proceed(j) \/ Record(j)
           \/ \E k \in Pieces : CallStep(k)
           \/ Save \/ Finish

\* The run is over.
Rest == finished /\ UNCHANGED vars

Next == RunStep \/ Rest

\* Every step uses something up (a job, a piece's stage, a save), so a run that
\* cannot rest forever and never deadlocks ends; no fairness is stated.
Spec == Init /\ [][Next]_vars

-----------------------------------------------------------------------------
(* Properties *)

Parallel == Runners * Workers
MaxCost  == CHOOSE c \in Costs : \A d \in Costs : d <= c

\* The cap is overshot by less than what the calls that run side by side can
\* cost, however they interleave (spend.ts: "the final total can exceed the cap
\* by at most the cost of the in-flight calls").
OvershootIsBounded ==
  \/ spent = 0 /\ InFlight = {}
  \/ spent + MaxCost * Cardinality(InFlight) < Cap + MaxCost * Parallel

\* The spending a row shows is final: no call of an attempt is still to be
\* billed when it is recorded, although a page that fails ends it early, and
\* so the rows of a finished run add up to what the guard counted.  If that is
\* not known ("Missing provider usage cost stops the run explicitly as unknown
\* spend", README of the bench), the run says that it stopped, unless the disk
\* failed.
SpendIsReported ==
  /\ \A j \in Recorded : rows[j] = jobSpent[j] /\ AtWork(j) = {}
  /\ finished => spent = FoldFunctionOnSet(+, 0, rows, Recorded)
  /\ finished /\ unknown /\ diskErrors = 0 => stopped

\* Checkpoints that overlap lose no row: what is not in the file has a save
\* coming, and a finished run has every attempt it began in the file.
NoRowIsLost ==
  /\ \A j \in Recorded \ file : j \in ToSet(saves)
  /\ finished => file = 1 .. cursor /\ (stopped \/ cursor = Jobs)
=============================================================================
