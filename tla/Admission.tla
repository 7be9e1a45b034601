------------------------------ MODULE Admission ------------------------------
(***************************************************************************)
(* createRequest (apps/api/src/domain/requests.ts) statement by statement: *)
(* calls of several users and double clicks of one meet at the lock on the *)
(* owner's users row and at the advisory lock that serialises GPU plans,   *)
(* while requests are decided and cancelled, users are classified, and     *)
(* statements fail.  What a transaction writes is seen when it commits.    *)
(*                                                                         *)
(* A deleted row that a stale write of the worker brings back              *)
(* (Provisioning, DeletedStaysDeleted) is not part of this module.         *)
(*                                                                         *)
(* The locks are not variables: a call holds its owner's row from the      *)
(* statement that locks it to the end of the transaction.                  *)
(***************************************************************************)
EXTENDS Naturals, FiniteSets, FiniteSetsExt

CONSTANTS Owners,
          Offers,       \* proposals of the agent in their conversations
          OfferOf,      \* the owner of the conversation and the proposed plan
          Sizes,        \* plans
          GpuSizes,     \* those that take a slot of the one GPU
          Technical,    \* those for the technical tier only
          Memory,       \* what a plan takes
          Allowance,    \* servers and memory of a tier
          GpuLimit,
          CreateCalls,
          RowLimit      \* bound: requests created

Levels == {"nontechnical", "technical"}
Rows == 1 .. RowLimit
None == "none"

ASSUME AdmissionAssumption ==
  /\ GpuSizes \subseteq Technical /\ Technical \subseteq Sizes
  /\ OfferOf \in [Offers -> [owner : Owners, size : Sizes]]
  /\ Memory \in [Sizes -> Nat]
  /\ Allowance \in [Levels -> [servers : Nat, memory : Nat]]
  /\ GpuLimit \in Nat /\ RowLimit \in Nat
  /\ None \notin Owners \cup Offers \cup Sizes

VARIABLES
  state,    \* server_requests.status
  row,      \* its owner and plan, and the proposal it was made from
  link,     \* agent_messages.request_id of each proposal, 0 for NULL
  level,    \* users.tier
  at,       \* where each call is
  call,     \* what it was made with
  granted   \* the tier by which an owner's last request was admitted

admitVars == <<state, row, link, level, at, call, granted>>

Holding == {"pending_approval", "live"}  \* live: approved to stopped
Where == {"idle", "waits", "reads", "counts", "gpuWaits", "gpuCounts", "inserts"}

AdmitTypeOK ==
  /\ state \in [Rows -> Holding \cup {None, "rejected", "deleted"}]
  /\ row \in [Rows -> [owner : Owners \cup {None}, size : Sizes \cup {None},
                       offer : Offers \cup {None}]]
  /\ link \in [Offers -> 0 .. RowLimit]
  /\ level \in [Owners -> Levels]
  /\ at \in [CreateCalls -> Where]
  /\ call \in [CreateCalls -> [owner : Owners \cup {None},
                 size : Sizes \cup {None}, offer : Offers \cup {None},
                 level : Levels]]
  /\ granted \in [Owners -> Levels]

Held(u) == {i \in Rows : row[i].owner = u /\ state[i] \in Holding}
GpuHeld == {i \in Rows : row[i].size \in GpuSizes /\ state[i] \in Holding}
MemoryOf(S) == SumFunctionOnSet([i \in S |-> Memory[row[i].size]], S)
Fresh(i) == state[i] = None /\ \A j \in 1 .. i - 1 : state[j] # None

OwnersLock(u) == {c \in CreateCalls : /\ call[c].owner = u
                                      /\ at[c] \notin {"idle", "waits"}}
GpuLock == {c \in CreateCalls : /\ call[c].size \in GpuSizes
                                /\ at[c] \in {"gpuCounts", "inserts"}}

Unused == [owner |-> None, size |-> None, offer |-> None,
           level |-> "nontechnical"]
Goes(c, where) == at' = [at EXCEPT ![c] = where] /\ UNCHANGED call
Ends(c) == /\ at' = [at EXCEPT ![c] = "idle"]
           /\ call' = [call EXCEPT ![c] = Unused]
OnlyCalls == UNCHANGED <<state, row, link, level, granted>>

-----------------------------------------------------------------------------
(* One call *)

\* The route has read the session, with the tier it holds from here on.
CreateArrives(c, u, s, o) ==
  /\ at[c] = "idle"
  /\ s \in Technical => level[u] = "technical"
  /\ at' = [at EXCEPT ![c] = "waits"]
  /\ call' = [call EXCEPT ![c] = [owner |-> u, size |-> s, offer |-> o,
                                  level |-> level[u]]]
  /\ OnlyCalls

\* Seeded fault: the owner's row is read without FOR UPDATE.
MutLockOwner(c) ==
  /\ at[c] = "waits"
  /\ Goes(c, IF call[c].offer = None THEN "counts" ELSE "reads")
  /\ OnlyCalls

LockOwner(c) ==
  /\ at[c] = "waits"
  /\ OwnersLock(call[c].owner) = {}
  /\ Goes(c, IF call[c].offer = None THEN "counts" ELSE "reads")
  /\ OnlyCalls

\* Only the owner's own proposal, as it was made, and once: a linked one ends
\* the call, with its row while that is not deleted.
ReadOffer(c) ==
  /\ at[c] = "reads"
  /\ LET o == call[c].offer
     IN IF OfferOf[o] = [owner |-> call[c].owner, size |-> call[c].size]
           /\ link[o] = 0
        THEN Goes(c, "counts") ELSE Ends(c)
  /\ OnlyCalls

Fitting(c) ==
  LET held == Held(call[c].owner)
      quota == Allowance[call[c].level]
  IN /\ Cardinality(held) + 1 <= quota.servers
     /\ MemoryOf(held) + Memory[call[c].size] <= quota.memory

CountHeld(c) ==
  /\ at[c] = "counts"
  /\ IF ~Fitting(c) THEN Ends(c)
     ELSE Goes(c, IF call[c].size \in GpuSizes THEN "gpuWaits" ELSE "inserts")
  /\ OnlyCalls

\* Seeded fault: GPU slots are counted without the lock across owners.
MutLockGpu(c) == /\ at[c] = "gpuWaits" /\ Goes(c, "gpuCounts") /\ OnlyCalls

LockGpu(c) == /\ at[c] = "gpuWaits"
              /\ GpuLock = {}
              /\ Goes(c, "gpuCounts")
              /\ OnlyCalls

CountGpu(c) ==
  /\ at[c] = "gpuCounts"
  /\ IF Cardinality(GpuHeld) >= GpuLimit THEN Ends(c) ELSE Goes(c, "inserts")
  /\ OnlyCalls

\* The row, its event and the proposal's link appear together.
CommitCreate(c, i) ==
  /\ at[c] = "inserts"
  /\ Fresh(i)
  /\ state' = [state EXCEPT ![i] = "pending_approval"]
  /\ row' = [row EXCEPT ![i] = [owner |-> call[c].owner, size |-> call[c].size,
                                offer |-> call[c].offer]]
  /\ link' = [o \in Offers |-> IF o = call[c].offer THEN i ELSE link[o]]
  /\ granted' = [granted EXCEPT ![call[c].owner] = call[c].level]
  /\ Ends(c)
  /\ UNCHANGED level

\* A failing statement, or a subdomain that is taken: nothing is kept.
CreateRollsBack(c) == at[c] # "idle" /\ Ends(c) /\ OnlyCalls

-----------------------------------------------------------------------------
(* Around it *)

Becomes(i, from, to) ==
  /\ state[i] \in from
  /\ state' = [state EXCEPT ![i] = to]
  /\ UNCHANGED <<row, link, level, at, call, granted>>

CancelHeld(i) ==
  /\ row[i].owner \in Owners /\ OwnersLock(row[i].owner) = {}
  /\ Becomes(i, Holding \cup {"rejected"}, "deleted")

DecideHeld(i) == \E to \in {"live", "rejected"} : Becomes(i, {"pending_approval"}, to)

Classify(u) == /\ \E l \in Levels \ {level[u]} : level' = [level EXCEPT ![u] = l]
               /\ UNCHANGED <<state, row, link, at, call, granted>>

-----------------------------------------------------------------------------
AdmitInit ==
  /\ state = [i \in Rows |-> None]
  /\ row = [i \in Rows |-> [owner |-> None, size |-> None, offer |-> None]]
  /\ link = [o \in Offers |-> 0]
  /\ level \in [Owners -> Levels]
  /\ at = [c \in CreateCalls |-> "idle"]
  /\ call = [c \in CreateCalls |-> Unused]
  /\ granted = [u \in Owners |-> "nontechnical"]

AdmitNext ==
  \/ \E c \in CreateCalls :
       \/ \E u \in Owners, s \in Sizes, o \in Offers \cup {None} :
            CreateArrives(c, u, s, o)
       \/ LockOwner(c) \/ ReadOffer(c) \/ CountHeld(c)
       \/ LockGpu(c) \/ CountGpu(c) \/ CreateRollsBack(c)
       \/ \E i \in Rows : CommitCreate(c, i)
  \/ \E i \in Rows : CancelHeld(i) \/ DecideHeld(i)
  \/ \E u \in Owners : Classify(u)

AdmitSpec == AdmitInit /\ [][AdmitNext]_admitVars

-----------------------------------------------------------------------------
\* However often a proposal is accepted, from however many pages, it makes one
\* request, and its owner's (requests.ts:125).
ProposalMakesOneRequest ==
  \A o \in Offers : \A i, j \in Rows :
    row[i].offer = o /\ row[j].offer = o
      => i = j /\ row[i].owner = OfferOf[o].owner

\* At no time do all owners together hold more GPU requests than there are
\* slots (GPU_ADMISSION_LOCK_KEY), nor one owner more than the quota of the
\* tier its last request was admitted by, which a session read before the lock
\* or a later classification may have left.
GpuSlotsHold == Cardinality(GpuHeld) <= GpuLimit

AdmissionHolds ==
  /\ GpuSlotsHold
  /\ \A u \in Owners : Held(u) # {} =>
       /\ Cardinality(Held(u)) <= Allowance[granted[u]].servers
       /\ MemoryOf(Held(u)) <= Allowance[granted[u]].memory
=============================================================================
