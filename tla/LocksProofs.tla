----------------------------- MODULE LocksProofs -----------------------------
(***************************************************************************)
(* What the API counts under a lock.                                       *)
(*                                                                         *)
(* Admission, for every number of users, calls, proposals and requests: at *)
(* most one call is past the lock on an owner's row, at most one past the  *)
(* GPU lock, and what such a call has read is still true when it commits:  *)
(* the proposal is unlinked (OfferInv), a GPU slot is free (GpuInv), and   *)
(* the request fits in what its owner holds (QuotaInv).                    *)
(*                                                                         *)
(* The ledger, for every number of users, callers and rows.  Its invariant *)
(* is LedgerInv: the advisory lock has one holder (HolderInv); rows above  *)
(* the committed ones are the holder's alone (OrderInv); each row names    *)
(* the one before it and carries its user's sum (ChainInv); what the       *)
(* holder has read is still the end of that chain (EntryInv); and the      *)
(* verification has walked committed rows from the first on, without a gap *)
(* (WalkInv).                                                              *)
(*                                                                         *)
(* The chat, for every number of users, conversations and turns.  Two      *)
(* arguments carry TurnInv.  While no live turn has seemed dead, a         *)
(* conversation that runs is worked on by at most one live turn and one    *)
(* that does not run by none.  When one has, and no statement failed, the  *)
(* run rows decide: the turn that is about to free its conversation has    *)
(* settled the one run the conversation had, nobody was admitted since,    *)
(* and the message it was asked has its answer.                            *)
(***************************************************************************)
EXTENDS Admission, CreditLedger, AgentChat, Sums, WellFoundedInduction

-----------------------------------------------------------------------------
(* The locks of a creation, and the proposals *)

Past == {"reads", "counts", "gpuWaits", "gpuCounts", "inserts"}
Checked == {"counts", "gpuWaits", "gpuCounts", "inserts"}

\* One call past the lock on its owner's row.
OneOwnersCall ==
  \A c, d \in CreateCalls :
    at[c] \in Past /\ at[d] \in Past /\ call[c].owner = call[d].owner
      => c = d

\* A proposal that passed the check is its owner's and still unlinked.
OfferStillFree ==
  \A c \in CreateCalls :
    at[c] \in Checked /\ call[c].offer \in Offers
      => /\ link[call[c].offer] = 0
         /\ OfferOf[call[c].offer].owner = call[c].owner

\* A request made from a proposal is the one the proposal is linked to.
LinkedRows ==
  \A i \in Rows : row[i].offer \in Offers
    => /\ link[row[i].offer] = i
       /\ row[i].owner = OfferOf[row[i].offer].owner

OfferInv == AdmitTypeOK /\ OneOwnersCall /\ OfferStillFree /\ LinkedRows

-----------------------------------------------------------------------------
(* Type correctness *)

\* The first state is well typed.
LEMMA AdmitTypeInit == AdmitInit => AdmitTypeOK
  BY AdmissionAssumption
  DEF AdmitInit, AdmitTypeOK, Unused, Where, Levels, Rows

\* Every step keeps the types.
LEMMA AdmitTypeStep == AdmitTypeOK /\ [AdmitNext]_admitVars => AdmitTypeOK'
<1> SUFFICES ASSUME AdmitTypeOK, [AdmitNext]_admitVars PROVE AdmitTypeOK'
  OBVIOUS
<1> USE AdmissionAssumption DEF AdmitTypeOK
<1>1. ASSUME NEW c \in CreateCalls, NEW u \in Owners, NEW s \in Sizes,
             NEW o \in Offers \cup {None}, CreateArrives(c, u, s, o)
      PROVE AdmitTypeOK'
  BY <1>1 DEF CreateArrives, OnlyCalls, Where
<1>2. ASSUME NEW c \in CreateCalls, NEW w \in Where, Goes(c, w), OnlyCalls
      PROVE AdmitTypeOK'
  BY <1>2 DEF Goes, OnlyCalls
<1>3. ASSUME NEW c \in CreateCalls, Ends(c), OnlyCalls PROVE AdmitTypeOK'
  BY <1>3 DEF Ends, OnlyCalls, Unused, Where, Levels
<1>4. ASSUME NEW c \in CreateCalls, NEW i \in Rows, CommitCreate(c, i)
      PROVE AdmitTypeOK'
  <2>1. /\ state' \in [Rows -> Holding \cup {None, "rejected", "deleted"}]
        /\ row' \in [Rows -> [owner : Owners \cup {None},
                       size : Sizes \cup {None}, offer : Offers \cup {None}]]
        /\ granted' \in [Owners -> Levels] /\ level' \in [Owners -> Levels]
    BY <1>4 DEF CommitCreate, Holding
  <2>2. link' \in [Offers -> 0 .. RowLimit]
    BY <1>4 DEF CommitCreate, Rows
  <2>3. /\ at' \in [CreateCalls -> Where]
        /\ call' \in [CreateCalls -> [owner : Owners \cup {None},
                 size : Sizes \cup {None}, offer : Offers \cup {None},
                 level : Levels]]
    BY <1>4 DEF CommitCreate, Ends, Unused, Where, Levels
  <2> QED BY <2>1, <2>2, <2>3
<1>5. ASSUME NEW i \in Rows, CancelHeld(i) \/ DecideHeld(i) PROVE AdmitTypeOK'
  BY <1>5 DEF CancelHeld, DecideHeld, Becomes, Holding
<1>6. ASSUME NEW u \in Owners, Classify(u) PROVE AdmitTypeOK'
  BY <1>6 DEF Classify
<1>7. ASSUME UNCHANGED admitVars PROVE AdmitTypeOK'
  BY <1>7 DEF admitVars
<1>8. ASSUME NEW c \in CreateCalls,
             \/ LockOwner(c) \/ ReadOffer(c) \/ CountHeld(c)
             \/ LockGpu(c) \/ CountGpu(c) \/ CreateRollsBack(c)
      PROVE AdmitTypeOK'
  <2>1. OnlyCalls /\ (Ends(c) \/ \E w \in Where : Goes(c, w))
    BY <1>8 DEF LockOwner, ReadOffer, CountHeld, LockGpu, CountGpu,
                CreateRollsBack, Where
  <2> QED BY <2>1, <1>2, <1>3
<1> QED BY <1>1, <1>4, <1>5, <1>6, <1>7, <1>8 DEF AdmitNext

-----------------------------------------------------------------------------
(* One request per proposal *)

\* The first state satisfies the invariant.
LEMMA OfferInit == AdmitInit => OfferInv
  BY AdmitTypeInit, AdmissionAssumption
  DEF AdmitInit, OfferInv, OneOwnersCall, OfferStillFree, LinkedRows, Unused,
      Past, Checked

\* Every step keeps it.
LEMMA OfferStep == OfferInv /\ [AdmitNext]_admitVars => OfferInv'
<1> SUFFICES ASSUME OfferInv, [AdmitNext]_admitVars PROVE OfferInv'
  OBVIOUS
<1>0. AdmitTypeOK' /\ AdmitTypeOK
  BY AdmitTypeStep DEF OfferInv
<1> USE AdmissionAssumption
    DEF OfferInv, OneOwnersCall, OfferStillFree, LinkedRows, Past, Checked
<1>1. ASSUME NEW c \in CreateCalls, NEW u \in Owners, NEW s \in Sizes,
             NEW o \in Offers \cup {None}, CreateArrives(c, u, s, o)
      PROVE OfferInv'
  BY <1>0, <1>1 DEF CreateArrives, OnlyCalls, AdmitTypeOK
<1>2. ASSUME NEW c \in CreateCalls, Ends(c), OnlyCalls PROVE OfferInv'
  BY <1>0, <1>2 DEF Ends, OnlyCalls, Unused, AdmitTypeOK
<1>3. ASSUME NEW c \in CreateCalls, LockOwner(c) PROVE OfferInv'
  <2>1. \A d \in CreateCalls : at[d] \in Past => call[d].owner # call[c].owner
    BY <1>0, <1>3 DEF LockOwner, OwnersLock
  <2>2. /\ OnlyCalls
        /\ at[c] = "waits"
        /\ at' = [at EXCEPT ![c] =
                    IF call[c].offer = None THEN "counts" ELSE "reads"]
        /\ UNCHANGED call
    BY <1>3 DEF LockOwner, Goes
  <2>3. OneOwnersCall'
    BY <1>0, <2>1, <2>2 DEF AdmitTypeOK
  <2>4. OfferStillFree' /\ LinkedRows'
    BY <1>0, <2>2 DEF AdmitTypeOK, OnlyCalls
  <2> QED BY <1>0, <2>3, <2>4
<1>4. ASSUME NEW c \in CreateCalls, NEW w \in Checked, Goes(c, w), OnlyCalls,
             at[c] \in Past,
             at[c] \in Checked \/
               (link[call[c].offer] = 0
                 /\ OfferOf[call[c].offer].owner = call[c].owner)
      PROVE OfferInv'
  BY <1>0, <1>4 DEF Goes, OnlyCalls, AdmitTypeOK
<1>5. ASSUME NEW c \in CreateCalls, ReadOffer(c) PROVE OfferInv'
  BY <1>2, <1>4, <1>5 DEF ReadOffer
<1>6. ASSUME NEW c \in CreateCalls, CountHeld(c) \/ LockGpu(c) \/ CountGpu(c)
      PROVE OfferInv'
  BY <1>2, <1>4, <1>6 DEF CountHeld, LockGpu, CountGpu
<1>7. ASSUME NEW c \in CreateCalls, CreateRollsBack(c) PROVE OfferInv'
  BY <1>2, <1>7 DEF CreateRollsBack
<1>8. ASSUME NEW c \in CreateCalls, NEW i \in Rows, CommitCreate(c, i)
      PROVE OfferInv'
  <2>1. /\ at[c] = "inserts"
        /\ state' = [state EXCEPT ![i] = "pending_approval"]
        /\ row' = [row EXCEPT ![i] = [owner |-> call[c].owner,
                     size |-> call[c].size, offer |-> call[c].offer]]
        /\ link' = [o \in Offers |-> IF o = call[c].offer THEN i ELSE link[o]]
        /\ at' = [at EXCEPT ![c] = "idle"]
        /\ call' = [call EXCEPT ![c] = Unused]
    BY <1>8 DEF CommitCreate, Ends
  <2>2. i # 0 /\ \A j \in Rows : j # 0
    BY DEF Rows
  <2>3. OneOwnersCall'
    BY <1>0, <2>1 DEF AdmitTypeOK, Unused
  <2>4. OfferStillFree'
    <3> SUFFICES ASSUME NEW d \in CreateCalls, at'[d] \in Checked,
                        call'[d].offer \in Offers
                 PROVE /\ link'[call'[d].offer] = 0
                       /\ OfferOf[call'[d].offer].owner = call'[d].owner
      OBVIOUS
    <3>1. d # c /\ call'[d] = call[d] /\ at'[d] = at[d]
      BY <1>0, <2>1 DEF AdmitTypeOK, Unused
    <3>2. call[d].offer # call[c].offer
      BY <2>1, <3>1
    <3> QED BY <2>1, <3>1, <3>2
  <2>5. LinkedRows'
    <3> SUFFICES ASSUME NEW j \in Rows, row'[j].offer \in Offers
                 PROVE /\ link'[row'[j].offer] = j
                       /\ row'[j].owner = OfferOf[row'[j].offer].owner
      OBVIOUS
    <3>1. CASE j = i
      BY <1>0, <2>1, <3>1 DEF AdmitTypeOK
    <3>2. CASE j # i
      <4>1. row'[j] = row[j]
        BY <1>0, <2>1, <3>2 DEF AdmitTypeOK
      <4>2. row[j].offer # call[c].offer
        BY <2>1, <2>2, <4>1
      <4> QED BY <2>1, <4>1, <4>2
    <3> QED BY <3>1, <3>2
  <2> QED BY <1>0, <2>3, <2>4, <2>5
<1>9. ASSUME NEW i \in Rows, CancelHeld(i) \/ DecideHeld(i) PROVE OfferInv'
  <2>1. \A j \in Rows : row'[j].offer = row[j].offer /\ row'[j].owner = row[j].owner
    BY <1>0, <1>9 DEF CancelHeld, DecideHeld, Becomes, AdmitTypeOK
  <2>2. UNCHANGED <<link, at, call>>
    BY <1>9 DEF CancelHeld, DecideHeld, Becomes
  <2> QED BY <1>0, <2>1, <2>2
<1>10. ASSUME NEW u \in Owners, Classify(u) PROVE OfferInv'
  BY <1>0, <1>10 DEF Classify
<1>11. CASE UNCHANGED admitVars
  BY <1>0, <1>11 DEF admitVars
<1> QED BY <1>1, <1>3, <1>5, <1>6, <1>7, <1>8, <1>9, <1>10, <1>11 DEF AdmitNext

\* A proposal makes at most one request, its owner's, whatever the calls do.
THEOREM ProposalsMakeOneRequest == AdmitSpec => []ProposalMakesOneRequest
<1>1. OfferInv => ProposalMakesOneRequest
  BY DEF OfferInv, LinkedRows, ProposalMakesOneRequest
<1> QED BY <1>1, OfferInit, OfferStep, PTL DEF AdmitSpec

-----------------------------------------------------------------------------
(* The slots of the GPU *)

\* The count keeps to the limit, and is below it while the one call that holds
\* the lock has counted and waits to commit.
GpuInv ==
  /\ AdmitTypeOK
  /\ Cardinality(GpuHeld) <= GpuLimit
  /\ \A c, d \in GpuLock : c = d
  /\ \A c \in CreateCalls : at[c] = "inserts" /\ call[c].size \in GpuSizes
       => Cardinality(GpuHeld) < GpuLimit

\* The set of held GPU requests is finite, and so is each of its parts.
LEMMA GpuHeldFinite == IsFiniteSet(GpuHeld) /\ Cardinality(GpuHeld) \in Nat
<1>1. IsFiniteSet(Rows)
  BY FS_Interval, AdmissionAssumption DEF Rows
<1>2. GpuHeld \subseteq Rows
  BY DEF GpuHeld
<1> QED BY <1>1, <1>2, FS_Subset, FS_CardinalityType

\* The first state satisfies it.
LEMMA GpuInit == AdmitInit => GpuInv
<1> SUFFICES ASSUME AdmitInit PROVE GpuInv
  OBVIOUS
<1>1. GpuHeld = {}
  BY AdmissionAssumption DEF AdmitInit, GpuHeld, Holding, None
<1>2. Cardinality(GpuHeld) <= GpuLimit
  BY <1>1, FS_EmptySet, AdmissionAssumption
<1>3. GpuLock = {} /\ \A c \in CreateCalls : at[c] # "inserts"
  BY DEF AdmitInit, GpuLock, Unused
<1> QED BY <1>2, <1>3, AdmitTypeInit DEF GpuInv

\* Every step keeps it.
LEMMA GpuStep == GpuInv /\ [AdmitNext]_admitVars => GpuInv'
<1> SUFFICES ASSUME GpuInv, [AdmitNext]_admitVars PROVE GpuInv'
  OBVIOUS
<1>0. AdmitTypeOK' /\ AdmitTypeOK
  BY AdmitTypeStep DEF GpuInv
<1> DEFINE n == Cardinality(GpuHeld)
           Inserts(c) == at[c] = "inserts" /\ call[c].size \in GpuSizes
<1>a. n \in Nat /\ GpuLimit \in Nat /\ n <= GpuLimit
  BY GpuHeldFinite, AdmissionAssumption DEF GpuInv
<1>1. ASSUME NEW c \in CreateCalls, UNCHANGED <<state, row>>,
             \A d \in CreateCalls : d # c => call'[d] = call[d] /\ at'[d] = at[d],
             \/ at'[c] \notin {"gpuCounts", "inserts"}
             \/ call'[c].size \notin GpuSizes
             \/ c \in GpuLock /\ (at'[c] = "inserts" => n < GpuLimit)
             \/ GpuLock = {} /\ at'[c] = "gpuCounts"
      PROVE GpuInv'
  <2>1. GpuHeld' = GpuHeld
    BY <1>1 DEF GpuHeld
  <2>2. \A d, e \in GpuLock' : d = e
    BY <1>1 DEF GpuInv, GpuLock
  <2>3. \A d \in CreateCalls : at'[d] = "inserts" /\ call'[d].size \in GpuSizes
           => Cardinality(GpuHeld) < GpuLimit
    <3> SUFFICES ASSUME NEW d \in CreateCalls, at'[d] = "inserts",
                        call'[d].size \in GpuSizes
                 PROVE Cardinality(GpuHeld) < GpuLimit
      OBVIOUS
    <3>1. CASE d # c
      BY <1>1, <3>1 DEF GpuInv
    <3>2. CASE d = c
      BY <1>1, <3>2
    <3> QED BY <3>1, <3>2
  <2>4. Cardinality(GpuHeld') <= GpuLimit
    BY <2>1 DEF GpuInv
  <2> QED BY <1>0, <2>1, <2>2, <2>3, <2>4 DEF GpuInv
<1>2. ASSUME NEW c \in CreateCalls, NEW u \in Owners, NEW s \in Sizes,
             NEW o \in Offers \cup {None}, CreateArrives(c, u, s, o)
      PROVE GpuInv'
  BY <1>0, <1>1, <1>2 DEF CreateArrives, OnlyCalls, AdmitTypeOK
<1>3. ASSUME NEW c \in CreateCalls, Ends(c), OnlyCalls PROVE GpuInv'
  BY <1>0, <1>1, <1>3 DEF Ends, OnlyCalls, AdmitTypeOK, Unused
<1>4. ASSUME NEW c \in CreateCalls, LockOwner(c) \/ ReadOffer(c) PROVE GpuInv'
  <2>1. CASE Ends(c) /\ OnlyCalls
    BY <1>3, <2>1
  <2>2. CASE OnlyCalls /\ \E w \in {"counts", "reads"} : Goes(c, w)
    BY <1>0, <1>1, <2>2 DEF Goes, OnlyCalls, AdmitTypeOK
  <2> QED BY <1>4, <2>1, <2>2 DEF LockOwner, ReadOffer
<1>5. ASSUME NEW c \in CreateCalls, CountHeld(c) PROVE GpuInv'
  <2>1. CASE Ends(c) /\ OnlyCalls
    BY <1>3, <2>1
  <2>2. CASE OnlyCalls /\ Goes(c, "gpuWaits")
    BY <1>0, <1>1, <2>2 DEF Goes, OnlyCalls, AdmitTypeOK
  <2>3. CASE OnlyCalls /\ Goes(c, "inserts") /\ call[c].size \notin GpuSizes
    BY <1>0, <1>1, <2>3 DEF Goes, OnlyCalls, AdmitTypeOK
  <2> QED BY <1>5, <2>1, <2>2, <2>3 DEF CountHeld
<1>6. ASSUME NEW c \in CreateCalls, LockGpu(c) PROVE GpuInv'
  BY <1>0, <1>1, <1>6 DEF LockGpu, Goes, OnlyCalls, AdmitTypeOK
<1>7. ASSUME NEW c \in CreateCalls, CountGpu(c) PROVE GpuInv'
  <2>1. CASE Ends(c) /\ OnlyCalls
    BY <1>3, <2>1
  <2>2. CASE OnlyCalls /\ Goes(c, "inserts") /\ ~(n >= GpuLimit)
    <3>1. at[c] = "gpuCounts" /\ n < GpuLimit
      BY <1>7, <1>a, <2>2 DEF CountGpu
    <3> QED BY <1>0, <1>1, <2>2, <3>1 DEF Goes, OnlyCalls, AdmitTypeOK, GpuLock
  <2> QED BY <1>7, <2>1, <2>2 DEF CountGpu
<1>8. ASSUME NEW c \in CreateCalls, CreateRollsBack(c) PROVE GpuInv'
  BY <1>3, <1>8 DEF CreateRollsBack
<1>9. ASSUME NEW c \in CreateCalls, NEW i \in Rows, CommitCreate(c, i)
      PROVE GpuInv'
  <2>1. /\ at[c] = "inserts" /\ state[i] = None
        /\ state' = [state EXCEPT ![i] = "pending_approval"]
        /\ row' = [row EXCEPT ![i] = [owner |-> call[c].owner,
                     size |-> call[c].size, offer |-> call[c].offer]]
        /\ at' = [at EXCEPT ![c] = "idle"]
        /\ call' = [call EXCEPT ![c] = Unused]
    BY <1>9 DEF CommitCreate, Ends, Fresh
  <2>2. i \notin GpuHeld
    BY <2>1 DEF GpuHeld, Holding, None
  <2>3. \A d \in CreateCalls : d # c => call'[d] = call[d] /\ at'[d] = at[d]
    BY <1>0, <2>1 DEF AdmitTypeOK
  <2>4. at'[c] = "idle"
    BY <1>0, <2>1 DEF AdmitTypeOK, Unused
  <2>5. \A d, e \in GpuLock' : d = e
    BY <2>3, <2>4 DEF GpuInv, GpuLock
  <2>6. CASE call[c].size \in GpuSizes
    <3>1. GpuHeld' = GpuHeld \cup {i}
      BY <1>0, <2>1, <2>6 DEF GpuHeld, Holding, AdmitTypeOK
    <3>2. Cardinality(GpuHeld') = n + 1
      BY <2>2, <3>1, GpuHeldFinite, FS_AddElement
    <3>3. n < GpuLimit
      BY <2>1, <2>6 DEF GpuInv
    <3>4. Cardinality(GpuHeld') <= GpuLimit
      BY <1>a, <3>2, <3>3
    <3>5. \A d \in CreateCalls :
             ~(at'[d] = "inserts" /\ call'[d].size \in GpuSizes)
      BY <2>1, <2>3, <2>4, <2>6 DEF GpuInv, GpuLock
    <3> QED BY <1>0, <2>5, <3>4, <3>5 DEF GpuInv
  <2>7. CASE call[c].size \notin GpuSizes
    <3>1. GpuHeld' = GpuHeld
      BY <1>0, <2>1, <2>2, <2>7 DEF GpuHeld, AdmitTypeOK
    <3>2. \A d \in CreateCalls : at'[d] = "inserts" /\ call'[d].size \in GpuSizes
             => Cardinality(GpuHeld) < GpuLimit
      BY <2>3, <2>4 DEF GpuInv
    <3>3. Cardinality(GpuHeld') <= GpuLimit
      BY <1>a, <3>1
    <3> QED BY <1>0, <2>5, <3>1, <3>2, <3>3 DEF GpuInv
  <2> QED BY <2>6, <2>7
<1>10. ASSUME NEW i \in Rows, CancelHeld(i) \/ DecideHeld(i) PROVE GpuInv'
  <2>1. GpuHeld' \subseteq GpuHeld /\ UNCHANGED <<at, call>>
    BY <1>0, <1>10
    DEF CancelHeld, DecideHeld, Becomes, GpuHeld, Holding, AdmitTypeOK
  <2>2. Cardinality(GpuHeld') <= n /\ Cardinality(GpuHeld') \in Nat
    BY <2>1, GpuHeldFinite, FS_Subset, FS_CardinalityType
  <2>3. \A d, e \in GpuLock' : d = e
    BY <2>1 DEF GpuInv, GpuLock
  <2>4. Cardinality(GpuHeld') <= GpuLimit
    BY <1>a, <2>2
  <2>5. \A d \in CreateCalls : at'[d] = "inserts" /\ call'[d].size \in GpuSizes
           => Cardinality(GpuHeld') < GpuLimit
    <3> SUFFICES ASSUME NEW d \in CreateCalls, at'[d] = "inserts",
                        call'[d].size \in GpuSizes
                 PROVE Cardinality(GpuHeld') < GpuLimit
      OBVIOUS
    <3>1. n < GpuLimit
      BY <2>1 DEF GpuInv
    <3> QED BY <1>a, <2>2, <3>1
  <2> QED BY <1>0, <2>3, <2>4, <2>5 DEF GpuInv
<1>11. ASSUME UNCHANGED <<state, row, at, call>> PROVE GpuInv'
  BY <1>0, <1>11 DEF GpuInv, GpuHeld, GpuLock
<1>12. ASSUME NEW u \in Owners, Classify(u) PROVE GpuInv'
  BY <1>11, <1>12 DEF Classify
<1>13. CASE UNCHANGED admitVars
  BY <1>11, <1>13 DEF admitVars
<1> QED BY <1>2, <1>4, <1>5, <1>6, <1>7, <1>8, <1>9, <1>10, <1>12, <1>13
        DEF AdmitNext

\* All owners together never hold more GPU requests than there are slots.
THEOREM GpuSlotsNeverExceeded == AdmitSpec => []GpuSlotsHold
<1>1. GpuInv => GpuSlotsHold
  BY DEF GpuInv, GpuSlotsHold
<1> QED BY <1>1, GpuInit, GpuStep, PTL DEF AdmitSpec

-----------------------------------------------------------------------------
(* The quota of an owner *)

Counted == {"gpuWaits", "gpuCounts", "inserts"}

\* One request more is within the tier.
Fits(u, s, l) == /\ Cardinality(Held(u)) + 1 <= Allowance[l].servers
                 /\ MemoryOf(Held(u)) + Memory[s] <= Allowance[l].memory

WithinQuota(u) == Held(u) # {} =>
                    /\ Cardinality(Held(u)) <= Allowance[granted[u]].servers
                    /\ MemoryOf(Held(u)) <= Allowance[granted[u]].memory

\* What a call has counted is still so when it inserts, since one call of an
\* owner is past its lock.
QuotaInv ==
  /\ OfferInv
  /\ \A c \in CreateCalls : at[c] # "idle" => call[c].owner \in Owners /\ call[c].size \in Sizes
  /\ \A i \in Rows : state[i] \in Holding => row[i].size \in Sizes
  /\ \A c \in CreateCalls : at[c] \in Counted => Fits(call[c].owner, call[c].size, call[c].level)
  /\ \A u \in Owners : WithinQuota(u)

\* What is held is finite and measured in numbers.
LEMMA HeldIsFinite ==
  ASSUME QuotaInv, NEW u \in Owners
  PROVE  /\ IsFiniteSet(Held(u)) /\ Cardinality(Held(u)) \in Nat /\ MemoryOf(Held(u)) \in Int
         /\ \A i \in Held(u) : i \in Rows /\ Memory[row[i].size] \in Nat
<1>1. IsFiniteSet(Rows) /\ Held(u) \subseteq Rows
  BY FS_Interval, AdmissionAssumption DEF Rows, Held
<1>2. IsFiniteSet(Held(u)) /\ Cardinality(Held(u)) \in Nat
  BY <1>1, FS_Subset, FS_CardinalityType
<1>3. \A i \in Held(u) : Memory[row[i].size] \in Nat
  BY AdmissionAssumption DEF QuotaInv, Held
<1>4. PICK f : f = [i \in Held(u) |-> Memory[row[i].size]]
  OBVIOUS
<1>5. \A i \in Held(u) : f[i] \in Int
  BY <1>3, <1>4
<1>6. SumFunctionOnSet(f, Held(u)) \in Int
  BY <1>2, <1>5, SumIsInt
<1> QED
  BY <1>1, <1>2, <1>3, <1>4, <1>6 DEF MemoryOf

\* One request less, or none: what is held does not grow.
LEMMA HeldShrinks ==
  ASSUME QuotaInv, NEW u \in Owners,
         \A i \in Rows : row'[i].size = row[i].size,
         \/ Held(u)' = Held(u)
         \/ \E i \in Held(u) : Held(u)' = Held(u) \ {i}
  PROVE  /\ Cardinality(Held(u))' <= Cardinality(Held(u)) /\ Cardinality(Held(u))' \in Nat
         /\ MemoryOf(Held(u))' <= MemoryOf(Held(u)) /\ MemoryOf(Held(u))' \in Int
<1>1. PICK S, T : S = Held(u) /\ T = Held(u)'
  OBVIOUS
<1>2. PICK f : f = [i \in S |-> Memory[row[i].size]]
  OBVIOUS
<1>3. PICK g : g = [i \in T |-> Memory[row'[i].size]]
  OBVIOUS
<1>4. /\ IsFiniteSet(S) /\ Cardinality(S) \in Nat
      /\ \A i \in S : i \in Rows /\ f[i] \in Nat
  BY <1>1, <1>2, HeldIsFinite
<1>5. T \subseteq S /\ IsFiniteSet(T) /\ Cardinality(T) \in Nat /\ Cardinality(T) <= Cardinality(S)
  BY <1>1, <1>4, FS_Subset, FS_CardinalityType
<1>6. \A i \in T : f[i] = g[i] /\ f[i] \in Int
  BY <1>2, <1>3, <1>4, <1>5
<1>7. SumFunctionOnSet(f, T) = SumFunctionOnSet(g, T) /\ SumFunctionOnSet(f, T) \in Int
  BY <1>5, <1>6, SumOfSameTerms, SumIsInt
<1>8. SumFunctionOnSet(f, S) \in Int
  BY <1>4, SumIsInt
<1>9. SumFunctionOnSet(f, T) <= SumFunctionOnSet(f, S)
  <2>1. CASE T = S
    BY <1>8, <2>1
  <2>2. ASSUME NEW i \in S, T = S \ {i} PROVE SumFunctionOnSet(f, T) <= SumFunctionOnSet(f, S)
    <3>1. i \notin T /\ S = T \cup {i} /\ \A y \in T \cup {i} : f[y] \in Int
      BY <1>4, <2>2
    <3>2. SumFunctionOnSet(f, T \cup {i}) = SumFunctionOnSet(f, T) + f[i]
      BY <1>5, <3>1, SumWithOneMore
    <3>3. SumFunctionOnSet(f, S) = SumFunctionOnSet(f, T) + f[i]
      BY <3>1, <3>2
    <3>4. f[i] \in Nat
      BY <1>4
    <3> QED
      BY <1>7, <3>3, <3>4
  <2> QED
    BY <1>1, <2>1, <2>2
<1>10. MemoryOf(Held(u)) = SumFunctionOnSet(f, S)
  BY <1>1, <1>2 DEF MemoryOf
<1>11. MemoryOf(Held(u))' = SumFunctionOnSet(g, T)
  BY <1>1, <1>3 DEF MemoryOf
<1>12. Cardinality(Held(u))' = Cardinality(T) /\ Cardinality(Held(u)) = Cardinality(S)
  BY <1>1
<1> QED
  BY <1>5, <1>7, <1>8, <1>9, <1>10, <1>11, <1>12

\* Nobody holds anything.
LEMMA QuotaInit == AdmitInit => QuotaInv
<1> SUFFICES ASSUME AdmitInit PROVE QuotaInv
  OBVIOUS
<1>1. \A i \in Rows : state[i] \notin Holding
  BY DEF AdmitInit, Holding, None
<1>2. \A c \in CreateCalls : at[c] = "idle"
  BY DEF AdmitInit
<1>3. \A u \in Owners : Held(u) = {}
  BY <1>1 DEF Held
<1> QED
  BY <1>1, <1>2, <1>3, OfferInit DEF QuotaInv, WithinQuota, Counted

\* A step of a call that writes nothing.
LEMMA QuotaOfCalls ==
  ASSUME QuotaInv, OfferInv', NEW c \in CreateCalls, UNCHANGED <<state, row, granted>>,
         \A d \in CreateCalls \ {c} : call'[d] = call[d] /\ at'[d] = at[d],
         at'[c] # "idle" => call'[c].owner \in Owners /\ call'[c].size \in Sizes,
         at'[c] \in Counted =>
           call'[c] = call[c] /\ Fits(call[c].owner, call[c].size, call[c].level)
  PROVE  QuotaInv'
<1>1. \A u : Held(u)' = Held(u)
  BY DEF Held
<1>2. \A u : MemoryOf(Held(u))' = MemoryOf(Held(u))
  BY <1>1 DEF MemoryOf
<1>3. \A u, s, l : Fits(u, s, l)' = Fits(u, s, l)
  BY <1>1, <1>2 DEF Fits
<1>4. \A d \in CreateCalls : at'[d] \in Counted =>
        call'[d] = call[d] /\ Fits(call[d].owner, call[d].size, call[d].level)
  BY DEF QuotaInv
<1>5. \A d \in CreateCalls : at'[d] \in Counted =>
        Fits(call[d].owner, call[d].size, call[d].level)'
  <2> SUFFICES ASSUME NEW d \in CreateCalls, at'[d] \in Counted
               PROVE  Fits(call[d].owner, call[d].size, call[d].level)'
    OBVIOUS
  <2>1. PICK u, s, l : /\ u = call[d].owner /\ s = call[d].size /\ l = call[d].level
                       /\ u = call'[d].owner /\ s = call'[d].size /\ l = call'[d].level
    BY <1>4
  <2>2. Fits(u, s, l)
    BY <1>4, <2>1
  <2>3. Fits(u, s, l)'
    BY <1>3, <2>2
  <2> QED
    BY <1>4, <2>1, <2>3
<1>6. \A u \in Owners : WithinQuota(u)'
  BY <1>1, <1>2 DEF QuotaInv, WithinQuota
<1>7. \A d \in CreateCalls : at'[d] # "idle" => call'[d].owner \in Owners /\ call'[d].size \in Sizes
  BY DEF QuotaInv
<1> QED
  BY <1>5, <1>6, <1>7 DEF QuotaInv

\* The transaction that inserts counted itself in.
LEMMA QuotaOfCommit ==
  ASSUME QuotaInv, OfferInv', NEW c \in CreateCalls, NEW i \in Rows, CommitCreate(c, i)
  PROVE  QuotaInv'
<1>1. PICK u, s, l : u = call[c].owner /\ s = call[c].size /\ l = call[c].level
  OBVIOUS
<1>2. /\ at[c] = "inserts" /\ state[i] = None
      /\ state' = [state EXCEPT ![i] = "pending_approval"]
      /\ row' = [row EXCEPT ![i] = [owner |-> u, size |-> s, offer |-> call[c].offer]]
      /\ granted' = [granted EXCEPT ![u] = l]
      /\ at' = [at EXCEPT ![c] = "idle"] /\ call' = [call EXCEPT ![c] = Unused]
  BY <1>1 DEF CommitCreate, Fresh, Ends
<1>3. AdmitTypeOK /\ OneOwnersCall
  BY DEF QuotaInv, OfferInv
<1>4. u \in Owners /\ s \in Sizes /\ Fits(u, s, l)
  BY <1>1, <1>2 DEF QuotaInv, Counted
<1>5. /\ \A d \in CreateCalls \ {c} : at'[d] = at[d] /\ call'[d] = call[d]
      /\ at'[c] = "idle" /\ granted'[u] = l
      /\ \A v \in Owners \ {u} : granted'[v] = granted[v]
      /\ \A j \in Rows \ {i} : row'[j] = row[j] /\ state'[j] = state[j]
      /\ row'[i].owner = u /\ row'[i].size = s /\ state'[i] = "pending_approval"
  BY <1>2, <1>3, <1>4 DEF AdmitTypeOK
<1>6. state[i] \notin Holding /\ "pending_approval" \in Holding
  BY <1>2 DEF Holding, None
<1>7. \A v \in Owners : Held(v)' = (IF v = u THEN Held(v) \cup {i} ELSE Held(v)) /\ i \notin Held(v)
  <2> SUFFICES ASSUME NEW v \in Owners
               PROVE  Held(v)' = (IF v = u THEN Held(v) \cup {i} ELSE Held(v)) /\ i \notin Held(v)
    OBVIOUS
  <2>1. PICK S, T : S = Held(v) /\ T = Held(v)'
    OBVIOUS
  <2>2. i \notin S /\ S \subseteq Rows /\ T \subseteq Rows
    BY <1>6, <2>1 DEF Held
  <2>3. PICK w \in Owners : w = v /\ w = v'
    OBVIOUS
  <2>4. i \in T <=> w = u
    BY <1>5, <1>6, <2>1, <2>3 DEF Held
  <2>5. \A j \in Rows \ {i} : j \in T <=> j \in S
    BY <1>5, <2>1, <2>3 DEF Held
  <2> QED
    BY <2>1, <2>2, <2>3, <2>4, <2>5
<1>8. ASSUME NEW v \in Owners \ {u} PROVE MemoryOf(Held(v))' = MemoryOf(Held(v))
  <2>1. PICK S, T : S = Held(v) /\ T = Held(v)'
    OBVIOUS
  <2>2. S = T /\ i \notin S
    BY <1>7, <2>1
  <2>3. S \subseteq Rows
    BY <2>1 DEF Held
  <2>4. \A j \in S : row'[j].size = row[j].size
    BY <1>5, <2>2, <2>3
  <2>5. [j \in S |-> Memory[row'[j].size]] = [j \in S |-> Memory[row[j].size]]
    BY <2>4
  <2>6. MemoryOf(Held(v)) = SumFunctionOnSet([j \in S |-> Memory[row[j].size]], S)
    BY <2>1 DEF MemoryOf
  <2>7. MemoryOf(Held(v))' = SumFunctionOnSet([j \in T |-> Memory[row'[j].size]], T)
    BY <2>1 DEF MemoryOf
  <2> QED
    BY <2>2, <2>5, <2>6, <2>7
<1>9. /\ Cardinality(Held(u))' = Cardinality(Held(u)) + 1
      /\ MemoryOf(Held(u))' = MemoryOf(Held(u)) + Memory[s]
  <2>1. PICK S : S = Held(u)
    OBVIOUS
  <2>2. Held(u)' = S \cup {i} /\ i \notin S /\ S \subseteq Rows
    BY <1>4, <1>7, <2>1 DEF Held
  <2>3. IsFiniteSet(S)
    BY <1>4, <2>1, HeldIsFinite
  <2>4. Cardinality(S \cup {i}) = Cardinality(S) + 1
    BY <2>2, <2>3, FS_AddElement
  <2>5. PICK f : f = [j \in S |-> Memory[row[j].size]]
    OBVIOUS
  <2>6. PICK g : g = [j \in S \cup {i} |-> Memory[row'[j].size]]
    OBVIOUS
  <2>7. g[i] = Memory[s] /\ \A j \in S : f[j] = g[j] /\ f[j] \in Int
    BY <1>4, <1>5, <2>1, <2>2, <2>5, <2>6, HeldIsFinite
  <2>8. SumFunctionOnSet(f, S) = SumFunctionOnSet(g, S)
    BY <2>3, <2>7, SumOfSameTerms
  <2>9. SumFunctionOnSet(g, S \cup {i}) = SumFunctionOnSet(g, S) + g[i]
    <3>1. \A y \in S \cup {i} : g[y] \in Int
      BY <1>4, <2>7, AdmissionAssumption
    <3> QED
      BY <2>2, <2>3, <3>1, SumWithOneMore
  <2>10. MemoryOf(Held(u)) = SumFunctionOnSet(f, S)
    BY <2>1, <2>5 DEF MemoryOf
  <2>11. MemoryOf(Held(u))' = SumFunctionOnSet(g, S \cup {i})
    BY <2>2, <2>6 DEF MemoryOf
  <2> QED
    BY <2>1, <2>2, <2>4, <2>7, <2>8, <2>9, <2>10, <2>11
<1>10. WithinQuota(u)'
  BY <1>4, <1>5, <1>9 DEF Fits, WithinQuota
<1>11. \A v \in Owners : WithinQuota(v)'
  <2>1. ASSUME NEW v \in Owners \ {u} PROVE WithinQuota(v)'
    BY <1>5, <1>7, <1>8 DEF QuotaInv, WithinQuota
  <2> QED
    BY <1>10, <2>1
<1>12. ASSUME NEW d \in CreateCalls, at'[d] \in Counted
       PROVE  Fits(call[d].owner, call[d].size, call[d].level)' /\ call'[d] = call[d]
  <2>1. d # c /\ at[d] \in Counted /\ call'[d] = call[d]
    BY <1>5, <1>12 DEF Counted
  <2>2. PICK v, t, m : /\ v = call[d].owner /\ t = call[d].size /\ m = call[d].level
                       /\ v = call'[d].owner /\ t = call'[d].size /\ m = call'[d].level
    BY <2>1
  <2>3. v \in Owners \ {u} /\ Fits(v, t, m)
    BY <1>1, <1>2, <1>3, <2>1, <2>2 DEF QuotaInv, OneOwnersCall, Counted, Past
  <2>4. Fits(v, t, m)'
    BY <1>7, <1>8, <2>3 DEF Fits
  <2> QED
    BY <2>1, <2>2, <2>4
<1>13. \A j \in Rows : state'[j] \in Holding => row'[j].size \in Sizes
  BY <1>4, <1>5 DEF QuotaInv
<1>14. \A d \in CreateCalls : at'[d] # "idle" => call'[d].owner \in Owners /\ call'[d].size \in Sizes
  BY <1>5 DEF QuotaInv
<1> QED
  BY <1>11, <1>12, <1>13, <1>14 DEF QuotaInv

\* A request that is decided, deleted or cancelled takes nothing more.
LEMMA QuotaOfRows ==
  ASSUME QuotaInv, OfferInv', NEW i \in Rows, CancelHeld(i) \/ DecideHeld(i)
  PROVE  QuotaInv'
<1>1. PICK to : /\ state' = [state EXCEPT ![i] = to]
                /\ to \in Holding => state[i] \in Holding
                /\ UNCHANGED <<row, at, call, granted>>
  BY DEF CancelHeld, DecideHeld, Becomes, Holding
<1>2. AdmitTypeOK
  BY DEF QuotaInv, OfferInv
<1>3. \A j \in Rows : state'[j] \in Holding => state[j] \in Holding
  BY <1>1, <1>2 DEF AdmitTypeOK
<1>4. ASSUME NEW u \in Owners PROVE Held(u)' = Held(u) \/ \E j \in Held(u) : Held(u)' = Held(u) \ {j}
  <2>1. \A j \in Rows \ {i} : state'[j] = state[j]
    BY <1>1, <1>2 DEF AdmitTypeOK
  <2>2. PICK S, T : S = Held(u) /\ T = Held(u)'
    OBVIOUS
  <2>3. T \subseteq S /\ S \ {i} \subseteq T
    BY <1>1, <1>3, <2>1, <2>2 DEF Held
  <2> QED
    BY <2>2, <2>3
<1>5. ASSUME NEW u \in Owners
      PROVE  /\ Cardinality(Held(u))' <= Cardinality(Held(u)) /\ Cardinality(Held(u))' \in Nat
             /\ MemoryOf(Held(u))' <= MemoryOf(Held(u)) /\ MemoryOf(Held(u))' \in Int
             /\ Cardinality(Held(u)) \in Nat /\ MemoryOf(Held(u)) \in Int
             /\ Held(u)' # {} => Held(u) # {}
  BY <1>1, <1>4, HeldShrinks, HeldIsFinite
<1>6. \A l \in Levels : Allowance[l].servers \in Nat /\ Allowance[l].memory \in Nat
  BY AdmissionAssumption
<1>7. ASSUME NEW u \in Owners PROVE WithinQuota(u)'
  <2>1. PICK l \in Levels : l = granted[u] /\ l = granted'[u]
    BY <1>1, <1>2 DEF AdmitTypeOK
  <2>2. Held(u) # {} => /\ Cardinality(Held(u)) <= Allowance[l].servers
                        /\ MemoryOf(Held(u)) <= Allowance[l].memory
    BY <2>1 DEF QuotaInv, WithinQuota
  <2>3. Held(u)' # {} => /\ Cardinality(Held(u))' <= Allowance[l].servers
                         /\ MemoryOf(Held(u))' <= Allowance[l].memory
    BY <1>5, <1>6, <2>2
  <2> QED
    BY <2>1, <2>3 DEF WithinQuota
<1>8. ASSUME NEW d \in CreateCalls, at[d] \in Counted
      PROVE  Fits(call[d].owner, call[d].size, call[d].level)'
  <2>1. PICK u \in Owners, s \in Sizes, l \in Levels :
          /\ u = call[d].owner /\ s = call[d].size /\ l = call[d].level
          /\ u = call'[d].owner /\ s = call'[d].size /\ l = call'[d].level
    BY <1>1, <1>2, <1>8 DEF QuotaInv, Counted, AdmitTypeOK
  <2>2. Fits(u, s, l)
    BY <1>8, <2>1 DEF QuotaInv
  <2>3. Memory[s] \in Nat
    BY AdmissionAssumption
  <2>4. Fits(u, s, l)'
    BY <1>5, <1>6, <2>2, <2>3 DEF Fits
  <2> QED
    BY <2>1, <2>4
<1> QED
  BY <1>1, <1>3, <1>7, <1>8 DEF QuotaInv

\* One step per statement of createRequest; only the insert adds to what is held.
LEMMA QuotaStep == ASSUME QuotaInv, [AdmitNext]_admitVars PROVE QuotaInv'
<1>0. OfferInv' /\ AdmitTypeOK
  BY OfferStep DEF QuotaInv, OfferInv
<1>1. ASSUME NEW c \in CreateCalls, NEW u \in Owners, NEW s \in Sizes,
             NEW o \in Offers \cup {None}, CreateArrives(c, u, s, o)
      PROVE  QuotaInv'
  <2>1. /\ UNCHANGED <<state, row, granted>> /\ at'[c] = "waits"
        /\ call'[c].owner = u /\ call'[c].size = s
        /\ \A d \in CreateCalls \ {c} : call'[d] = call[d] /\ at'[d] = at[d]
    BY <1>0, <1>1 DEF CreateArrives, OnlyCalls, AdmitTypeOK
  <2> QED
    BY <1>0, <2>1, QuotaOfCalls DEF Counted
<1>2. ASSUME NEW c \in CreateCalls, Ends(c), OnlyCalls PROVE QuotaInv'
  <2>1. /\ UNCHANGED <<state, row, granted>> /\ at'[c] = "idle"
        /\ \A d \in CreateCalls \ {c} : call'[d] = call[d] /\ at'[d] = at[d]
    BY <1>0, <1>2 DEF Ends, OnlyCalls, AdmitTypeOK
  <2> QED
    BY <1>0, <2>1, QuotaOfCalls DEF Counted
<1>3. ASSUME NEW c \in CreateCalls, NEW w \in Where, Goes(c, w), OnlyCalls, at[c] # "idle",
             w \in Counted => Fits(call[c].owner, call[c].size, call[c].level)
      PROVE  QuotaInv'
  <2>1. /\ UNCHANGED <<state, row, granted, call>> /\ at'[c] = w
        /\ \A d \in CreateCalls \ {c} : at'[d] = at[d]
    BY <1>0, <1>3 DEF Goes, OnlyCalls, AdmitTypeOK
  <2>2. call[c].owner \in Owners /\ call[c].size \in Sizes
    BY <1>3 DEF QuotaInv
  <2> QED
    BY <1>0, <1>3, <2>1, <2>2, QuotaOfCalls
<1>4. ASSUME NEW c \in CreateCalls, LockOwner(c) \/ ReadOffer(c) PROVE QuotaInv'
  <2>1. OnlyCalls /\ at[c] # "idle"
    BY <1>4 DEF LockOwner, ReadOffer
  <2>2. Ends(c) \/ Goes(c, "counts") \/ Goes(c, "reads")
    BY <1>4 DEF LockOwner, ReadOffer
  <2>3. "counts" \in Where \ Counted /\ "reads" \in Where \ Counted
    BY DEF Where, Counted
  <2> QED
    BY <1>2, <1>3, <2>1, <2>2, <2>3
<1>5. ASSUME NEW c \in CreateCalls, CountHeld(c) PROVE QuotaInv'
  <2>1. OnlyCalls /\ at[c] # "idle"
    BY <1>5 DEF CountHeld
  <2>2. Ends(c) \/ (Fitting(c) /\ (Goes(c, "gpuWaits") \/ Goes(c, "inserts")))
    BY <1>5 DEF CountHeld
  <2>3. Fitting(c) => Fits(call[c].owner, call[c].size, call[c].level)
    BY DEF Fitting, Fits
  <2>4. "gpuWaits" \in Where /\ "inserts" \in Where
    BY DEF Where
  <2> QED
    BY <1>2, <1>3, <2>1, <2>2, <2>3, <2>4
<1>6. ASSUME NEW c \in CreateCalls, LockGpu(c) \/ CountGpu(c) PROVE QuotaInv'
  <2>1. OnlyCalls /\ at[c] \in Counted /\ at[c] # "idle"
    BY <1>6 DEF LockGpu, CountGpu, Counted
  <2>2. Ends(c) \/ Goes(c, "gpuCounts") \/ Goes(c, "inserts")
    BY <1>6 DEF LockGpu, CountGpu
  <2>3. Fits(call[c].owner, call[c].size, call[c].level)
    BY <2>1 DEF QuotaInv
  <2>4. "gpuCounts" \in Where /\ "inserts" \in Where
    BY DEF Where
  <2> QED
    BY <1>2, <1>3, <2>1, <2>2, <2>3, <2>4
<1>7. ASSUME NEW c \in CreateCalls, CreateRollsBack(c) PROVE QuotaInv'
  BY <1>2, <1>7 DEF CreateRollsBack
<1>8. ASSUME NEW c \in CreateCalls, NEW i \in Rows, CommitCreate(c, i) PROVE QuotaInv'
  BY <1>0, <1>8, QuotaOfCommit
<1>9. ASSUME NEW i \in Rows, CancelHeld(i) \/ DecideHeld(i) PROVE QuotaInv'
  BY <1>0, <1>9, QuotaOfRows
<1>10. ASSUME UNCHANGED <<state, row, at, call, granted>> PROVE QuotaInv'
  <2>1. \A u : Held(u)' = Held(u)
    BY <1>10 DEF Held
  <2>2. \A u : MemoryOf(Held(u))' = MemoryOf(Held(u))
    BY <1>10, <2>1 DEF MemoryOf
  <2> QED
    BY <1>0, <1>10, <2>1, <2>2 DEF QuotaInv, Fits, WithinQuota
<1>11. ASSUME NEW u \in Owners, Classify(u) PROVE QuotaInv'
  BY <1>10, <1>11 DEF Classify
<1>12. CASE UNCHANGED admitVars
  BY <1>10, <1>12 DEF admitVars
<1> QED
  BY <1>1, <1>4, <1>5, <1>6, <1>7, <1>8, <1>9, <1>11, <1>12 DEF AdmitNext

\* Neither the GPU's slots nor an owner's quota is exceeded, whatever calls
\* race, roll back or rest on a tier that has changed since (createRequest).
THEOREM AdmissionNeverExceeds == AdmitSpec => []AdmissionHolds
<1>1. QuotaInv /\ GpuInv => AdmissionHolds
  BY DEF QuotaInv, WithinQuota, GpuInv, GpuSlotsHold, AdmissionHolds
<1>2. QuotaInv /\ [AdmitNext]_admitVars => QuotaInv'
  BY QuotaStep
<1> QED
  BY <1>1, <1>2, QuotaInit, GpuInit, GpuStep, PTL DEF AdmitSpec

-----------------------------------------------------------------------------
(* The credit ledger *)

\* The end of a set of ids, without Max.
IsLast(p, S) == p \in S \cup {Genesis} /\ \A j \in S : j <= p

\* The newest of some ids, Genesis if there are none.
LEMMA LastIsLast ==
  ASSUME NEW n \in Nat, NEW S \in SUBSET (1 .. n) PROVE IsLast(Last(S), S)
<1>1. CASE S = {}
  BY <1>1 DEF Last, IsLast
<1>2. CASE S # {}
  <2> DEFINE Down == {n - x : x \in S}
  <2>1. Down \in SUBSET Nat /\ Down # {}
    <3>1. \A x \in S : n - x \in Nat
      OBVIOUS
    <3> QED
      BY <1>2, <3>1
  <2>2. PICK m \in Down : \A k \in Down : ~(<<k, m>> \in OpToRel(<, Nat))
    <3> HIDE DEF Down
    <3> QED
      BY <2>1, NatLessThanWellFounded, WFMin
  <2>3. ASSUME NEW k \in Down, k < m PROVE FALSE
    <3>1. <<k, m>> \in Nat \X Nat /\ <<k, m>>[1] < <<k, m>>[2]
      BY <2>1, <2>2, <2>3
    <3>2. <<k, m>> \in OpToRel(<, Nat)
      BY <3>1, Zenon DEF OpToRel
    <3> QED
      BY <2>2, <2>3, <3>2
  <2>4. PICK x \in S : m = n - x
    BY <2>2
  <2>5. ASSUME NEW y \in S PROVE x >= y
    <3>1. n - y \in Down /\ n - y \in Nat /\ n - x \in Nat
      BY <2>4
    <3>2. ~(n - y < n - x)
      BY <2>3, <2>4, <3>1
    <3> QED
      BY <3>1, <3>2
  <2>6. Max(S) \in S /\ \A y \in S : Max(S) >= y
    BY <2>5 DEF Max
  <2> QED
    BY <1>2, <2>6 DEF Last, IsLast
<1> QED
  BY <1>1, <1>2

\* There is only one.
LEMMA OneLast ==
  ASSUME NEW n \in Nat, NEW S \in SUBSET (1 .. n), NEW p, IsLast(p, S)
  PROVE  p = Last(S)
<1>1. IsLast(Last(S), S)
  BY LastIsLast
<1> DEFINE q == Last(S)
<1>2. \A x \in S : x \in Int /\ 1 <= x
  OBVIOUS
<1> HIDE DEF q
<1>3. /\ p \in S \cup {0} /\ q \in S \cup {0}
      /\ \A j \in S : j <= p /\ j <= q
  BY <1>1 DEF IsLast, Genesis, q
<1>4. p = q
  BY <1>2, <1>3
<1> QED
  BY <1>4 DEF q

Below(i) == {j \in DOMAIN rows : j < i}
UpTo(i) == {j \in DOMAIN rows : rows[j].user = rows[i].user /\ j <= i}
Amounts == [j \in DOMAIN rows |-> rows[j].delta]

\* Whoever stands between its lock and its end has the lock, and the open rows.
HolderInv ==
  /\ \A c \in Callers : caller[c] \in {"locked", "linked", "read"} => lock = c
  /\ \A i \in open : rows[i].by = lock

\* Ids commit in their order.
OrderInv == \A i \in Committed : \A j \in open : i < j

\* Each row links to the row before it, and sums its user's rows.
ChainInv ==
  /\ \A i \in DOMAIN rows : rows[i].prev = Last(Below(i))
  /\ \A i \in DOMAIN rows : /\ rows[i].after = SumFunctionOnSet(Amounts, UpTo(i))
                            /\ rows[i].after >= 0

\* What an append has read is still so.
EntryInv ==
  /\ \A c \in Callers : caller[c] \in {"linked", "read"} => entry[c].prev = Last(DOMAIN rows)
  /\ \A c \in Callers : caller[c] = "read" =>
       entry[c].after = entry[c].delta
         + SumFunctionOnSet(Amounts, {j \in DOMAIN rows : rows[j].user = entry[c].user})

\* The verifier has accepted a beginning of what is committed.
WalkInv ==
  /\ checked \subseteq Committed
  /\ \A i \in Committed : \A j \in checked : i <= j => i \in checked
  /\ verifier # "broken"

LedgerInv == TypeOK /\ HolderInv /\ OrderInv /\ ChainInv /\ EntryInv /\ WalkInv

USE DEF Genesis

\* The ids are finitely many, and the sums over them are numbers.
LEMMA RowIds ==
  ASSUME TypeOK
  PROVE  /\ lastId \in Nat /\ DOMAIN rows \subseteq 1 .. lastId
         /\ \A S \in SUBSET (DOMAIN rows) : IsFiniteSet(S)
         /\ \A i \in DOMAIN rows : /\ rows[i].delta \in Int /\ rows[i].after \in Int
                                  /\ rows[i].prev \in Nat /\ rows[i].by \in Callers
                                  /\ rows[i].user \in Users
<1>1. lastId \in Nat /\ DOMAIN rows \subseteq 1 .. lastId
  BY DEF TypeOK
<1>2. IsFiniteSet(1 .. lastId)
  BY <1>1, FS_Interval
<1>3. \A S \in SUBSET (DOMAIN rows) : IsFiniteSet(S)
  BY <1>1, <1>2, FS_Subset
<1> QED
  BY <1>1, <1>3, LedgerAssumption DEF TypeOK, Row

\* What the holder of the lock sees is everything.
LEMMA HolderSees ==
  ASSUME TypeOK, HolderInv, NEW c \in Callers, lock = c PROVE Visible(c) = DOMAIN rows
BY DEF Visible, Committed, HolderInv, TypeOK

\* Max as CreditLedger uses it.
LEMMA MaxIsLast ==
  ASSUME NEW n \in Nat, NEW S \in SUBSET (1 .. n), S # {}
  PROVE  Max(S) \in S /\ \A j \in S : j <= Max(S)
<1>1. IsLast(Last(S), S)
  BY LastIsLast
<1>2. \A x \in S : 1 <= x
  OBVIOUS
<1> DEFINE m == Max(S)
<1>3. m \in S \cup {0} /\ \A j \in S : j <= m
  <2>1. Last(S) = m
    BY DEF Last
  <2> QED
    BY <1>1, <2>1 DEF IsLast
<1> HIDE DEF m
<1>4. m \in S
  <2>1. PICK x \in S : TRUE
    OBVIOUS
  <2>2. 1 <= x /\ x <= m /\ x \in Int
    BY <1>2, <1>3, <2>1
  <2>3. m # 0
    BY <2>2
  <2> QED
    BY <1>3, <2>3
<1> QED
  BY <1>3, <1>4 DEF m

\* The empty ledger has its types.
LEMMA LedgerTypeInit == Init => TypeOK
<1> SUFFICES ASSUME Init PROVE TypeOK
  OBVIOUS
<1>1. (CHOOSE u \in Users : TRUE) \in Users /\ (CHOOSE d \in Deltas : TRUE) \in Deltas
  BY LedgerAssumption
<1>2. entry \in [Callers -> [user : Users, delta : Deltas, prev : Nat, after : Int]]
  BY <1>1 DEF Init
<1>3. DOMAIN rows = {}
  BY DEF Init
<1> QED
  BY <1>2, <1>3 DEF Init, TypeOK

\* Every step keeps the types.
LEMMA LedgerTypeStep == ASSUME TypeOK, [Next]_vars PROVE TypeOK'
<1> USE DEF ledgerVars, callerVars
<1>1. ASSUME NEW c \in Callers, Lock(c) PROVE TypeOK'
  BY <1>1, LedgerAssumption DEF Lock, TypeOK
<1>2. ASSUME NEW c \in Callers, ReadHead(c) PROVE TypeOK'
  <2>1. Visible(c) \subseteq 1 .. lastId /\ lastId \in Nat
    BY DEF Visible, Committed, TypeOK
  <2>2. IsLast(Last(Visible(c)), Visible(c))
    BY <2>1, LastIsLast
  <2>3. Last(Visible(c)) \in Nat
    BY <2>1, <2>2 DEF IsLast
  <2> QED
    BY <1>2, <2>3 DEF ReadHead, TypeOK
<1>3. ASSUME NEW c \in Callers, ReadBalance(c) PROVE TypeOK'
  <2> DEFINE mine == {i \in Visible(c) : rows[i].user = entry[c].user}
  <2>1. mine \subseteq DOMAIN rows /\ mine \subseteq 1 .. lastId /\ lastId \in Nat
    BY DEF Visible, Committed, TypeOK
  <2>2. Balance(c, entry[c].user) = IF mine = {} THEN 0 ELSE rows[Max(mine)].after
    BY DEF Balance
  <2> HIDE DEF mine
  <2>3. mine # {} => rows[Max(mine)].after \in Int
    BY <2>1, MaxIsLast, RowIds
  <2>4. Balance(c, entry[c].user) \in Int
    BY <2>2, <2>3
  <2>5. entry[c].delta \in Int
    BY LedgerAssumption DEF TypeOK
  <2>6. Balance(c, entry[c].user) + entry[c].delta \in Int
    BY <2>4, <2>5
  <2> QED
    BY <1>3, <2>6 DEF ReadBalance, TypeOK
<1>4. ASSUME NEW c \in Callers, Overdraft(c) PROVE TypeOK'
  BY <1>4 DEF Overdraft, TypeOK
<1>5. ASSUME NEW c \in Callers, Insert(c) PROVE TypeOK'
  <2> DEFINE new == [user |-> entry[c].user, delta |-> entry[c].delta,
                     after |-> entry[c].after, prev |-> entry[c].prev, by |-> c]
  <2>1. new \in Row
    BY DEF TypeOK, Row
  <2>2. /\ lastId' = lastId + 1 /\ open' = open \cup {lastId'}
        /\ DOMAIN rows' = DOMAIN rows \cup {lastId'}
        /\ \A i \in DOMAIN rows' : rows'[i] = IF i = lastId' THEN new ELSE rows[i]
    BY <1>5 DEF Insert
  <2>3. lastId' \in Nat /\ DOMAIN rows' \subseteq 1 .. lastId' /\ checked \subseteq 1 .. lastId'
    <3>1. lastId \in Nat /\ DOMAIN rows \subseteq 1 .. lastId /\ checked \subseteq 1 .. lastId
      BY DEF TypeOK
    <3>2. 1 .. lastId \subseteq 1 .. (lastId + 1) /\ lastId + 1 \in 1 .. (lastId + 1)
      BY <3>1
    <3> QED
      BY <2>2, <3>1, <3>2
  <2>4. \A i \in DOMAIN rows' : rows'[i] \in Row
    BY <2>1, <2>2 DEF TypeOK
  <2>5. appends' \in [Callers -> Nat] /\ caller' \in [Callers -> {"ready", "locked", "linked", "read", "over"}]
        /\ UNCHANGED <<lock, entry, verifier, checked>>
    BY <1>5 DEF Insert, TypeOK
  <2> QED
    BY <2>2, <2>3, <2>4, <2>5 DEF TypeOK
<1>6. ASSUME NEW c \in Callers, Commit(c) PROVE TypeOK'
  BY <1>6 DEF Commit, End, TypeOK
<1>7. ASSUME NEW c \in Callers, Rollback(c) PROVE TypeOK'
  BY <1>7 DEF Rollback, End, TypeOK
<1>8. CASE Begin
  BY <1>8 DEF Begin, TypeOK
<1>9. CASE Walk
  BY <1>9 DEF Walk, NextPage, Committed, TypeOK
<1>10. CASE UNCHANGED vars
  BY <1>10 DEF vars, TypeOK
<1> QED
  BY <1>1, <1>2, <1>3, <1>4, <1>5, <1>6, <1>7, <1>8, <1>9, <1>10 DEF Next, Append

\* One transaction holds the advisory lock, whoever ends.
LEMMA HolderStep == ASSUME TypeOK, HolderInv, [Next]_vars PROVE HolderInv'
<1> USE LedgerAssumption DEF TypeOK, HolderInv, ledgerVars, callerVars
<1>1. ASSUME NEW c \in Callers, Lock(c) PROVE HolderInv'
  <2>1. lock = Nobody => open = {}
    BY RowIds
  <2> QED
    BY <1>1, <2>1 DEF Lock, MayLock
<1>2. ASSUME NEW c \in Callers, ReadHead(c) \/ ReadBalance(c) \/ Overdraft(c) PROVE HolderInv'
  BY <1>2 DEF ReadHead, ReadBalance, Overdraft
<1>3. ASSUME NEW c \in Callers, Insert(c) PROVE HolderInv'
  BY <1>3 DEF Insert
<1>4. ASSUME NEW c \in Callers, Commit(c) PROVE HolderInv'
  BY <1>4 DEF Commit, End
<1>5. ASSUME NEW c \in Callers, Rollback(c) PROVE HolderInv'
  BY <1>5 DEF Rollback, End
<1>6. CASE Begin \/ Walk \/ UNCHANGED vars
  BY <1>6 DEF Begin, Walk, vars
<1> QED
  BY <1>1, <1>2, <1>3, <1>4, <1>5, <1>6 DEF Next, Append

\* Ids grow, and no row of an open transaction lies below a committed one.
LEMMA OrderStep == ASSUME TypeOK, HolderInv, OrderInv, [Next]_vars PROVE OrderInv'
<1> USE DEF OrderInv, Committed, ledgerVars, callerVars
<1>1. ASSUME NEW c \in Callers, Insert(c) PROVE OrderInv'
  <2>1. /\ lastId' = lastId + 1 /\ open' = open \cup {lastId'}
        /\ DOMAIN rows' = DOMAIN rows \cup {lastId'}
    BY <1>1 DEF Insert
  <2>2. \A i \in DOMAIN rows : i < lastId'
    BY <2>1, RowIds
  <2> QED
    BY <2>1, <2>2
<1>2. ASSUME NEW c \in Callers, Commit(c) PROVE OrderInv'
  <2>1. rows' = rows /\ open' = {i \in open : rows[i].by # c}
    BY <1>2 DEF Commit
  <2>2. open' = open \/ open' = {}
    BY <2>1 DEF HolderInv
  <2> QED
    BY <2>1, <2>2
<1>3. ASSUME NEW c \in Callers, Rollback(c) PROVE OrderInv'
  BY <1>3 DEF Rollback
<1>4. CASE UNCHANGED ledgerVars
  BY <1>4
<1>5. ASSUME NEW c \in Callers, Lock(c) \/ ReadHead(c) \/ ReadBalance(c) \/ Overdraft(c)
      PROVE  UNCHANGED ledgerVars
  BY <1>5 DEF Lock, ReadHead, ReadBalance, Overdraft
<1>6. CASE Begin \/ Walk \/ UNCHANGED vars
  BY <1>6 DEF Begin, Walk, vars
<1> QED
  BY <1>1, <1>2, <1>3, <1>4, <1>5, <1>6 DEF Next, Append

\* A chain that loses its end, or nothing, is a chain.
LEMMA ChainKept ==
  ASSUME TypeOK, ChainInv, DOMAIN rows' \subseteq DOMAIN rows,
         \A i \in DOMAIN rows' : rows'[i] = rows[i],
         \A i \in DOMAIN rows' : \A j \in DOMAIN rows : j <= i => j \in DOMAIN rows'
  PROVE  ChainInv'
<1>1. ASSUME NEW i \in DOMAIN rows'
      PROVE  /\ rows'[i].prev = Last(Below(i)')
             /\ rows'[i].after = SumFunctionOnSet(Amounts', UpTo(i)') /\ rows'[i].after >= 0
  <2>1. i \in DOMAIN rows /\ \A j \in DOMAIN rows : i \in Int /\ j \in Int
    BY RowIds
  <2>2. Below(i)' = Below(i)
    BY <2>1 DEF Below
  <2>3. PICK S : S = UpTo(i)
    OBVIOUS
  <2>4. UpTo(i)' = S /\ S \subseteq DOMAIN rows /\ S \subseteq DOMAIN rows'
    BY <2>1, <2>3 DEF UpTo
  <2>5. IsFiniteSet(S) /\ \A x \in S : Amounts[x] \in Int /\ Amounts[x] = Amounts'[x]
    BY <2>4, RowIds DEF Amounts
  <2>6. SumFunctionOnSet(Amounts, S) = SumFunctionOnSet(Amounts', S)
    BY <2>5, SumOfSameTerms
  <2> QED
    BY <2>1, <2>2, <2>3, <2>4, <2>6 DEF ChainInv
<1> QED
  BY <1>1 DEF ChainInv

\* A row inserted under the lock continues the chain.
LEMMA ChainGrows ==
  ASSUME TypeOK, HolderInv, ChainInv, EntryInv, NEW c \in Callers, Insert(c)
  PROVE  ChainInv'
<1>0. PICK n : n = lastId + 1
  OBVIOUS
<1> DEFINE mine == {j \in DOMAIN rows : rows[j].user = entry[c].user}
<1>1. /\ lastId' = n /\ DOMAIN rows' = DOMAIN rows \cup {n}
      /\ \A i \in DOMAIN rows' :
           rows'[i] = IF i = n THEN [user |-> entry[c].user, delta |-> entry[c].delta,
                                     after |-> entry[c].after, prev |-> entry[c].prev, by |-> c]
                               ELSE rows[i]
  BY <1>0 DEF Insert
<1>2. n \in Int /\ \A i \in DOMAIN rows : i \in Int /\ i < n
  BY <1>0, RowIds
<1>3. /\ entry[c].prev = Last(DOMAIN rows)
      /\ entry[c].after = entry[c].delta + SumFunctionOnSet(Amounts, mine)
      /\ entry[c].delta \in Int /\ entry[c].after \in Int /\ entry[c].after >= 0
  <2>1. caller[c] = "read" /\ ~(entry[c].after < 0)
    BY DEF Insert, Overdrawn
  <2>2. entry[c].delta \in Int /\ entry[c].after \in Int
    BY LedgerAssumption DEF TypeOK
  <2> QED
    BY <2>1, <2>2 DEF EntryInv
<1>4. \A x \in DOMAIN rows : Amounts'[x] = Amounts[x] /\ Amounts[x] \in Int
  BY <1>1, <1>2, RowIds DEF Amounts
<1>5. ASSUME NEW i \in DOMAIN rows
      PROVE  /\ rows'[i].prev = Last(Below(i)')
             /\ rows'[i].after = SumFunctionOnSet(Amounts', UpTo(i)') /\ rows'[i].after >= 0
  <2>1. Below(i)' = Below(i) /\ rows'[i] = rows[i]
    BY <1>1, <1>2 DEF Below
  <2>2. PICK S : S = UpTo(i)
    OBVIOUS
  <2>3. UpTo(i)' = S /\ S \subseteq DOMAIN rows
    BY <1>1, <1>2, <2>2 DEF UpTo
  <2>4. IsFiniteSet(S) /\ \A x \in S : Amounts[x] \in Int /\ Amounts[x] = Amounts'[x]
    BY <1>4, <2>3, RowIds
  <2>5. SumFunctionOnSet(Amounts, S) = SumFunctionOnSet(Amounts', S)
    BY <2>4, SumOfSameTerms
  <2> QED
    BY <2>1, <2>2, <2>3, <2>5 DEF ChainInv
<1>6. Below(n)' = DOMAIN rows
  BY <1>1, <1>2 DEF Below
<1>7. PICK M : M = mine
  OBVIOUS
<1>8. UpTo(n)' = M \cup {n}
  <2>1. \A j \in DOMAIN rows' : j <= n
    BY <1>1, <1>2
  <2>2. rows'[n].user = entry[c].user /\ \A j \in DOMAIN rows : rows'[j] = rows[j]
    BY <1>1, <1>2
  <2> QED
    BY <1>1, <1>7, <2>1, <2>2 DEF UpTo
<1>9. SumFunctionOnSet(Amounts', M \cup {n}) = SumFunctionOnSet(Amounts', M) + entry[c].delta
  <2>1. Amounts'[n] = entry[c].delta
    BY <1>1 DEF Amounts
  <2>2. /\ IsFiniteSet(M) /\ n \notin M
        /\ \A y \in M \cup {n} : Amounts'[y] \in Int
    BY <1>2, <1>3, <1>4, <1>7, <2>1, RowIds
  <2> QED
    BY <2>1, <2>2, SumWithOneMore
<1>10. SumFunctionOnSet(Amounts', M) = SumFunctionOnSet(Amounts, M) /\ SumFunctionOnSet(Amounts, M) \in Int
  <2>1. IsFiniteSet(M) /\ \A x \in M : Amounts[x] \in Int /\ Amounts[x] = Amounts'[x]
    BY <1>4, <1>7, RowIds
  <2> QED
    BY <2>1, SumOfSameTerms, SumIsInt
<1>11. entry[c].after = SumFunctionOnSet(Amounts', UpTo(n)')
  BY <1>3, <1>7, <1>8, <1>9, <1>10
<1>12. rows'[n].prev = entry[c].prev /\ rows'[n].after = entry[c].after
  BY <1>1
<1> QED
  BY <1>1, <1>3, <1>5, <1>6, <1>11, <1>12 DEF ChainInv

\* The chain of the rows stays one.
LEMMA ChainStep ==
  ASSUME TypeOK, HolderInv, OrderInv, ChainInv, EntryInv, [Next]_vars PROVE ChainInv'
<1>1. ASSUME NEW c \in Callers, Insert(c) PROVE ChainInv'
  BY <1>1, ChainGrows
<1>2. CASE rows' = rows
  BY <1>2, ChainKept
<1>3. ASSUME NEW c \in Callers, Rollback(c) PROVE ChainInv'
  <2>1. /\ DOMAIN rows' = DOMAIN rows \ {j \in open : rows[j].by = c}
        /\ \A i \in DOMAIN rows' : rows'[i] = rows[i]
    BY <1>3 DEF Rollback
  <2>2. ASSUME NEW i \in DOMAIN rows', NEW j \in DOMAIN rows, j <= i PROVE j \in DOMAIN rows'
    <3>1. CASE c = lock
      <4>1. i \in Committed /\ i \in Int /\ j \in Int
        BY <2>1, <3>1, RowIds DEF HolderInv, Committed
      <4>2. j \notin open
        BY <2>2, <4>1 DEF OrderInv
      <4> QED
        BY <2>1, <4>2
    <3>2. CASE c # lock
      BY <2>1, <3>2 DEF HolderInv
    <3> QED
      BY <3>1, <3>2
  <2> QED
    BY <2>1, <2>2, ChainKept
<1>4. ASSUME NEW c \in Callers,
             Lock(c) \/ ReadHead(c) \/ ReadBalance(c) \/ Overdraft(c) \/ Commit(c)
      PROVE  rows' = rows
  BY <1>4 DEF Lock, ReadHead, ReadBalance, Overdraft, Commit, ledgerVars
<1>5. CASE Begin \/ Walk \/ UNCHANGED vars
  BY <1>2, <1>5 DEF Begin, Walk, vars, ledgerVars
<1> QED
  BY <1>1, <1>2, <1>3, <1>4, <1>5 DEF Next, Append

\* The latest balance is the sum of the user's rows.
LEMMA BalanceIsSum ==
  ASSUME TypeOK, HolderInv, ChainInv, NEW c \in Callers, lock = c, NEW u \in Users
  PROVE  Balance(c, u) = SumFunctionOnSet(Amounts, {j \in DOMAIN rows : rows[j].user = u})
<1> DEFINE mine == {i \in DOMAIN rows : rows[i].user = u}
<1>1. Balance(c, u) = IF mine = {} THEN 0 ELSE rows[Max(mine)].after
  BY HolderSees DEF Balance
<1>2. CASE mine = {}
  BY <1>1, <1>2, SumOfNone
<1>3. CASE mine # {}
  <2>1. lastId \in Nat /\ mine \in SUBSET (1 .. lastId) /\ mine \subseteq DOMAIN rows
    BY RowIds
  <2> HIDE DEF mine
  <2>2. Max(mine) \in mine /\ \A j \in mine : j <= Max(mine)
    BY <1>3, <2>1, MaxIsLast
  <2>3. PICK m \in mine : m = Max(mine)
    BY <2>2
  <2>4. UpTo(m) = mine
    BY <2>1, <2>2, <2>3 DEF UpTo, mine
  <2>5. rows[m].after = SumFunctionOnSet(Amounts, UpTo(m))
    BY <2>1, <2>3 DEF ChainInv
  <2>6. Balance(c, u) = SumFunctionOnSet(Amounts, mine)
    BY <1>1, <1>3, <2>3, <2>4, <2>5
  <2> QED
    BY <2>6 DEF mine
<1> QED
  BY <1>2, <1>3

\* While the chain stays, so does what was read of it.
LEMMA EntryKept ==
  ASSUME EntryInv, DOMAIN rows' = DOMAIN rows, \A i \in DOMAIN rows : rows'[i] = rows[i],
         \A c \in Callers : caller'[c] \in {"linked", "read"} =>
            caller'[c] = caller[c] /\ entry'[c] = entry[c]
  PROVE  EntryInv'
<1>1. Amounts' = Amounts
  BY DEF Amounts
<1>2. ASSUME NEW c \in Callers, caller'[c] = "read"
      PROVE  entry'[c].after = entry'[c].delta
               + SumFunctionOnSet(Amounts', {j \in DOMAIN rows' : rows'[j].user = entry'[c].user})
  <2>1. {j \in DOMAIN rows' : rows'[j].user = entry'[c].user}
          = {j \in DOMAIN rows : rows[j].user = entry[c].user}
    BY <1>2
  <2> QED
    BY <1>1, <1>2, <2>1 DEF EntryInv
<1>3. \A c \in Callers : caller'[c] \in {"linked", "read"} => entry'[c].prev = Last(DOMAIN rows')
  BY DEF EntryInv
<1> QED
  BY <1>2, <1>3 DEF EntryInv

\* What the holder has read is still the end of the chain when it inserts.
LEMMA EntryStep ==
  ASSUME TypeOK, HolderInv, ChainInv, EntryInv, [Next]_vars PROVE EntryInv'
<1> USE DEF ledgerVars, callerVars
<1>1. ASSUME NEW c \in Callers, Lock(c) \/ Overdraft(c) PROVE EntryInv'
  <2>1. /\ rows' = rows /\ caller'[c] \notin {"linked", "read"}
        /\ \A d \in Callers \ {c} : caller'[d] = caller[d] /\ entry'[d] = entry[d]
    BY <1>1 DEF Lock, Overdraft, TypeOK
  <2> QED
    BY <2>1, EntryKept
<1>2. ASSUME NEW c \in Callers, ReadHead(c) PROVE EntryInv'
  <2>1. /\ lock = c /\ rows' = rows /\ caller'[c] = "linked"
        /\ entry'[c].prev = Last(DOMAIN rows)
        /\ \A d \in Callers \ {c} : caller'[d] = caller[d]
    BY <1>2, HolderSees DEF ReadHead, TypeOK, HolderInv
  <2>2. \A d \in Callers \ {c} : caller'[d] \notin {"linked", "read"}
    BY <2>1 DEF HolderInv
  <2> QED
    BY <2>1, <2>2 DEF EntryInv
<1>3. ASSUME NEW c \in Callers, ReadBalance(c) PROVE EntryInv'
  <2>1. /\ lock = c /\ rows' = rows /\ caller'[c] = "read" /\ caller[c] = "linked"
        /\ entry' = [entry EXCEPT ![c].after = Balance(c, entry[c].user) + entry[c].delta]
        /\ \A d \in Callers \ {c} : caller'[d] = caller[d]
    BY <1>3 DEF ReadBalance, TypeOK, HolderInv
  <2>2. \A d \in Callers \ {c} : caller'[d] \notin {"linked", "read"}
    BY <2>1 DEF HolderInv
  <2>3. /\ entry'[c].prev = entry[c].prev /\ entry'[c].user = entry[c].user
        /\ entry'[c].delta = entry[c].delta
        /\ entry'[c].after = Balance(c, entry[c].user) + entry[c].delta
    BY <2>1 DEF TypeOK
  <2>4. entry[c].user \in Users /\ entry[c].delta \in Int
    BY LedgerAssumption DEF TypeOK
  <2>5. PICK T : T = {j \in DOMAIN rows : rows[j].user = entry[c].user}
    OBVIOUS
  <2>6. Balance(c, entry[c].user) = SumFunctionOnSet(Amounts, T)
    BY <2>1, <2>4, <2>5, BalanceIsSum
  <2>7. SumFunctionOnSet(Amounts, T) \in Int
    <3>1. IsFiniteSet(T) /\ \A x \in T : Amounts[x] \in Int
      BY <2>5, RowIds DEF Amounts
    <3> QED
      BY <3>1, SumIsInt
  <2>8. entry'[c].after = entry'[c].delta + SumFunctionOnSet(Amounts, T)
    BY <2>3, <2>4, <2>6, <2>7
  <2>9. Amounts' = Amounts /\ T = {j \in DOMAIN rows' : rows'[j].user = entry'[c].user}
    BY <2>1, <2>3, <2>5 DEF Amounts
  <2>10. entry'[c].prev = Last(DOMAIN rows')
    BY <2>1, <2>3 DEF EntryInv
  <2>11. \A d \in Callers : caller'[d] \in {"linked", "read"} => d = c
    BY <2>2
  <2> QED
    BY <2>8, <2>9, <2>10, <2>11 DEF EntryInv
<1>4. ASSUME NEW c \in Callers, Insert(c) PROVE EntryInv'
  <2>1. lock = c /\ \A d \in Callers : caller'[d] \notin {"linked", "read"}
    BY <1>4 DEF Insert, HolderInv, TypeOK
  <2> QED
    BY <2>1 DEF EntryInv
<1>5. ASSUME NEW c \in Callers, Commit(c) \/ Rollback(c) PROVE EntryInv'
  <2>1. /\ caller' = [caller EXCEPT ![c] = "over"] /\ entry' = entry
        /\ c # lock => DOMAIN rows' = DOMAIN rows /\ \A i \in DOMAIN rows : rows'[i] = rows[i]
    BY <1>5 DEF Commit, Rollback, End, HolderInv
  <2>2. CASE c = lock
    <3>1. \A d \in Callers : caller'[d] \notin {"linked", "read"}
      BY <2>1, <2>2 DEF HolderInv, TypeOK
    <3> QED
      BY <3>1 DEF EntryInv
  <2>3. CASE c # lock
    <3>1. \A d \in Callers : caller'[d] \in {"linked", "read"} => caller'[d] = caller[d]
      BY <2>1 DEF TypeOK
    <3> QED
      BY <2>1, <2>3, <3>1, EntryKept
  <2> QED
    BY <2>2, <2>3
<1>6. CASE Begin \/ Walk \/ UNCHANGED vars
  BY <1>6, EntryKept DEF Begin, Walk, vars
<1> QED
  BY <1>1, <1>2, <1>3, <1>4, <1>5, <1>6 DEF Next, Append

\* A page continues the beginning the verifier has accepted.
LEMMA PageContinues ==
  ASSUME TypeOK, OrderInv, WalkInv
  PROVE  /\ NextPage \subseteq Committed
         /\ \A i \in NextPage : \A j \in checked : j < i
         /\ \A i \in DOMAIN rows : \A j \in checked \cup NextPage : i <= j => i \in checked \cup NextPage
<1> DEFINE a == After
           later == {i \in Committed : i > a}
<1>1. lastId \in Nat /\ checked \subseteq 1 .. lastId /\ Committed \subseteq DOMAIN rows
      /\ \A i \in DOMAIN rows : i \in Int /\ 1 <= i
  BY RowIds DEF TypeOK, Committed
<1>2. a \in checked \cup {0} /\ \A j \in checked : j <= a
  <2>1. IsLast(Last(checked), checked)
    BY <1>1, LastIsLast
  <2> QED
    BY <2>1 DEF After, IsLast
<1>3. NextPage = {i \in later : Cardinality({j \in later : j < i}) < Page}
  BY DEF NextPage
<1>4. \A S \in SUBSET later : IsFiniteSet(S)
  BY <1>1, RowIds
<1>5. checked \subseteq Committed /\ \A i \in Committed : \A j \in checked : i <= j => i \in checked
  BY DEF WalkInv
<1>6. later \subseteq Committed /\ \A i \in Committed : i \in later <=> a < i
  BY <1>1, <1>2, <1>5
<1> HIDE DEF a, later
<1>7. NextPage \subseteq Committed /\ NextPage \subseteq later
  BY <1>3, <1>6
<1>8. a \in Int
  BY <1>1, <1>2
<1>9. ASSUME NEW i \in NextPage, NEW j \in checked PROVE j < i
  BY <1>1, <1>2, <1>5, <1>6, <1>7, <1>8
<1>10. ASSUME NEW i \in Committed, NEW j \in NextPage, i <= j, i \in later PROVE i \in NextPage
  <2>1. {k \in later : k < i} \subseteq {k \in later : k < j}
    BY <1>1, <1>6, <1>7, <1>10
  <2>2. PICK A, B : A = {k \in later : k < i} /\ B = {k \in later : k < j}
    OBVIOUS
  <2>3. IsFiniteSet(A) /\ IsFiniteSet(B) /\ A \subseteq B
    BY <1>4, <2>1, <2>2
  <2>4. Cardinality(A) <= Cardinality(B) /\ Cardinality(A) \in Nat /\ Cardinality(B) \in Nat
    BY <2>3, FS_Subset, FS_CardinalityType
  <2>5. Cardinality(B) < Page
    BY <1>3, <2>2
  <2>6. Cardinality(A) < Page
    BY <2>4, <2>5, LedgerAssumption
  <2> QED
    BY <1>3, <1>10, <2>2, <2>6
<1>11. ASSUME NEW i \in DOMAIN rows, NEW j \in checked \cup NextPage, i <= j
       PROVE  i \in checked \cup NextPage
  <2>1. j \in Committed
    BY <1>5, <1>7
  <2>2. i \in Committed
    <3>1. i \in open => j < i
      BY <2>1 DEF OrderInv
    <3> QED
      BY <1>1, <1>11, <2>1, <3>1 DEF Committed
  <2>3. CASE j \in checked
    BY <1>5, <1>11, <2>2, <2>3
  <2>4. CASE j \in NextPage /\ i \in later
    BY <1>10, <1>11, <2>2, <2>4
  <2>5. CASE i \notin later
    <3>1. i <= a /\ a # 0
      BY <1>1, <1>6, <1>8, <2>2, <2>5
    <3> QED
      BY <1>2, <1>5, <2>2, <3>1
  <2> QED
    BY <2>3, <2>4, <2>5
<1> QED
  BY <1>7, <1>9, <1>11

\* The next page of the walk finds what it expects.
LEMMA PageIsSound ==
  ASSUME TypeOK, OrderInv, ChainInv, WalkInv PROVE Sound(NextPage)
<1>1. PICK P, C : P = NextPage /\ C = checked \cup P
  OBVIOUS
<1>2. /\ P \subseteq DOMAIN rows /\ C \subseteq DOMAIN rows /\ P \subseteq C
      /\ \A i \in P : \A j \in checked : j < i
      /\ \A i \in DOMAIN rows : \A j \in C : i <= j => i \in C
  BY <1>1, PageContinues DEF Committed, WalkInv
<1>3. \A i \in DOMAIN rows : i \in Int
  BY RowIds
<1>4. ASSUME NEW i \in P PROVE Linked(i, P) /\ rows[i].after = Expected(i, C)
  <2>1. checked \cup {j \in P : j < i} = Below(i)
    BY <1>1, <1>2, <1>3 DEF Below
  <2>2. Linked(i, P)
    BY <1>2, <2>1 DEF Linked, ChainInv
  <2>3. PICK S : S = UpTo(i)
    OBVIOUS
  <2>4. {j \in C : rows[j].user = rows[i].user /\ j <= i} = S
    BY <1>2, <2>3 DEF UpTo
  <2>5. S \subseteq C /\ S \subseteq DOMAIN rows
    BY <2>3, <2>4 DEF UpTo
  <2>6. PICK f : f = [j \in C |-> rows[j].delta]
    OBVIOUS
  <2>7. IsFiniteSet(S) /\ \A x \in S : Amounts[x] \in Int /\ Amounts[x] = f[x]
    BY <2>5, <2>6, RowIds DEF Amounts
  <2>8. SumFunctionOnSet(Amounts, S) = SumFunctionOnSet(f, S)
    BY <2>7, SumOfSameTerms
  <2>9. Expected(i, C) = SumFunctionOnSet(f, S)
    BY <2>4, <2>6 DEF Expected
  <2> QED
    BY <1>2, <2>2, <2>3, <2>8, <2>9 DEF ChainInv
<1> QED
  BY <1>1, <1>4 DEF Sound

\* The verification walks committed rows in order, and none appears below.
LEMMA WalkStep ==
  ASSUME TypeOK, HolderInv, OrderInv, ChainInv, WalkInv, [Next]_vars PROVE WalkInv'
<1> USE DEF ledgerVars, callerVars
<1>1. ASSUME Committed' = Committed, UNCHANGED checked, verifier' # "broken" PROVE WalkInv'
  BY <1>1 DEF WalkInv
<1>2. verifier # "broken"
  BY DEF WalkInv
<1>3. ASSUME NEW c \in Callers, Lock(c) \/ ReadHead(c) \/ ReadBalance(c) \/ Overdraft(c)
      PROVE  WalkInv'
  <2>1. UNCHANGED <<ledgerVars, verifier, checked>>
    BY <1>3 DEF Lock, ReadHead, ReadBalance, Overdraft
  <2> QED
    BY <1>1, <1>2, <2>1 DEF Committed
<1>4. ASSUME NEW c \in Callers, Insert(c) PROVE WalkInv'
  <2>1. /\ lastId' = lastId + 1 /\ open' = open \cup {lastId'}
        /\ DOMAIN rows' = DOMAIN rows \cup {lastId'} /\ UNCHANGED <<verifier, checked>>
    BY <1>4 DEF Insert
  <2>2. lastId' \notin DOMAIN rows
    BY <2>1, RowIds
  <2> QED
    BY <1>1, <1>2, <2>1, <2>2 DEF Committed
<1>5. ASSUME NEW c \in Callers, Commit(c) PROVE WalkInv'
  <2>1. rows' = rows /\ open' \subseteq open /\ UNCHANGED <<verifier, checked>>
    BY <1>5 DEF Commit, End
  <2>2. checked \subseteq Committed /\ \A i \in Committed : \A j \in checked : i <= j => i \in checked
    BY DEF WalkInv
  <2>3. \A i \in Committed' : i \in Committed \/ i \in open
    BY <2>1 DEF Committed
  <2>4. \A i \in open : \A j \in checked : ~(i <= j)
    <3>1. \A i \in open : \A j \in checked : j < i /\ i \in Int /\ j \in Int
      BY <2>2, RowIds DEF OrderInv, TypeOK, Committed
    <3> QED
      BY <3>1
  <2>5. Committed \subseteq Committed'
    BY <2>1 DEF Committed
  <2>6. \A i \in Committed' : \A j \in checked' : i <= j => i \in checked'
    BY <2>1, <2>2, <2>3, <2>4
  <2> QED
    BY <1>2, <2>1, <2>2, <2>5, <2>6 DEF WalkInv
<1>6. ASSUME NEW c \in Callers, Rollback(c) PROVE WalkInv'
  <2>1. Committed' = Committed /\ UNCHANGED <<verifier, checked>>
    BY <1>6 DEF Rollback, End, Committed
  <2> QED
    BY <1>1, <1>2, <2>1
<1>7. CASE Begin
  BY <1>1, <1>7 DEF Begin, Committed
<1>8. CASE Walk
  <2>1. /\ checked' = checked \cup NextPage /\ verifier' # "broken" /\ Committed' = Committed
    BY <1>8, PageIsSound DEF Walk, Committed
  <2> QED
    BY <2>1, PageContinues DEF WalkInv, Committed
<1>9. CASE UNCHANGED vars
  BY <1>1, <1>2, <1>9 DEF vars, Committed
<1> QED
  BY <1>3, <1>4, <1>5, <1>6, <1>7, <1>8, <1>9 DEF Next, Append

\* An empty ledger, and a verification that has not begun.
LEMMA LedgerInvInit == Init => LedgerInv
<1> SUFFICES ASSUME Init PROVE LedgerInv
  OBVIOUS
<1>1. DOMAIN rows = {} /\ open = {} /\ checked = {} /\ verifier = "off" /\ \A c \in Callers : caller[c] = "ready"
  BY DEF Init
<1> QED
  BY <1>1, LedgerTypeInit DEF LedgerInv, HolderInv, OrderInv, ChainInv, EntryInv, WalkInv, Committed

\* The invariant of the ledger.
LEMMA LedgerInvHolds == Spec => []LedgerInv
<1>1. LedgerInv /\ [Next]_vars => LedgerInv'
  BY LedgerTypeStep, HolderStep, OrderStep, ChainStep, EntryStep, WalkStep DEF LedgerInv
<1> QED
  BY <1>1, LedgerInvInit, PTL DEF Spec

\* Every variable of the ledger keeps its type.
THEOREM LedgerTypeCorrect == Spec => []TypeOK
<1>1. LedgerInv => TypeOK
  BY DEF LedgerInv
<1> QED
  BY <1>1, LedgerInvHolds, PTL

\* The chain never forks and its balances are its sums (appendCreditInTx), for
\* any number of users, transactions and appends.
THEOREM TheChainIsOne == Spec => []ChainIsOne
<1>1. ASSUME LedgerInv PROVE AppendsNeverCollide
  <2> SUFFICES ASSUME NEW c \in Callers, caller[c] = "read", NEW i \in DOMAIN rows,
                      rows[i].prev = entry[c].prev
               PROVE  FALSE
    BY DEF AppendsNeverCollide, Rivals
  <2>1. lastId \in Nat /\ DOMAIN rows \subseteq 1 .. lastId
    BY <1>1, RowIds DEF LedgerInv
  <2>2. IsLast(Last(DOMAIN rows), DOMAIN rows) /\ IsLast(Last(Below(i)), Below(i))
    BY <2>1, LastIsLast DEF Below
  <2>3. entry[c].prev = Last(DOMAIN rows) /\ rows[i].prev = Last(Below(i))
    BY <1>1 DEF LedgerInv, EntryInv, ChainInv
  <2>4. /\ i <= entry[c].prev
        /\ rows[i].prev = 0 \/ rows[i].prev \in Below(i)
    BY <2>2, <2>3 DEF IsLast
  <2>5. i \in Int /\ 1 <= i /\ (rows[i].prev = 0 \/ (rows[i].prev \in Int /\ rows[i].prev < i))
    BY <2>1, <2>4 DEF Below
  <2> QED
    BY <2>4, <2>5
<1>2. ASSUME LedgerInv PROVE BalancesAreSums
  <2> SUFFICES ASSUME NEW i \in Committed
               PROVE  rows[i].after = Expected(i, Committed) /\ rows[i].after >= 0
    BY DEF BalancesAreSums
  <2>1. TypeOK /\ OrderInv /\ ChainInv
    BY <1>2 DEF LedgerInv
  <2>2. /\ Committed \subseteq DOMAIN rows
        /\ \A j \in DOMAIN rows : j <= i => j \in Committed
    <3>1. \A j \in open : i < j /\ i \in Int /\ j \in Int
      BY <2>1, RowIds DEF OrderInv, Committed, TypeOK
    <3> QED
      BY <3>1 DEF Committed
  <2>3. PICK S : S = UpTo(i)
    OBVIOUS
  <2>4. {j \in Committed : rows[j].user = rows[i].user /\ j <= i} = S
    BY <2>2, <2>3 DEF UpTo
  <2>5. PICK f : f = [j \in Committed |-> rows[j].delta]
    OBVIOUS
  <2>6. IsFiniteSet(S) /\ \A x \in S : Amounts[x] \in Int /\ Amounts[x] = f[x]
    BY <2>1, <2>2, <2>4, <2>5, RowIds DEF Amounts
  <2>7. SumFunctionOnSet(Amounts, S) = SumFunctionOnSet(f, S)
    BY <2>6, SumOfSameTerms
  <2>8. Expected(i, Committed) = SumFunctionOnSet(f, S)
    BY <2>4, <2>5 DEF Expected
  <2> QED
    BY <2>1, <2>2, <2>3, <2>7, <2>8 DEF ChainInv
<1>3. LedgerInv => ChainIsOne
  BY <1>1, <1>2 DEF ChainIsOne
<1> QED
  BY <1>3, LedgerInvHolds, PTL

\* A verification beside any appends, commits and rollbacks finds no broken
\* chain (verifyLedger), whatever the size of its pages.
THEOREM VerificationIsTrue == Spec => []VerifyNeverAccuses
<1>1. LedgerInv => VerifyNeverAccuses
  BY DEF LedgerInv, WalkInv, VerifyNeverAccuses
<1> QED
  BY <1>1, LedgerInvHolds, PTL

-----------------------------------------------------------------------------
(* The chat *)

InOne(t, u) == ConversationOf[t] = ConversationOf[u]

\* Only a running conversation is waited for.
SilentRuns == \A c \in silent : status[c] = "running"

\* Without a stall, live turns are of running conversations that are not
\* silent, one of each.
LiveInv ==
  stalls = 0 =>
    \A t \in Turns : Live(t) =>
      /\ status[ConversationOf[t]] = "running"
      /\ ConversationOf[t] \notin silent
      /\ \A u \in Turns : Live(u) /\ InOne(t, u) => u = t

\* A running run is the one run of a running conversation.
RunInv ==
  OneKindOfFault =>
    \A t \in Turns : run[t] = "running" =>
      /\ status[ConversationOf[t]] = "running"
      /\ \A u \in Turns : run[u] = "running" /\ InOne(t, u) => u = t

\* A turn that has settled its run stands alone in a conversation that waits
\* for it.
FreeInv ==
  OneKindOfFault =>
    \A t \in Turns : turn[t] = "free" =>
      /\ status[ConversationOf[t]] = "running"
      /\ ConversationOf[t] \notin silent
      /\ \A u \in Turns : InOne(t, u) => /\ run[u] # "running"
                                         /\ turn[u] = "free" => u = t

\* Whoever ends a turn has answered.
Ending(t) == \/ turn[t] = "free"
             \/ turn[t] = "settle" /\ run[t] = "running"

AnswerInv ==
  dbErrors = 0 =>
    /\ \A t \in Turns : turn[t] \in {"settle", "free"} => ConversationOf[t] \notin silent
    /\ \A t \in Turns : Ending(t) => ConversationOf[t] \notin unanswered

TurnInv ==
  /\ ChatTypeOK
  /\ SilentRuns
  /\ LiveInv
  /\ RunInv
  /\ FreeInv
  /\ AnswerInv
  /\ EveryMessageAnswered

-----------------------------------------------------------------------------
\* Type correctness of a step.
LEMMA TypeStep ==
  ASSUME ChatTypeOK, [ChatNext]_chatVars PROVE ChatTypeOK'
<1> USE DEF chatVars, conversationVars, turnVars, boundVars, ChatTypeOK
<1>1. ASSUME NEW c \in Conversations, Create(c) PROVE ChatTypeOK'
  BY <1>1, ChatAssumption DEF Create
<1>2. ASSUME NEW c \in Conversations, Refuse(c) PROVE ChatTypeOK'
  BY <1>2, ChatAssumption DEF Refuse, Say, Available
<1>3. ASSUME NEW c \in Conversations, FallSilent(c) PROVE ChatTypeOK'
  BY <1>3, ChatAssumption DEF FallSilent, TurnsOf
<1>4. ASSUME NEW c \in Conversations, Recover(c) PROVE ChatTypeOK'
  BY <1>4, ChatAssumption DEF Recover, Recoverable, RecoveredRuns, RecoveredTalk
<1>5. ASSUME NEW c \in Conversations, Notice(c) PROVE ChatTypeOK'
  BY <1>5, ChatAssumption DEF Notice
<1>6. ASSUME NEW t \in Turns, Admit(t) PROVE ChatTypeOK'
  BY <1>6, ChatAssumption DEF Admit, Available, GoOn
<1>7. ASSUME NEW t \in Turns, UseTool(t) PROVE ChatTypeOK'
  BY <1>7, ChatAssumption DEF UseTool
<1>8. ASSUME NEW t \in Turns, Reply(t) PROVE ChatTypeOK'
  BY <1>8, ChatAssumption DEF Reply, Say, GoOn
<1>9. ASSUME NEW t \in Turns, Stumble(t) PROVE ChatTypeOK'
  BY <1>9, ChatAssumption DEF Stumble, GoOn
<1>10. ASSUME NEW t \in Turns, Apologise(t) PROVE ChatTypeOK'
  BY <1>10, ChatAssumption DEF Apologise, Say, Fails, GoOn
<1>11. ASSUME NEW t \in Turns, Settle(t) PROVE ChatTypeOK'
  BY <1>11, ChatAssumption DEF Settle, Finishable, Outcome, Fails, GoOn
<1>12. ASSUME NEW t \in Turns, SetIdle(t) PROVE ChatTypeOK'
  BY <1>12, ChatAssumption DEF SetIdle, Fails, GoOn
<1>13. ASSUME NEW t \in Turns, Die(t) PROVE ChatTypeOK'
  BY <1>13, ChatAssumption DEF Die, GoOn
<1>14. CASE Midnight
  BY <1>14 DEF Midnight
<1>15. CASE UNCHANGED chatVars
  BY <1>15
<1> QED
  BY <1>1, <1>2, <1>3, <1>4, <1>5, <1>6, <1>7, <1>8, <1>9, <1>10, <1>11, <1>12, <1>13, <1>14, <1>15 DEF ChatNext, Progress

\* A conversation falls silent while it runs, and speaks when it is set idle.
LEMMA SilentStep ==
  ASSUME ChatTypeOK, SilentRuns, [ChatNext]_chatVars PROVE SilentRuns'
<1> USE DEF chatVars, conversationVars, turnVars, boundVars, ChatTypeOK, SilentRuns
<1>1. ASSUME NEW c \in Conversations, Create(c) PROVE SilentRuns'
  BY <1>1, ChatAssumption DEF Create
<1>2. ASSUME NEW c \in Conversations, Refuse(c) PROVE SilentRuns'
  BY <1>2, ChatAssumption DEF Refuse, Say, Available
<1>3. ASSUME NEW c \in Conversations, FallSilent(c) PROVE SilentRuns'
  BY <1>3, ChatAssumption DEF FallSilent, TurnsOf
<1>4. ASSUME NEW c \in Conversations, Recover(c) PROVE SilentRuns'
  BY <1>4, ChatAssumption DEF Recover, Recoverable, RecoveredRuns, RecoveredTalk
<1>5. ASSUME NEW c \in Conversations, Notice(c) PROVE SilentRuns'
  BY <1>5, ChatAssumption DEF Notice
<1>6. ASSUME NEW t \in Turns, Admit(t) PROVE SilentRuns'
  BY <1>6, ChatAssumption DEF Admit, Available, GoOn
<1>7. ASSUME NEW t \in Turns, UseTool(t) PROVE SilentRuns'
  BY <1>7, ChatAssumption DEF UseTool
<1>8. ASSUME NEW t \in Turns, Reply(t) PROVE SilentRuns'
  BY <1>8, ChatAssumption DEF Reply, Say, GoOn
<1>9. ASSUME NEW t \in Turns, Stumble(t) PROVE SilentRuns'
  BY <1>9, ChatAssumption DEF Stumble, GoOn
<1>10. ASSUME NEW t \in Turns, Apologise(t) PROVE SilentRuns'
  BY <1>10, ChatAssumption DEF Apologise, Say, Fails, GoOn
<1>11. ASSUME NEW t \in Turns, Settle(t) PROVE SilentRuns'
  BY <1>11, ChatAssumption DEF Settle, Finishable, Outcome, Fails, GoOn
<1>12. ASSUME NEW t \in Turns, SetIdle(t) PROVE SilentRuns'
  BY <1>12, ChatAssumption DEF SetIdle, Fails, GoOn
<1>13. ASSUME NEW t \in Turns, Die(t) PROVE SilentRuns'
  BY <1>13, ChatAssumption DEF Die, GoOn
<1>14. CASE Midnight
  BY <1>14 DEF Midnight
<1>15. CASE UNCHANGED chatVars
  BY <1>15
<1> QED
  BY <1>1, <1>2, <1>3, <1>4, <1>5, <1>6, <1>7, <1>8, <1>9, <1>10, <1>11, <1>12, <1>13, <1>14, <1>15 DEF ChatNext, Progress

\* Without a stall nobody is admitted beside a live turn, nor recovered under one.
LEMMA LiveStep ==
  ASSUME ChatTypeOK, SilentRuns, LiveInv, [ChatNext]_chatVars PROVE LiveInv'
<1> USE DEF chatVars, conversationVars, turnVars, boundVars, ChatTypeOK, SilentRuns, LiveInv, Live, InOne
<1>1. ASSUME NEW c \in Conversations, Create(c) PROVE LiveInv'
  BY <1>1, ChatAssumption DEF Create
<1>2. ASSUME NEW c \in Conversations, Refuse(c) PROVE LiveInv'
  BY <1>2, ChatAssumption DEF Refuse, Say, Available
<1>3. ASSUME NEW c \in Conversations, FallSilent(c) PROVE LiveInv'
  BY <1>3, ChatAssumption DEF FallSilent, TurnsOf
<1>4. ASSUME NEW c \in Conversations, Recover(c) PROVE LiveInv'
  BY <1>4, ChatAssumption DEF Recover, Recoverable, RecoveredRuns, RecoveredTalk
<1>5. ASSUME NEW c \in Conversations, Notice(c) PROVE LiveInv'
  BY <1>5, ChatAssumption DEF Notice
<1>6. ASSUME NEW t \in Turns, Admit(t) PROVE LiveInv'
  <2> USE ChatAssumption DEF Admit, Available, GoOn
  <2> SUFFICES ASSUME stalls = 0 PROVE LiveInv'
    BY <1>6
  <2>1. \A u \in Turns : Live(u) => ~InOne(t, u)
    BY <1>6
  <2>2. \A u \in Turns \ {t} : turn'[u] = turn[u]
    BY <1>6
  <2>3. status'[ConversationOf[t]] = "running" /\ ConversationOf[t] \notin silent'
    BY <1>6
  <2>4. \A u \in Turns : ~InOne(t, u) => /\ status'[ConversationOf[u]] = status[ConversationOf[u]]
                                         /\ ConversationOf[u] \in silent' <=> ConversationOf[u] \in silent
    BY <1>6
  <2> QED
    BY <2>1, <2>2, <2>3, <2>4
<1>7. ASSUME NEW t \in Turns, UseTool(t) PROVE LiveInv'
  BY <1>7, ChatAssumption DEF UseTool
<1>8. ASSUME NEW t \in Turns, Reply(t) PROVE LiveInv'
  BY <1>8, ChatAssumption DEF Reply, Say, GoOn
<1>9. ASSUME NEW t \in Turns, Stumble(t) PROVE LiveInv'
  BY <1>9, ChatAssumption DEF Stumble, GoOn
<1>10. ASSUME NEW t \in Turns, Apologise(t) PROVE LiveInv'
  BY <1>10, ChatAssumption DEF Apologise, Say, Fails, GoOn
<1>11. ASSUME NEW t \in Turns, Settle(t) PROVE LiveInv'
  BY <1>11, ChatAssumption DEF Settle, Finishable, Outcome, Fails, GoOn
<1>12. ASSUME NEW t \in Turns, SetIdle(t) PROVE LiveInv'
  <2> USE ChatAssumption DEF SetIdle, Fails, GoOn
  <2> SUFFICES ASSUME stalls = 0 PROVE LiveInv'
    BY <1>12
  <2>1. \A u \in Turns \ {t} : Live(u) => ~InOne(t, u)
    BY <1>12
  <2>2. turn'[t] = "over" /\ \A u \in Turns \ {t} : turn'[u] = turn[u]
    BY <1>12
  <2>3. \A u \in Turns : ~InOne(t, u) => status'[ConversationOf[u]] = status[ConversationOf[u]]
    BY <1>12
  <2>4. silent' \subseteq silent
    BY <1>12
  <2> QED
    BY <2>1, <2>2, <2>3, <2>4
<1>13. ASSUME NEW t \in Turns, Die(t) PROVE LiveInv'
  BY <1>13, ChatAssumption DEF Die, GoOn
<1>14. CASE Midnight
  BY <1>14 DEF Midnight
<1>15. CASE UNCHANGED chatVars
  BY <1>15
<1> QED
  BY <1>1, <1>2, <1>3, <1>4, <1>5, <1>6, <1>7, <1>8, <1>9, <1>10, <1>11, <1>12, <1>13, <1>14, <1>15 DEF ChatNext, Progress

\* A run starts in a free conversation, which has none, and goes on in one
\* that stays running: nobody frees it while it runs.
LEMMA RunStep ==
  ASSUME ChatTypeOK, SilentRuns, LiveInv, RunInv, FreeInv, [ChatNext]_chatVars PROVE RunInv'
<1> USE DEF chatVars, conversationVars, turnVars, boundVars, ChatTypeOK, RunInv, FreeInv, InOne, OneKindOfFault
<1>1. ASSUME NEW c \in Conversations, Create(c) PROVE RunInv'
  BY <1>1, ChatAssumption DEF Create
<1>2. ASSUME NEW c \in Conversations, Refuse(c) PROVE RunInv'
  BY <1>2, ChatAssumption DEF Refuse, Say, Available
<1>3. ASSUME NEW c \in Conversations, FallSilent(c) PROVE RunInv'
  BY <1>3, ChatAssumption DEF FallSilent, TurnsOf
<1>4. ASSUME NEW c \in Conversations, Recover(c) PROVE RunInv'
  BY <1>4, ChatAssumption DEF Recover, Recoverable, RecoveredRuns, RecoveredTalk
<1>5. ASSUME NEW c \in Conversations, Notice(c) PROVE RunInv'
  BY <1>5, ChatAssumption DEF Notice
<1>6. ASSUME NEW t \in Turns, Admit(t) PROVE RunInv'
  <2> USE ChatAssumption DEF Admit, Available
  <2> SUFFICES ASSUME OneKindOfFault PROVE RunInv'
    BY <1>6
  <2>1. \A u \in Turns : run[u] = "running" => ~InOne(t, u)
    BY <1>6
  <2>2. run'[t] = "running" /\ \A u \in Turns \ {t} : run'[u] = run[u]
    BY <1>6
  <2>3. /\ status'[ConversationOf[t]] = "running"
        /\ \A c \in Conversations \ {ConversationOf[t]} : status'[c] = status[c]
    BY <1>6
  <2> QED
    BY <2>1, <2>2, <2>3
<1>7. ASSUME NEW t \in Turns, UseTool(t) PROVE RunInv'
  BY <1>7, ChatAssumption DEF UseTool
<1>8. ASSUME NEW t \in Turns, Reply(t) PROVE RunInv'
  BY <1>8, ChatAssumption DEF Reply, Say, GoOn
<1>9. ASSUME NEW t \in Turns, Stumble(t) PROVE RunInv'
  BY <1>9, ChatAssumption DEF Stumble, GoOn
<1>10. ASSUME NEW t \in Turns, Apologise(t) PROVE RunInv'
  BY <1>10, ChatAssumption DEF Apologise, Say, Fails, GoOn
<1>11. ASSUME NEW t \in Turns, Settle(t) PROVE RunInv'
  BY <1>11, ChatAssumption DEF Settle, Finishable, Outcome, Fails, GoOn
<1>12. ASSUME NEW t \in Turns, SetIdle(t) PROVE RunInv'
  <2> USE ChatAssumption DEF SetIdle, Fails, GoOn
  <2> SUFFICES ASSUME OneKindOfFault' PROVE RunInv'
    OBVIOUS
  <2>1. OneKindOfFault
    BY <1>12
  <2>2. \A u \in Turns : run[u] = "running" => ~InOne(t, u)
    BY <1>12, <2>1
  <2>3. run' = run /\ turn'[t] = "over" /\ \A u \in Turns \ {t} : turn'[u] = turn[u]
    BY <1>12
  <2>4. /\ \A c \in Conversations \ {ConversationOf[t]} : status'[c] = status[c]
        /\ silent' \subseteq silent
    BY <1>12
  <2> QED
    BY <2>1, <2>2, <2>3, <2>4
<1>13. ASSUME NEW t \in Turns, Die(t) PROVE RunInv'
  BY <1>13, ChatAssumption DEF Die, GoOn
<1>14. CASE Midnight
  BY <1>14 DEF Midnight
<1>15. CASE UNCHANGED chatVars
  BY <1>15
<1> QED
  BY <1>1, <1>2, <1>3, <1>4, <1>5, <1>6, <1>7, <1>8, <1>9, <1>10, <1>11, <1>12, <1>13, <1>14, <1>15 DEF ChatNext, Progress

\* Nothing happens to a conversation between the settling of its run and the
\* statement that frees it.
LEMMA FreeStep ==
  ASSUME ChatTypeOK, SilentRuns, LiveInv, RunInv, FreeInv, AnswerInv, [ChatNext]_chatVars PROVE FreeInv'
<1> USE DEF chatVars, conversationVars, turnVars, boundVars, ChatTypeOK, RunInv, FreeInv, LiveInv, AnswerInv, Live, InOne, OneKindOfFault
<1>1. ASSUME NEW c \in Conversations, Create(c) PROVE FreeInv'
  BY <1>1, ChatAssumption DEF Create
<1>2. ASSUME NEW c \in Conversations, Refuse(c) PROVE FreeInv'
  BY <1>2, ChatAssumption DEF Refuse, Say, Available
<1>3. ASSUME NEW c \in Conversations, FallSilent(c) PROVE FreeInv'
  BY <1>3, ChatAssumption DEF FallSilent, TurnsOf
<1>4. ASSUME NEW c \in Conversations, Recover(c) PROVE FreeInv'
  BY <1>4, ChatAssumption DEF Recover, Recoverable, RecoveredRuns, RecoveredTalk
<1>5. ASSUME NEW c \in Conversations, Notice(c) PROVE FreeInv'
  BY <1>5, ChatAssumption DEF Notice
<1>6. ASSUME NEW t \in Turns, Admit(t) PROVE FreeInv'
  BY <1>6, ChatAssumption DEF Admit, Available, GoOn
<1>7. ASSUME NEW t \in Turns, UseTool(t) PROVE FreeInv'
  BY <1>7, ChatAssumption DEF UseTool
<1>8. ASSUME NEW t \in Turns, Reply(t) PROVE FreeInv'
  BY <1>8, ChatAssumption DEF Reply, Say, GoOn
<1>9. ASSUME NEW t \in Turns, Stumble(t) PROVE FreeInv'
  BY <1>9, ChatAssumption DEF Stumble, GoOn
<1>10. ASSUME NEW t \in Turns, Apologise(t) PROVE FreeInv'
  BY <1>10, ChatAssumption DEF Apologise, Say, Fails, GoOn
<1>11. ASSUME NEW t \in Turns, Settle(t) PROVE FreeInv'
  BY <1>11, ChatAssumption DEF Settle, Finishable, Outcome, Fails, GoOn
<1>12. ASSUME NEW t \in Turns, SetIdle(t) PROVE FreeInv'
  <2> USE ChatAssumption DEF SetIdle, Fails, GoOn
  <2> SUFFICES ASSUME OneKindOfFault' PROVE FreeInv'
    OBVIOUS
  <2>1. OneKindOfFault
    BY <1>12
  <2>2. \A u \in Turns : turn[u] = "free" /\ u # t => ~InOne(t, u)
    BY <1>12, <2>1
  <2>3. run' = run /\ turn'[t] = "over" /\ \A u \in Turns \ {t} : turn'[u] = turn[u]
    BY <1>12
  <2>4. /\ \A c \in Conversations \ {ConversationOf[t]} : status'[c] = status[c]
        /\ silent' \subseteq silent
    BY <1>12
  <2> QED
    BY <2>1, <2>2, <2>3, <2>4
<1>13. ASSUME NEW t \in Turns, Die(t) PROVE FreeInv'
  BY <1>13, ChatAssumption DEF Die, GoOn
<1>14. CASE Midnight
  BY <1>14 DEF Midnight
<1>15. CASE UNCHANGED chatVars
  BY <1>15
<1> QED
  BY <1>1, <1>2, <1>3, <1>4, <1>5, <1>6, <1>7, <1>8, <1>9, <1>10, <1>11, <1>12, <1>13, <1>14, <1>15 DEF ChatNext, Progress

\* A turn ends with an answer stored, and no message arrives before it has.
LEMMA AnswerStep ==
  ASSUME ChatTypeOK, SilentRuns, LiveInv, RunInv, FreeInv, AnswerInv, [ChatNext]_chatVars PROVE AnswerInv'
<1> USE DEF chatVars, conversationVars, turnVars, boundVars, ChatTypeOK, RunInv, FreeInv, LiveInv, AnswerInv, Live, InOne, Ending, OneKindOfFault
<1>1. ASSUME NEW c \in Conversations, Create(c) PROVE AnswerInv'
  BY <1>1, ChatAssumption DEF Create
<1>2. ASSUME NEW c \in Conversations, Refuse(c) PROVE AnswerInv'
  BY <1>2, ChatAssumption DEF Refuse, Say, Available
<1>3. ASSUME NEW c \in Conversations, FallSilent(c) PROVE AnswerInv'
  BY <1>3, ChatAssumption DEF FallSilent, TurnsOf
<1>4. ASSUME NEW c \in Conversations, Recover(c) PROVE AnswerInv'
  BY <1>4, ChatAssumption DEF Recover, Recoverable, RecoveredRuns, RecoveredTalk
<1>5. ASSUME NEW c \in Conversations, Notice(c) PROVE AnswerInv'
  BY <1>5, ChatAssumption DEF Notice
<1>6. ASSUME NEW t \in Turns, Admit(t) PROVE AnswerInv'
  BY <1>6, ChatAssumption DEF Admit, Available, GoOn
<1>7. ASSUME NEW t \in Turns, UseTool(t) PROVE AnswerInv'
  BY <1>7, ChatAssumption DEF UseTool
<1>8. ASSUME NEW t \in Turns, Reply(t) PROVE AnswerInv'
  BY <1>8, ChatAssumption DEF Reply, Say, GoOn
<1>9. ASSUME NEW t \in Turns, Stumble(t) PROVE AnswerInv'
  BY <1>9, ChatAssumption DEF Stumble, GoOn
<1>10. ASSUME NEW t \in Turns, Apologise(t) PROVE AnswerInv'
  BY <1>10, ChatAssumption DEF Apologise, Say, Fails, GoOn
<1>11. ASSUME NEW t \in Turns, Settle(t) PROVE AnswerInv'
  BY <1>11, ChatAssumption DEF Settle, Finishable, Outcome, Fails, GoOn
<1>12. ASSUME NEW t \in Turns, SetIdle(t) PROVE AnswerInv'
  BY <1>12, ChatAssumption DEF SetIdle, Fails, GoOn
<1>13. ASSUME NEW t \in Turns, Die(t) PROVE AnswerInv'
  BY <1>13, ChatAssumption DEF Die, GoOn
<1>14. CASE Midnight
  BY <1>14 DEF Midnight
<1>15. CASE UNCHANGED chatVars
  BY <1>15
<1> QED
  BY <1>1, <1>2, <1>3, <1>4, <1>5, <1>6, <1>7, <1>8, <1>9, <1>10, <1>11, <1>12, <1>13, <1>14, <1>15 DEF ChatNext, Progress

\* A conversation is set idle by a turn that answered or by the notice of its
\* recovery.
LEMMA AnsweredStep ==
  ASSUME ChatTypeOK, AnswerInv, EveryMessageAnswered, [ChatNext]_chatVars PROVE EveryMessageAnswered'
<1> USE DEF chatVars, conversationVars, turnVars, boundVars, ChatTypeOK, AnswerInv, Ending, EveryMessageAnswered
<1>1. ASSUME NEW c \in Conversations, Create(c) PROVE EveryMessageAnswered'
  BY <1>1, ChatAssumption DEF Create
<1>2. ASSUME NEW c \in Conversations, Refuse(c) PROVE EveryMessageAnswered'
  BY <1>2, ChatAssumption DEF Refuse, Say, Available
<1>3. ASSUME NEW c \in Conversations, FallSilent(c) PROVE EveryMessageAnswered'
  BY <1>3, ChatAssumption DEF FallSilent, TurnsOf
<1>4. ASSUME NEW c \in Conversations, Recover(c) PROVE EveryMessageAnswered'
  BY <1>4, ChatAssumption DEF Recover, Recoverable, RecoveredRuns, RecoveredTalk
<1>5. ASSUME NEW c \in Conversations, Notice(c) PROVE EveryMessageAnswered'
  BY <1>5, ChatAssumption DEF Notice
<1>6. ASSUME NEW t \in Turns, Admit(t) PROVE EveryMessageAnswered'
  <2>1. /\ status'[ConversationOf[t]] = "running"
        /\ \A c \in Conversations \ {ConversationOf[t]} : status'[c] = status[c]
    BY <1>6, ChatAssumption DEF Admit
  <2>2. unanswered' \subseteq unanswered \cup {ConversationOf[t]} /\ dbErrors' = dbErrors
    BY <1>6 DEF Admit
  <2> QED
    BY <2>1, <2>2
<1>7. ASSUME NEW t \in Turns, UseTool(t) PROVE EveryMessageAnswered'
  BY <1>7, ChatAssumption DEF UseTool
<1>8. ASSUME NEW t \in Turns, Reply(t) PROVE EveryMessageAnswered'
  BY <1>8, ChatAssumption DEF Reply, Say, GoOn
<1>9. ASSUME NEW t \in Turns, Stumble(t) PROVE EveryMessageAnswered'
  BY <1>9, ChatAssumption DEF Stumble, GoOn
<1>10. ASSUME NEW t \in Turns, Apologise(t) PROVE EveryMessageAnswered'
  BY <1>10, ChatAssumption DEF Apologise, Say, Fails, GoOn
<1>11. ASSUME NEW t \in Turns, Settle(t) PROVE EveryMessageAnswered'
  BY <1>11, ChatAssumption DEF Settle, Finishable, Outcome, Fails, GoOn
<1>12. ASSUME NEW t \in Turns, SetIdle(t) PROVE EveryMessageAnswered'
  BY <1>12, ChatAssumption DEF SetIdle, Fails, GoOn
<1>13. ASSUME NEW t \in Turns, Die(t) PROVE EveryMessageAnswered'
  BY <1>13, ChatAssumption DEF Die, GoOn
<1>14. CASE Midnight
  BY <1>14 DEF Midnight
<1>15. CASE UNCHANGED chatVars
  BY <1>15
<1> QED
  BY <1>1, <1>2, <1>3, <1>4, <1>5, <1>6, <1>7, <1>8, <1>9, <1>10, <1>11, <1>12, <1>13, <1>14, <1>15 DEF ChatNext, Progress

-----------------------------------------------------------------------------
(* Counting *)

\* A set of turns without two different members counts at most one.
LEMMA NoTwoIsAtMostOne ==
  ASSUME NEW S, \A x, y \in S : x = y
  PROVE  /\ Cardinality(S) \in {0, 1}
         /\ S = {} => Cardinality(S) = 0
<1>1. CASE S = {}
  BY <1>1, FS_EmptySet
<1>2. CASE S # {}
  <2>1. PICK x : x \in S
    BY <1>2
  <2>2. S = {x}
    BY <2>1
  <2> QED
    BY <2>1, <2>2, FS_Singleton
<1> QED
  BY <1>1, <1>2

\* Two live turns of a conversation would both be the one it holds.
LEMMA InvIsSerial == TurnInv => TurnsAreSerial
<1> SUFFICES ASSUME TurnInv, NEW c \in Conversations
             PROVE  /\ OneKindOfFault =>
                         Cardinality({t \in TurnsOf(c) : run[t] = "running"})
                           <= (IF status[c] = "running" THEN 1 ELSE 0)
                    /\ stalls = 0 => Cardinality({t \in TurnsOf(c) : Live(t)}) <= 1
  BY DEF TurnsAreSerial
<1>1. ASSUME OneKindOfFault
      PROVE  Cardinality({t \in TurnsOf(c) : run[t] = "running"})
               <= (IF status[c] = "running" THEN 1 ELSE 0)
  <2> DEFINE atWork == {t \in TurnsOf(c) : run[t] = "running"}
  <2>1. /\ \A x, y \in atWork : x = y
        /\ status[c] # "running" => atWork = {}
    BY <1>1 DEF TurnInv, RunInv, TurnsOf, InOne
  <2> HIDE DEF atWork
  <2>2. Cardinality(atWork) \in {0, 1} /\ (atWork = {} => Cardinality(atWork) = 0)
    BY <2>1, NoTwoIsAtMostOne
  <2>3. Cardinality(atWork) <= (IF status[c] = "running" THEN 1 ELSE 0)
    BY <2>1, <2>2
  <2> QED
    BY <2>3 DEF atWork
<1>2. ASSUME stalls = 0
      PROVE  Cardinality({t \in TurnsOf(c) : Live(t)}) <= 1
  <2> DEFINE live == {t \in TurnsOf(c) : Live(t)}
  <2>1. \A x, y \in live : x = y
    BY <1>2 DEF TurnInv, LiveInv, TurnsOf, InOne
  <2> HIDE DEF live
  <2>2. Cardinality(live) \in {0, 1}
    BY <2>1, NoTwoIsAtMostOne
  <2>3. Cardinality(live) <= 1
    BY <2>2
  <2> QED
    BY <2>3 DEF live
<1> QED
  BY <1>1, <1>2

-----------------------------------------------------------------------------
(* The theorems *)

\* No turn runs, and nothing waits.
LEMMA TurnInvInit == ChatInit => TurnInv
BY ChatAssumption DEF ChatInit, TurnInv, ChatTypeOK, SilentRuns, LiveInv, RunInv, FreeInv,
   AnswerInv, Ending, Live, EveryMessageAnswered

\* One step per action of a request, of the background turn and of the restart.
LEMMA TurnInvStep == TurnInv /\ [ChatNext]_chatVars => TurnInv'
BY TypeStep, SilentStep, LiveStep, RunStep, FreeStep, AnswerStep, AnsweredStep
   DEF TurnInv

\* The types of the rows and of the handlers' program points.
THEOREM AgentChatTypeCorrect == ChatSpec => []ChatTypeOK
<1>1. TurnInv => ChatTypeOK
  BY DEF TurnInv
<1> QED
  BY <1>1, TurnInvInit, TurnInvStep, PTL DEF ChatSpec

\* The turns of a conversation come one after the other, through deaths,
\* recoveries and either kind of fault: one running run at most, none in a
\* conversation that is free, and one live handler unless one seemed dead
\* (agentTurn, finishAgentRun, getConversation).
THEOREM OneTurnAtATime == ChatSpec => []TurnsAreSerial
BY TurnInvInit, TurnInvStep, InvIsSerial, PTL DEF ChatSpec

\* As long as no statement failed, a message without an answer is in a
\* conversation whose turn is still to come or under way.
THEOREM NoMessageIsDropped == ChatSpec => []EveryMessageAnswered
<1>1. TurnInv => EveryMessageAnswered
  BY DEF TurnInv
<1> QED
  BY <1>1, TurnInvInit, TurnInvStep, PTL DEF ChatSpec

\* The cap of a user is checked in the transaction that counts the turn, so no
\* number of conversations, deaths or recoveries takes it over the cap
\* (agentTurn, AGENT_CHAT_DAILY_TURNS).
THEOREM CapNeverExceeded == ChatSpec => []DailyCapHolds
<1> DEFINE Inv == ChatTypeOK /\ DailyCapHolds
<1> DEFINE mine(u, S) == {t \in S : OwnerOf[ConversationOf[t]] = u}
<1>1. ChatInit => Inv
  <2> SUFFICES ASSUME ChatInit PROVE DailyCapHolds
    BY TurnInvInit DEF TurnInv
  <2> SUFFICES ASSUME NEW u \in ChatUsers PROVE Cardinality(mine(u, today)) <= DailyCap
    BY DEF DailyCapHolds
  <2>1. mine(u, today) = {}
    BY DEF ChatInit
  <2>2. Cardinality(mine(u, today)) = 0
    BY <2>1, FS_EmptySet
  <2> QED
    BY <2>2, ChatAssumption
<1>2. Inv /\ [ChatNext]_chatVars => Inv'
  <2> SUFFICES ASSUME Inv, [ChatNext]_chatVars PROVE DailyCapHolds'
    BY TypeStep
  <2>1. ASSUME NEW t \in Turns, Admit(t) PROVE DailyCapHolds'
    <3> SUFFICES ASSUME NEW u \in ChatUsers PROVE Cardinality(mine(u, today')) <= DailyCap
      BY DEF DailyCapHolds
    <3>1. Cardinality(mine(u, today)) <= DailyCap
      BY DEF DailyCapHolds
    <3>2. CASE OwnerOf[ConversationOf[t]] # u
      <4>1. mine(u, today') = mine(u, today)
        BY <2>1, <3>2 DEF Admit
      <4> QED
        BY <4>1, <3>1
    <3>3. CASE OwnerOf[ConversationOf[t]] = u
      <4>1. mine(u, today') = mine(u, today) \cup {t}
        BY <2>1, <3>3 DEF Admit
      <4>2. mine(u, today) \in SUBSET Turns
        BY DEF ChatTypeOK
      <4>3. IsFiniteSet(mine(u, today))
        BY <4>2, FS_Subset, ChatAssumption
      <4>4. Cardinality(mine(u, today)) < DailyCap
        BY <2>1, <3>3 DEF Admit, Used
      <4> HIDE DEF mine
      <4>5. Cardinality(mine(u, today)) \in Nat
        BY <4>3, FS_CardinalityType
      <4>6. \/ Cardinality(mine(u, today')) = Cardinality(mine(u, today))
            \/ Cardinality(mine(u, today')) = Cardinality(mine(u, today)) + 1
        BY <4>1, <4>3, FS_AddElement
      <4> QED
        BY <4>4, <4>5, <4>6, ChatAssumption
    <3> QED
      BY <3>2, <3>3
  <2>2. CASE Midnight
    <3> SUFFICES ASSUME NEW u \in ChatUsers PROVE Cardinality(mine(u, today')) <= DailyCap
      BY DEF DailyCapHolds
    <3>1. mine(u, today') = {}
      BY <2>2 DEF Midnight
    <3>2. Cardinality(mine(u, today')) = 0
      BY <3>1, FS_EmptySet
    <3> QED
      BY <3>2, ChatAssumption
  <2>3. CASE today' = today
    BY <2>3 DEF DailyCapHolds
  <2>4. ASSUME NEW c \in Conversations,
               Create(c) \/ Refuse(c) \/ FallSilent(c) \/ Recover(c) \/ Notice(c)
        PROVE  today' = today
    BY <2>4 DEF Create, Refuse, FallSilent, Recover, Notice
  <2>5. ASSUME NEW t \in Turns, UseTool(t) \/ Progress(t) \/ Die(t)
        PROVE  today' = today
    BY <2>5 DEF UseTool, Progress, Reply, Stumble, Apologise, Settle, SetIdle, Die
  <2> QED
    BY <2>1, <2>2, <2>3, <2>4, <2>5 DEF ChatNext, chatVars
<1>3. Inv => DailyCapHolds
  OBVIOUS
<1> QED
  BY <1>1, <1>2, <1>3, PTL DEF ChatSpec
=============================================================================
