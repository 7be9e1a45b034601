------------------------------- MODULE MCLocks -------------------------------
(***************************************************************************)
(* What the API counts under a lock: the balances of the credit ledger and *)
(* the admission of requests.  They share no state: a behaviour is about   *)
(* one of them, and the other keeps its first state.  The ledger has two   *)
(* users, spenders and grants in small coin; admission has two owners, one *)
(* GPU, and a proposal to one of them.                                     *)
(***************************************************************************)
EXTENDS CreditLedger, Admission, TLC

VARIABLE about  \* what this behaviour is about
locksVars == <<about, vars, admitVars>>

LocksInit == /\ about \in {"ledger", "admission"}
             /\ Init /\ AdmitInit
             /\ about = "ledger" => \A u \in Owners : level[u] = "technical"

LocksNext ==
  \/ about = "ledger" /\ Next /\ UNCHANGED <<about, admitVars>>
  \/ about = "admission" /\ AdmitNext /\ UNCHANGED <<about, vars>>

LocksSpec == LocksInit /\ [][LocksNext]_locksVars

CONSTANTS alice, bob, c1, c2, c3, k1, k2

MCDeltas == {-1, 1}
Alike == Permutations(Callers) \cup Permutations(CreateCalls)

MCOffer == [o \in {"p"} |-> [owner |-> "ann", size |-> "gpu"]]
MCMemory == [small |-> 1, gpu |-> 2]
MCAllowance == [nontechnical |-> [servers |-> 1, memory |-> 1],
                technical |-> [servers |-> 2, memory |-> 2]]
=============================================================================
