----------------------------- MODULE CreditLedger -----------------------------
(***************************************************************************)
(* The credit ledger (apps/api/src/domain/ledger.ts): one hash chain over  *)
(* all users, appended to inside transactions of its callers, and walked   *)
(* page by page by verifyLedger while appends go on.                       *)
(*                                                                         *)
(* Statements of a transaction are steps, and each reads what is committed *)
(* when it starts.  A hash is the id of the row it belongs to: two rows    *)
(* share one only if SHA-256 collides.                                     *)
(***************************************************************************)
EXTENDS Integers, FiniteSetsExt

CONSTANTS
  Users,
  Callers,      \* transactions that append
  Deltas,       \* amounts, positive and negative
  Page,         \* VERIFY_PAGE
  MaxAppends,   \* bound: appends of one transaction
  MaxRows       \* bound: rows inserted

Genesis == 0
Nobody  == "nobody"

ASSUME LedgerAssumption ==
  /\ Users # {} /\ Deltas # {} /\ Deltas \subseteq Int \ {0}
  /\ Nobody \notin Callers
  /\ Page \in Nat \ {0} /\ MaxAppends \in Nat /\ MaxRows \in Nat

VARIABLES
  rows,      \* credit_ledger by id: committed rows and those of open callers
  open,      \* ids whose transaction has not committed
  lastId,    \* the identity sequence, which rollbacks do not turn back
  lock,      \* the caller that holds the advisory lock
  caller,    \* each caller's next statement
  entry,     \* its append: user, delta, and what it has read for it
  appends,   \* its appends so far
  verifier,  \* off, walking, ok, broken
  checked    \* ids it has accepted

ledgerVars == <<rows, open, lastId>>
callerVars == <<caller, entry, appends>>
vars == <<ledgerVars, lock, callerVars, verifier, checked>>

Row == [user : Users, delta : Deltas, after : Int, prev : Nat, by : Callers]

TypeOK ==
  /\ DOMAIN rows \subseteq 1 .. lastId /\ open \subseteq DOMAIN rows
  /\ \A i \in DOMAIN rows : rows[i] \in Row
  /\ lastId \in Nat
  /\ lock \in Callers \cup {Nobody}
  /\ caller \in [Callers -> {"ready", "locked", "linked", "read", "over"}]
  /\ entry \in [Callers -> [user : Users, delta : Deltas, prev : Nat, after : Int]]
  /\ appends \in [Callers -> Nat]
  /\ verifier \in {"off", "walking", "ok", "broken"}
  /\ checked \subseteq 1 .. lastId

Init ==
  /\ rows = << >> /\ open = {} /\ lastId = 0
  /\ lock = Nobody
  /\ caller = [c \in Callers |-> "ready"]
  /\ entry \in [Callers -> {[user |-> CHOOSE u \in Users : TRUE,
                             delta |-> CHOOSE d \in Deltas : TRUE,
                             prev |-> Genesis, after |-> 0]}]
  /\ appends = [c \in Callers |-> 0]
  /\ verifier = "off" /\ checked = {}

-----------------------------------------------------------------------------
(* What a statement sees *)

Committed  == DOMAIN rows \ open
Visible(c) == Committed \cup {i \in open : rows[i].by = c}

Last(S) == IF S = {} THEN Genesis ELSE Max(S)

\* The user's latest balance_after.
Balance(c, u) == LET mine == {i \in Visible(c) : rows[i].user = u}
                 IN  IF mine = {} THEN 0 ELSE rows[Max(mine)].after

-----------------------------------------------------------------------------
(* appendCreditInTx *)

\* Seeded fault: nobody waits.
MutMayLock(c) == TRUE

\* The lock is held to the end of the transaction, and may be taken again by it.
MayLock(c) == lock \in {Nobody, c}

Lock(c) ==
  /\ caller[c] = "ready" /\ appends[c] < MaxAppends
  /\ MayLock(c)
  /\ lock' = c
  /\ \E u \in Users, d \in Deltas :
       entry' = [entry EXCEPT ![c] = [user |-> u, delta |-> d, prev |-> Genesis, after |-> 0]]
  /\ caller' = [caller EXCEPT ![c] = "locked"]
  /\ UNCHANGED <<ledgerVars, appends, verifier, checked>>

ReadHead(c) ==
  /\ caller[c] = "locked"
  /\ entry' = [entry EXCEPT ![c].prev = Last(Visible(c))]
  /\ caller' = [caller EXCEPT ![c] = "linked"]
  /\ UNCHANGED <<ledgerVars, lock, appends, verifier, checked>>

ReadBalance(c) ==
  /\ caller[c] = "linked"
  /\ entry' = [entry EXCEPT ![c].after = Balance(c, entry[c].user) + entry[c].delta]
  /\ caller' = [caller EXCEPT ![c] = "read"]
  /\ UNCHANGED <<ledgerVars, lock, appends, verifier, checked>>

\* An overdraft writes nothing and leaves the transaction usable.
Overdrawn(c) == entry[c].after < 0

Overdraft(c) ==
  /\ caller[c] = "read" /\ Overdrawn(c)
  /\ appends' = [appends EXCEPT ![c] = @ + 1]
  /\ caller' = [caller EXCEPT ![c] = "ready"]
  /\ UNCHANGED <<ledgerVars, lock, entry, verifier, checked>>

\* Rows that hold the same prev_hash: the unique index refuses the insert, or
\* makes it wait for their transaction.
Rivals(c) == {i \in DOMAIN rows : rows[i].prev = entry[c].prev}

\* The identity sequence gives the id; balance_after >= 0 is a CHECK as well.
Insert(c) ==
  /\ caller[c] = "read" /\ ~Overdrawn(c)
  /\ lastId < MaxRows /\ lastId' = lastId + 1
  /\ Rivals(c) = {}
  /\ rows' = [i \in DOMAIN rows \cup {lastId'} |->
                IF i = lastId' THEN [user |-> entry[c].user, delta |-> entry[c].delta,
                                     after |-> entry[c].after, prev |-> entry[c].prev,
                                     by |-> c]
                               ELSE rows[i]]
  /\ open' = open \cup {lastId'}
  /\ appends' = [appends EXCEPT ![c] = @ + 1]
  /\ caller' = [caller EXCEPT ![c] = "ready"]
  /\ UNCHANGED <<lock, entry, verifier, checked>>

\* A transaction ends, and the lock with it.
End(c) == /\ caller' = [caller EXCEPT ![c] = "over"]
          /\ lock' = IF lock = c THEN Nobody ELSE lock
          /\ UNCHANGED <<lastId, entry, appends, verifier, checked>>

Commit(c) ==
  /\ caller[c] = "ready" /\ appends[c] > 0
  /\ open' = {i \in open : rows[i].by # c}
  /\ End(c)
  /\ UNCHANGED rows

\* The caller's own work failed, a statement did, or its process died.
Rollback(c) ==
  /\ caller[c] # "over"
  /\ rows' = [i \in DOMAIN rows \ {j \in open : rows[j].by = c} |-> rows[i]]
  /\ open' = {i \in open : rows[i].by # c}
  /\ End(c)

-----------------------------------------------------------------------------
(* verifyLedger *)

\* Seeded fault: a page starts with the row the last one ended with.
MutAfter == Last(checked) - 1

After == Last(checked)

\* SELECT ... WHERE id > after ORDER BY id LIMIT Page.
NextPage == LET later == {i \in Committed : i > After}
            IN  {i \in later : Cardinality({j \in later : j < i}) < Page}

\* The balance the walk expects after row i.
Expected(i, seen) ==
  SumFunctionOnSet([j \in seen |-> rows[j].delta],
                   {j \in seen : rows[j].user = rows[i].user /\ j <= i})

Linked(i, page) == rows[i].prev = Last(checked \cup {j \in page : j < i})

Sound(page) ==
  \A i \in page : Linked(i, page) /\ rows[i].after = Expected(i, checked \cup page)

Begin ==
  /\ verifier = "off"
  /\ verifier' = "walking"
  /\ UNCHANGED <<ledgerVars, lock, callerVars, checked>>

\* One page is read and walked; a short one is the last.
Walk ==
  /\ verifier = "walking"
  /\ checked' = checked \cup NextPage
  /\ verifier' = IF ~Sound(NextPage) THEN "broken"
                 ELSE IF Cardinality(NextPage) < Page THEN "ok" ELSE "walking"
  /\ UNCHANGED <<ledgerVars, lock, callerVars>>

-----------------------------------------------------------------------------
Append(c) == Lock(c) \/ ReadHead(c) \/ ReadBalance(c) \/ Overdraft(c) \/ Insert(c)

Next == \/ \E c \in Callers : Append(c) \/ Commit(c) \/ Rollback(c)
        \/ Begin \/ Walk

Spec == Init /\ [][Next]_vars

-----------------------------------------------------------------------------
(* Properties *)

AppendsNeverCollide == \A c \in Callers : caller[c] = "read" => Rivals(c) = {}

BalancesAreSums ==
  \A i \in Committed : rows[i].after = Expected(i, Committed) /\ rows[i].after >= 0

\* The chain is one, and its balances are its sums.  What an append read is
\* still the end of the chain when it inserts, so the unique index on prev_hash
\* is a second line of defence and no caller sees its error; every balance is
\* the sum of its user's movements up to it and never below zero, through
\* rollbacks, several appends of one transaction and concurrent spenders
\* (appendCreditInTx).
ChainIsOne == AppendsNeverCollide /\ BalancesAreSums

\* A verification that runs between appends never finds a broken chain:
\* ids commit in the order of the links, so no page skips a row.
VerifyNeverAccuses == verifier # "broken"
=============================================================================
