----------------------------- MODULE AccessProofs -----------------------------
(***************************************************************************)
(* Four results about accounts and what they hand out, for any number of   *)
(* accounts, logins, calls, grants and boxes.                              *)
(*                                                                         *)
(* Grants: a call that came in too late is never served (LateInv), and no  *)
(* account has more live tokens than allowed (CapInv).  Accounts: what the *)
(* tables hold and what logins and calls know (AccountsInv); with it, that *)
(* the row of an account tells the decisions of its trace (ReviewInv) and  *)
(* that a secret appears on the page that waits for it (SecretInv).        *)
(***************************************************************************)
EXTENDS Access, FiniteSetTheorems, SequenceTheorems, TLAPS

\* What grants and bearers look like.  Whose a grant is and which role was seen
\* does not matter here: owners and roles are members of some set X.
GrantRecord(X) == [kind : {None, "token", "ticket"}, owner : X,
                   box : Boxes \cup {None, All}, at : {"absent", "live", "over"}]
BearerRecord(X) == [at : {None, "in", "known", "resolved", "served"},
                    grant : Grants \cup {None}, box : Boxes \cup {None},
                    role : X, saw : {None, "running", "stopped", "deleted"},
                    late : BOOLEAN]

Shaped(X) == /\ grants \in [Grants -> GrantRecord(X)]
             /\ boxes \in [Boxes -> {"running", "stopped", "deleted"}]
             /\ bearers \in [Bearers -> BearerRecord(X)]

\* A row that has a kind has been inserted; a ticket is for a box.
Inserted(g) == /\ grants[g].kind # None => grants[g].at # "absent"
               /\ grants[g].kind = "ticket" => grants[g].box \in Boxes

\* A call under way bears a row that exists, a ticket its own box.
Placed(a) ==
  bearers[a].at # None =>
    /\ bearers[a].grant \in Grants /\ bearers[a].box \in Boxes
    /\ grants[bearers[a].grant].kind # None
    /\ grants[bearers[a].grant].kind = "ticket"
         => bearers[a].box = grants[bearers[a].grant].box

\* What a late call rests on stays over: it is stopped where its grant is
\* looked up, or, if that was live, where its box is.
Stopped(a) ==
  bearers[a].at # None /\ bearers[a].late =>
    /\ bearers[a].at \in {"in", "known"}
    /\ ~Live(bearers[a].grant) \/ boxes[bearers[a].box] = "deleted"
    /\ bearers[a].at = "known" => boxes[bearers[a].box] = "deleted"

LateInv == /\ \E X : Shaped(X)
           /\ \A g \in Grants : Inserted(g)
           /\ \A a \in Bearers : Placed(a) /\ Stopped(a)

-----------------------------------------------------------------------------
\* Steps that touch neither grants, boxes nor bearers.
LEMMA ElsewhereKeeps ==
  ASSUME LateInv, UNCHANGED <<grants, boxes, bearers>>
  PROVE  LateInv'
BY DEF LateInv, Shaped, Inserted, Placed, Stopped, Live

\* A grant once inserted keeps its kind and box and never comes back to life.
Ages(g) == \/ grants[g].kind = None
           \/ /\ grants'[g].kind = grants[g].kind /\ grants'[g].box = grants[g].box
              /\ grants'[g].at = "live" => grants[g].at = "live"

LEMMA GrantsKeep ==
  ASSUME LateInv, UNCHANGED <<boxes, bearers>>,
         NEW X, grants' \in [Grants -> GrantRecord(X)],
         \A g \in Grants : Inserted(g)' /\ Ages(g)
  PROVE  LateInv'
<1>1. PICK Y : Shaped(Y)
  BY DEF LateInv
<1>2. Shaped(X \cup Y)'
  BY <1>1 DEF Shaped, GrantRecord, BearerRecord
<1>3. ASSUME NEW a \in Bearers PROVE Placed(a)' /\ Stopped(a)'
  BY <1>1 DEF LateInv, Placed, Stopped, Ages, Live
<1> QED
  BY <1>2, <1>3 DEF LateInv

\* A new grant takes a row that was never used.
LEMMA InsertKeeps ==
  ASSUME LateInv, UNCHANGED <<boxes, bearers>>,
         NEW g \in Grants, grants[g].at = "absent",
         NEW kind \in {"token", "ticket"}, NEW e,
         NEW m \in Boxes \cup {All}, kind = "ticket" => m \in Boxes,
         grants' = [grants EXCEPT ![g] = Grant(kind, e, m)]
  PROVE  LateInv'
<1>1. PICK X : Shaped(X)
  BY DEF LateInv
<1>2. grants' \in [Grants -> GrantRecord(X \cup {e})]
  BY <1>1 DEF Shaped, GrantRecord, Grant
<1>3. ASSUME NEW h \in Grants PROVE Inserted(h)' /\ Ages(h)
  BY <1>1, <1>2 DEF LateInv, Shaped, GrantRecord, Grant, Inserted, Ages, None
<1> QED
  BY <1>2, <1>3, GrantsKeep

\* A grant that is revoked or lapses.
LEMMA EndKeeps ==
  ASSUME LateInv, UNCHANGED <<boxes, bearers>>,
         NEW g \in Grants, grants' = [grants EXCEPT ![g].at = "over"]
  PROVE  LateInv'
<1>1. PICK X : Shaped(X)
  BY DEF LateInv
<1>2. grants' \in [Grants -> GrantRecord(X)]
  BY <1>1 DEF Shaped, GrantRecord
<1>3. ASSUME NEW h \in Grants PROVE Inserted(h)' /\ Ages(h)
  BY <1>1, <1>2 DEF LateInv, Shaped, GrantRecord, Inserted, Ages, None
<1> QED
  BY <1>2, <1>3, GrantsKeep

\* A box that is deleted stays so.
LEMMA BoxesKeep ==
  ASSUME LateInv, NEW m \in Boxes, BoxChanges(m)
  PROVE  LateInv'
<1>1. PICK X : Shaped(X)
  BY DEF LateInv
<1>2. Shaped(X)' /\ \A n \in Boxes : boxes[n] = "deleted" => boxes'[n] = "deleted"
  BY <1>1 DEF BoxChanges, Shaped
<1>3. ASSUME NEW a \in Bearers PROVE Placed(a)' /\ Stopped(a)'
  BY <1>1, <1>2 DEF LateInv, BoxChanges, Placed, Stopped, Live
<1>4. \A g \in Grants : Inserted(g)'
  BY DEF LateInv, BoxChanges, Inserted
<1> QED
  BY <1>2, <1>3, <1>4 DEF LateInv

-----------------------------------------------------------------------------
(* Steps of a call *)

\* A step of call a that leaves the tables alone, but for a box it may start or
\* stop.
LEMMA CallKeeps ==
  ASSUME LateInv, NEW a \in Bearers, UNCHANGED grants,
         boxes' \in [Boxes -> {"running", "stopped", "deleted"}],
         \A m \in Boxes : boxes[m] = "deleted" => boxes'[m] = "deleted",
         NEW X, NEW b \in BearerRecord(X), bearers' = [bearers EXCEPT ![a] = b],
         Placed(a)', Stopped(a)'
  PROVE  LateInv'
<1>1. PICK Y : Shaped(Y)
  BY DEF LateInv
<1>2. Shaped(X \cup Y)'
  BY <1>1 DEF Shaped, GrantRecord, BearerRecord
<1>3. ASSUME NEW c \in Bearers PROVE Placed(c)' /\ Stopped(c)'
  <2>1. CASE c = a
    BY <2>1
  <2>2. CASE c # a
    <3>1. bearers'[c] = bearers[c]
      BY <1>1, <2>2 DEF Shaped
    <3> QED
      BY <1>1, <3>1 DEF LateInv, Placed, Stopped, Live
  <2> QED
    BY <2>1, <2>2
<1>4. \A g \in Grants : Inserted(g)'
  BY DEF LateInv, Inserted
<1> QED
  BY <1>2, <1>3, <1>4 DEF LateInv

\* A call that ends.
LEMMA EndingKeeps ==
  ASSUME LateInv, NEW a \in Bearers, UNCHANGED grants,
         boxes' \in [Boxes -> {"running", "stopped", "deleted"}],
         \A m \in Boxes : boxes[m] = "deleted" => boxes'[m] = "deleted",
         bearers' = [bearers EXCEPT ![a] = NoBearer]
  PROVE  LateInv'
<1>1. PICK X : Shaped(X)
  BY DEF LateInv
<1>2. NoBearer \in BearerRecord({"member"}) /\ NoBearer.at = None
  BY DEF NoBearer, BearerRecord
<1>3. bearers'[a] = NoBearer
  BY <1>1 DEF Shaped
<1>4. Placed(a)' /\ Stopped(a)'
  BY <1>2, <1>3 DEF Placed, Stopped
<1> QED
  BY <1>2, <1>4, CallKeeps

LEMMA ArrivalKeeps ==
  ASSUME LateInv, NEW a \in Bearers, NEW g \in Grants, NEW m \in Boxes,
         Arrive(a, g, m), UNCHANGED boxes, grants[g].kind # None,
         grants[g].kind = "ticket" => m = grants[g].box
  PROVE  LateInv'
<1>1. PICK X : Shaped(X)
  BY DEF LateInv
<1> DEFINE b == [NoBearer EXCEPT !.at = "in", !.grant = g, !.box = m,
                                 !.late = ~Live(g) \/ boxes[m] = "deleted"]
<1>2. b \in BearerRecord({"member"}) /\ b.at = "in" /\ b.grant = g /\ b.box = m
      /\ b.late = (~Live(g) \/ boxes[m] = "deleted")
  BY DEF NoBearer, BearerRecord, None
<1>3. bearers' = [bearers EXCEPT ![a] = b] /\ UNCHANGED grants
  BY DEF Arrive, BearerStep
<1> HIDE DEF b
<1>4. bearers'[a] = b
  BY <1>1, <1>3 DEF Shaped
<1>5. Placed(a)' /\ Stopped(a)'
  BY <1>2, <1>3, <1>4 DEF Placed, Stopped, Live
<1>6. boxes' \in [Boxes -> {"running", "stopped", "deleted"}]
  BY <1>1 DEF Shaped
<1> QED
  BY <1>2, <1>3, <1>5, <1>6, CallKeeps

\* A check of a call: what it refuses ends; what passes goes on as b, with its
\* grant live, or on a box that is not deleted, or past both checks before.
Goes(a, b) ==
  /\ \E X : b \in BearerRecord(X)
  /\ b.grant = bearers[a].grant /\ b.box = bearers[a].box /\ b.late = bearers[a].late
  /\ \/ b.at = "known" /\ Live(b.grant)
     \/ bearers[a].at = "known" /\ boxes[b.box] # "deleted"
     \/ bearers[a].at \in {"resolved", "served"}

LEMMA CheckKeeps ==
  ASSUME LateInv, NEW a \in Bearers, bearers[a].at # None, UNCHANGED grants,
         boxes' \in [Boxes -> {"running", "stopped", "deleted"}],
         \A m \in Boxes : boxes[m] = "deleted" => boxes'[m] = "deleted",
         NEW b, NEW ok, ok => Goes(a, b),
         bearers' = [bearers EXCEPT ![a] = IF ok THEN b ELSE NoBearer]
  PROVE  LateInv'
<1>1. PICK X : Shaped(X)
  BY DEF LateInv
<1>3. CASE ~ok
  BY <1>3, EndingKeeps
<1>4. CASE ok
  <2>1. PICK Y : b \in BearerRecord(Y)
    BY <1>4 DEF Goes
  <2>2. bearers' = [bearers EXCEPT ![a] = b]
    BY <1>4
  <2>3. bearers'[a] = b
    BY <1>1, <2>2 DEF Shaped
  <2>4. Placed(a)'
    BY <1>4, <2>3 DEF LateInv, Placed, Goes
  <2>5. Stopped(a)'
    <3>1. CASE ~bearers[a].late
      BY <1>4, <2>3, <3>1 DEF Stopped, Goes
    <3>2. CASE bearers[a].late
      <4>1. /\ bearers[a].at \in {"in", "known"} /\ bearers[a].box \in Boxes
            /\ ~Live(bearers[a].grant) \/ boxes[bearers[a].box] = "deleted"
            /\ bearers[a].at = "known" => boxes[bearers[a].box] = "deleted"
        BY <3>2 DEF LateInv, Placed, Stopped
      <4>2. b.at = "known" /\ boxes[b.box] = "deleted" /\ b.box \in Boxes
        BY <1>4, <4>1 DEF Goes
      <4> QED
        BY <2>3, <4>2 DEF Stopped
    <3> QED
      BY <3>1, <3>2
  <2> QED
    BY <2>1, <2>2, <2>4, <2>5, CallKeeps
<1> QED
  BY <1>3, <1>4

LEMMA LateInit == AccessInit => LateInv
<1> SUFFICES ASSUME AccessInit PROVE LateInv
  OBVIOUS
<1>1. Shaped({None, "member"})
  BY DEF AccessInit, Shaped, GrantRecord, BearerRecord, NoGrant, NoBearer
<1>2. \A g \in Grants : Inserted(g)
  BY DEF AccessInit, Inserted, NoGrant, None
<1>3. \A a \in Bearers : bearers[a].at = None
  BY DEF AccessInit, NoBearer
<1> QED
  BY <1>1, <1>2, <1>3 DEF LateInv, Placed, Stopped

LEMMA LateStep == LateInv /\ [AccessNext]_accessVars => LateInv'
<1> SUFFICES ASSUME LateInv, [AccessNext]_accessVars PROVE LateInv'
  OBVIOUS
<1>1. PICK X : Shaped(X)
  BY DEF LateInv
<1>2. boxes \in [Boxes -> {"running", "stopped", "deleted"}]
  BY <1>1 DEF Shaped
<1>3. CASE \/ AccountStep \/ FetchList \/ GiveUp \/ UNCHANGED accessVars
           \/ \E c \in Calls : MemberAllowed(c) \/ CallEnds(c) \/ TokenCounts(c)
                               \/ CreateToken(c)
  BY <1>3, ElsewhereKeeps DEF AccountStep, FetchList, GiveUp, MemberAllowed, CallEnds,
     TokenCounts, Counts, CreateToken, Click, grantVars, accessVars
<1>4. ASSUME NEW c \in Calls, TokenInserts(c) PROVE LateInv'
  <2>1. CASE UNCHANGED grants
    BY <1>4, <2>1, ElsewhereKeeps DEF TokenInserts
  <2>2. CASE \E g \in Grants, m \in Boxes \cup {All} :
               /\ grants[g].at = "absent"
               /\ grants' = [grants EXCEPT ![g] = Grant("token", calls[c].who, m)]
    BY <1>4, <2>2, InsertKeeps DEF TokenInserts
  <2> QED
    BY <1>4, <2>1, <2>2 DEF TokenInserts
<1>5. ASSUME NEW c \in Calls, MintTicket(c) PROVE LateInv'
  <2>1. PICK g \in Grants, m \in Boxes :
          /\ grants[g].at = "absent"
          /\ grants' = [grants EXCEPT ![g] = Grant("ticket", calls[c].who, m)]
    BY <1>5 DEF MintTicket
  <2> QED
    BY <1>5, <2>1, InsertKeeps DEF MintTicket
<1>6. ASSUME NEW c \in Calls, Revoke(c) PROVE LateInv'
  BY <1>6, EndKeeps DEF Revoke
<1>7. ASSUME NEW g \in Grants, Expire(g) PROVE LateInv'
  BY <1>7, EndKeeps DEF Expire
<1>8. ASSUME NEW m \in Boxes, BoxChanges(m) PROVE LateInv'
  BY <1>8, BoxesKeep
<1>9. ASSUME NEW a \in Bearers,
             \/ \E g \in Grants : ArriveTicket(a, g) \/ \E m \in Boxes : ArriveToken(a, g, m)
             \/ Authenticate(a) \/ VerifyTicket(a) \/ Resolve(a)
             \/ Enqueue(a) \/ SetPower(a) \/ Connect(a) \/ BearerEnds(a)
      PROVE  LateInv'
  <2>0. bearers[a] \in BearerRecord(X)
    BY <1>1 DEF Shaped
  <2>1. ASSUME NEW g \in Grants, ArriveTicket(a, g) PROVE LateInv'
    <3>1. grants[g].kind = "ticket" /\ grants[g].box \in Boxes
      BY <2>1 DEF LateInv, Inserted, ArriveTicket
    <3>2. Arrive(a, g, grants[g].box) /\ UNCHANGED boxes
      BY <2>1 DEF ArriveTicket, Arrive
    <3> QED
      BY <3>1, <3>2, ArrivalKeeps DEF None
  <2>2. ASSUME NEW g \in Grants, NEW m \in Boxes, ArriveToken(a, g, m) PROVE LateInv'
    <3>1. Arrive(a, g, m) /\ UNCHANGED boxes /\ grants[g].kind = "token"
      BY <2>2 DEF ArriveToken, Arrive
    <3> QED
      BY <3>1, ArrivalKeeps DEF None
  <2> DEFINE g == grants[bearers[a].grant]
             m == bearers[a].box
  <2>3. CASE Authenticate(a) \/ VerifyTicket(a)
    <3> DEFINE ok == Live(bearers[a].grant) /\ Approved(g.owner)
    <3>1. /\ bearers[a].at = "in" /\ UNCHANGED <<grants, boxes>>
          /\ bearers' = [bearers EXCEPT ![a] = IF ok THEN Known(a) ELSE NoBearer]
      BY <2>3 DEF Authenticate, VerifyTicket, Step, BearerStep
    <3>2. ok => Goes(a, Known(a))
      BY <2>0, ok => Live(bearers[a].grant) DEF Known, Goes, BearerRecord
    <3> HIDE DEF ok
    <3> QED
      BY <1>2, <3>1, <3>2, CheckKeeps DEF None
  <2>4. CASE Resolve(a)
    <3> DEFINE ok == Visible(g, m)
               b == [bearers[a] EXCEPT !.at = "resolved", !.saw = boxes[m]]
    <3>1. /\ bearers[a].at = "known" /\ UNCHANGED <<grants, boxes>>
          /\ bearers' = [bearers EXCEPT ![a] = IF ok THEN b ELSE NoBearer]
      BY <2>4 DEF Resolve, Step, BearerStep
    <3>2. m \in Boxes
      BY <3>1 DEF LateInv, Placed, None
    <3>3. ok => Goes(a, b)
      BY <1>2, <2>0, <3>1, <3>2 DEF Goes, BearerRecord, Visible
    <3> HIDE DEF ok, b
    <3> QED
      BY <1>2, <3>1, <3>3, CheckKeeps DEF None
  <2> DEFINE served == [bearers[a] EXCEPT !.at = "served"]
  <2>5. served \in BearerRecord(X) /\ served.grant = bearers[a].grant
        /\ served.box = bearers[a].box /\ served.late = bearers[a].late
    BY <2>0 DEF BearerRecord
  <2> HIDE DEF served
  <2>6. CASE Enqueue(a) \/ SetPower(a)
    <3> DEFINE ok == IF Enqueue(a) THEN bearers[a].saw = "running" ELSE boxes[m] # "deleted"
    <3>1. /\ bearers[a].at = "resolved" /\ UNCHANGED grants
          /\ bearers' = [bearers EXCEPT ![a] = IF ok THEN served ELSE NoBearer]
      BY <2>6 DEF Enqueue, SetPower, Step, BearerStep, served
    <3>2. /\ boxes' \in [Boxes -> {"running", "stopped", "deleted"}]
          /\ \A n \in Boxes : boxes[n] = "deleted" => boxes'[n] = "deleted"
      BY <1>2, <2>6 DEF Enqueue, SetPower
    <3>3. Goes(a, served)
      BY <2>5, <3>1 DEF Goes
    <3> HIDE DEF ok
    <3> QED
      BY <3>1, <3>2, <3>3, CheckKeeps DEF None
  <2>7. CASE Connect(a)
    <3> DEFINE ok == Viewable(g.owner, bearers[a].role = "operator", g.box)
    <3>1. /\ bearers[a].at = "known" /\ UNCHANGED <<grants, boxes>> /\ g.kind = "ticket"
          /\ bearers' = [bearers EXCEPT ![a] = IF ok THEN served ELSE NoBearer]
      BY <2>7 DEF Connect, Bears, Step, BearerStep, served
    <3>2. m = g.box
      BY <3>1 DEF LateInv, Placed, None
    <3>3. ok => Goes(a, served)
      BY <2>5, <3>1, <3>2, ok => boxes[g.box] = "running" DEF Goes, Viewable
    <3> HIDE DEF ok
    <3> QED
      BY <1>2, <3>1, <3>3, CheckKeeps DEF None
  <2>8. CASE BearerEnds(a)
    BY <2>8, <1>2, EndingKeeps DEF BearerEnds, Step, BearerStep
  <2> QED
    BY <1>9, <2>1, <2>2, <2>3, <2>4, <2>6, <2>7, <2>8
<1> QED
  BY <1>3, <1>4, <1>5, <1>6, <1>7, <1>8, <1>9 DEF AccessNext

\* A call that came in after its token was revoked, its ticket had lapsed or its
\* box was deleted is never served, whatever else happens to accounts, grants
\* and boxes while it is checked (authenticateAccessToken, resolveDesktopTicket).
THEOREM LateCallsAreRefused == AccessSpec => []LateIsRefused
<1>1. LateInv => LateIsRefused
  BY DEF LateInv, LateIsRefused, Stopped, None
<1> QED
  BY <1>1, LateInit, LateStep, PTL DEF AccessSpec

-----------------------------------------------------------------------------
(* The cap of the tokens *)

\* Who calls, about whom, is of some set X.
CallRecord(X) == [at : {None, "session", "allowed", "locked"}, kind : Kinds \cup {None},
                  who : X, arg : X, level : X]

\* A call that has counted the tokens of an account and may insert one more.
Inserting(c) == calls[c].at = "locked" /\ calls[c].kind = "token" /\ calls[c].who \in Emails

\* It holds the row of the account, so what it counted can only shrink.
Counted(c) == Inserting(c) => /\ rowLock[calls[c].who] = c
                              /\ Cardinality(TokensOf(calls[c].who)) <= counted[c]

CapInv == /\ \E X : calls \in [Calls -> CallRecord(X)]
          /\ rowLock \in [Emails -> Calls \cup {None}]
          /\ counted \in [Calls -> Nat]
          /\ \A c \in Calls : Counted(c)
          /\ TokenCapHolds

LEMMA TokensAreFinite ==
  \A e : IsFiniteSet(TokensOf(e)) /\ Cardinality(TokensOf(e)) \in Nat
<1>1. \A e : TokensOf(e) \subseteq Grants
  BY DEF TokensOf
<1> QED
  BY <1>1, FS_Subset, FS_CardinalityType, AccessAssumption

LEMMA FewerTokens ==
  ASSUME NEW e, TokensOf(e)' \subseteq TokensOf(e)
  PROVE  Cardinality(TokensOf(e)') \in Nat
         /\ Cardinality(TokensOf(e)') <= Cardinality(TokensOf(e))
BY TokensAreFinite, FS_Subset, FS_CardinalityType

\* A step that makes no token: whoever inserts after it did before, with the
\* same lock and the same count.
LEMMA CapKeeps ==
  ASSUME CapInv, \A e \in Emails : TokensOf(e)' \subseteq TokensOf(e),
         NEW X, calls' \in [Calls -> CallRecord(X)],
         rowLock' \in [Emails -> Calls \cup {None}], counted' \in [Calls -> Nat],
         \A c \in Calls : Inserting(c)' =>
            /\ Inserting(c) /\ calls'[c].who = calls[c].who /\ counted'[c] = counted[c]
            /\ rowLock[calls[c].who] = c => rowLock'[calls[c].who] = c
  PROVE  CapInv'
<1>1. ASSUME NEW c \in Calls PROVE Counted(c)'
  <2> SUFFICES ASSUME Inserting(c)' PROVE Counted(c)'
    BY DEF Counted
  <2> DEFINE e == calls[c].who
  <2>1. /\ e \in Emails /\ calls'[c].who = e /\ counted'[c] = counted[c]
        /\ rowLock'[e] = c /\ Cardinality(TokensOf(e)) <= counted[c]
    BY DEF CapInv, Counted, Inserting
  <2>2. Cardinality(TokensOf(e)') <= counted'[c]
    BY <2>1, FewerTokens, TokensAreFinite DEF CapInv
  <2> QED
    BY <2>1, <2>2 DEF Counted
<1>2. TokenCapHolds'
  BY FewerTokens, TokensAreFinite, AccessAssumption DEF CapInv, TokenCapHolds
<1> QED
  BY <1>1, <1>2 DEF CapInv

\* A step that leaves calls, locks, counts and grants alone.
LEMMA CapElsewhere ==
  ASSUME CapInv, UNCHANGED <<calls, rowLock, counted, grants>>
  PROVE  CapInv'
<1>1. \A e : TokensOf(e)' = TokensOf(e)
  BY DEF TokensOf, Live
<1>2. \A c \in Calls : Counted(c)'
  BY <1>1 DEF CapInv, Counted, Inserting
<1> QED
  BY <1>1, <1>2 DEF CapInv, TokenCapHolds

\* A call that moves on without a lock, or ends and lets go of what it holds.
LEMMA CapMoves ==
  ASSUME CapInv, NEW c \in Calls, NEW X, NEW d \in CallRecord(X),
         d.at = "locked" => d.kind # "token",
         calls' = [calls EXCEPT ![c] = d],
         rowLock' \in {rowLock, Unlocked(c)},
         counted' = counted \/ counted' = [counted EXCEPT ![c] = 0],
         \A e \in Emails : TokensOf(e)' \subseteq TokensOf(e)
  PROVE  CapInv'
<1>1. PICK Y : calls \in [Calls -> CallRecord(Y)]
  BY DEF CapInv
<1>2. calls' \in [Calls -> CallRecord(X \cup Y)]
  BY <1>1 DEF CallRecord
<1>3. rowLock' \in [Emails -> Calls \cup {None}] /\ counted' \in [Calls -> Nat]
  BY DEF CapInv, Unlocked
<1>4. ASSUME NEW b \in Calls, Inserting(b)'
      PROVE  /\ Inserting(b) /\ calls'[b].who = calls[b].who /\ counted'[b] = counted[b]
             /\ rowLock[calls[b].who] = b => rowLock'[calls[b].who] = b
  <2>1. b # c
    BY <1>1, <1>4 DEF Inserting
  <2>2. calls'[b] = calls[b] /\ counted'[b] = counted[b]
    BY <1>1, <2>1 DEF CapInv
  <2>3. Inserting(b)
    BY <1>4, <2>2 DEF Inserting
  <2>4. rowLock[calls[b].who] = b => rowLock'[calls[b].who] = b
    BY <2>1, <2>3 DEF Inserting, Unlocked
  <2> QED
    BY <2>2, <2>3, <2>4
<1> QED
  BY <1>2, <1>3, <1>4, CapKeeps

\* The row is locked, then the tokens are counted.
LEMMA CapCounts ==
  ASSUME CapInv, NEW c \in Calls, TokenCounts(c)
  PROVE  CapInv'
<1>1. PICK X : calls \in [Calls -> CallRecord(X)]
  BY DEF CapInv
<1> DEFINE e == calls[c].who
<1>2. /\ calls' = [calls EXCEPT ![c].at = "locked"] /\ rowLock' = [rowLock EXCEPT ![e] = c]
      /\ counted' = [counted EXCEPT ![c] = Cardinality(TokensOf(e))]
      /\ grants' = grants /\ calls[c].at = "allowed" /\ rowLock[e] = None
  BY DEF TokenCounts, Counts, Asks, Free
<1>3. calls' \in [Calls -> CallRecord(X)] /\ calls'[c].who = e
      /\ \A b \in Calls : b # c => calls'[b] = calls[b]
  BY <1>1, <1>2 DEF CallRecord
<1>4. \A f : TokensOf(f)' = TokensOf(f)
  BY <1>2 DEF TokensOf, Live
<1>5. rowLock' \in [Emails -> Calls \cup {None}]
  BY <1>2 DEF CapInv
<1>6. counted' \in [Calls -> Nat]
  BY <1>2, TokensAreFinite DEF CapInv
<1>7. ASSUME NEW b \in Calls, Inserting(b)'
      PROVE  rowLock'[calls'[b].who] = b
             /\ Cardinality(TokensOf(calls'[b].who)) <= counted'[b]
  <2>1. CASE b = c
    BY <1>2, <1>3, <1>7, <2>1, TokensAreFinite DEF CapInv, Inserting
  <2>2. CASE b # c
    <3>1. Inserting(b) /\ calls'[b] = calls[b]
      BY <1>3, <1>7, <2>2 DEF Inserting
    <3>2. rowLock[calls[b].who] = b /\ Cardinality(TokensOf(calls[b].who)) <= counted[b]
      BY <3>1 DEF CapInv, Counted
    <3>3. calls[b].who # e /\ counted'[b] = counted[b]
      BY <1>2, <2>2, <3>2, AccountsAssumption DEF CapInv
    <3> QED
      BY <1>2, <3>1, <3>2, <3>3 DEF CapInv, Inserting
  <2> QED
    BY <2>1, <2>2
<1>8. \A b \in Calls : Counted(b)'
  BY <1>4, <1>7 DEF Counted
<1> QED
  BY <1>3, <1>4, <1>5, <1>6, <1>8 DEF CapInv, TokenCapHolds

\* One token more, for an account that had fewer than allowed when they were
\* counted and has at most as many now.
LEMMA CapInserts ==
  ASSUME LateInv, CapInv, NEW c \in Calls, TokenInserts(c)
  PROVE  CapInv'
<1>1. PICK X : calls \in [Calls -> CallRecord(X)]
  BY DEF CapInv
<1>2. PICK Y : Shaped(Y)
  BY DEF LateInv
<1>0. PICK e : e = calls[c].who
  OBVIOUS
<1>3. /\ calls' = [calls EXCEPT ![c] = NoCall] /\ rowLock' = Unlocked(c)
      /\ counted' = [counted EXCEPT ![c] = 0]
      /\ calls[c].at = "locked" /\ calls[c].kind = "token" /\ calls[c].who = e
  BY <1>0 DEF TokenInserts
<1>4. NoCall \in CallRecord({None, "nontechnical"}) /\ NoCall.at # "locked"
  BY DEF NoCall, CallRecord, None
<1>5. CASE UNCHANGED grants
  <2>1. \A f : TokensOf(f)' = TokensOf(f)
    BY <1>5 DEF TokensOf, Live
  <2> QED
    BY <1>3, <1>4, <2>1, CapMoves
<1>6. CASE \E g \in Grants : \E m : counted[c] < TokenMax
                              /\ grants' = [grants EXCEPT ![g] = Grant("token", e, m)]
  <2>1. PICK g \in Grants : \E m : counted[c] < TokenMax
                              /\ grants' = [grants EXCEPT ![g] = Grant("token", e, m)]
    BY <1>6
  <2>2. \A f : f # e => TokensOf(f)' \subseteq TokensOf(f)
    BY <1>2, <2>1 DEF Shaped, TokensOf, Live, Grant
  <2>3. TokensOf(e)' \subseteq TokensOf(e) \cup {g}
    <3>1. \A h \in Grants \ {g} : grants'[h] = grants[h]
      BY <1>2, <2>1 DEF Shaped
    <3> QED
      BY <3>1 DEF TokensOf, Live
  <2>4. ASSUME e \in Emails PROVE Cardinality(TokensOf(e)') <= TokenMax
    <3>1. Cardinality(TokensOf(e)) <= counted[c] /\ counted[c] \in Nat
      BY <1>3, <2>4 DEF CapInv, Counted, Inserting
    <3>2. /\ IsFiniteSet(TokensOf(e) \cup {g})
          /\ Cardinality(TokensOf(e) \cup {g}) <= Cardinality(TokensOf(e)) + 1
      <4>1. IsFiniteSet(TokensOf(e)) /\ Cardinality(TokensOf(e)) \in Nat
        BY TokensAreFinite
      <4>2. Cardinality(TokensOf(e) \cup {g}) = IF g \in TokensOf(e)
                                                THEN Cardinality(TokensOf(e))
                                                ELSE Cardinality(TokensOf(e)) + 1
        BY <4>1, FS_AddElement
      <4>3. IsFiniteSet(TokensOf(e) \cup {g})
        BY <4>1, FS_AddElement
      <4> QED
        BY <4>1, <4>2, <4>3
    <3>3. PICK S : S = TokensOf(e)'
      OBVIOUS
    <3>4. S \in SUBSET (TokensOf(e) \cup {g})
      BY <2>3, <3>3
    <3>5. IsFiniteSet(S) /\ Cardinality(S) <= Cardinality(TokensOf(e) \cup {g})
      BY <3>2, <3>4, FS_Subset
    <3>6. Cardinality(S) \in Nat /\ Cardinality(TokensOf(e) \cup {g}) \in Nat
      BY <3>2, <3>5, FS_CardinalityType
    <3> QED
      BY <2>1, <3>1, <3>2, <3>3, <3>5, <3>6, TokensAreFinite, AccessAssumption
  <2>5. TokenCapHolds'
    <3>1. ASSUME NEW f \in Emails, f # e PROVE Cardinality(TokensOf(f)') <= TokenMax
      BY <2>2, <3>1, FewerTokens, TokensAreFinite, AccessAssumption DEF CapInv, TokenCapHolds
    <3> QED
      BY <2>4, <3>1 DEF TokenCapHolds
  <2>6. ASSUME NEW b \in Calls, Inserting(b)' PROVE Counted(b)'
    <3>1. b # c
      BY <1>1, <1>3, <1>4, <2>6 DEF Inserting
    <3>2. calls'[b] = calls[b] /\ Inserting(b) /\ counted'[b] = counted[b]
      BY <1>1, <1>3, <2>6, <3>1 DEF CapInv, Inserting
    <3>3. /\ rowLock[calls[b].who] = b /\ Cardinality(TokensOf(calls[b].who)) <= counted[b]
          /\ calls[b].who \in Emails /\ counted[b] \in Nat
      BY <3>2 DEF CapInv, Counted, Inserting
    <3>4. calls[b].who # e
      BY <1>3, <3>1, <3>3 DEF CapInv, Counted, Inserting
    <3>5. Cardinality(TokensOf(calls[b].who)') <= counted'[b]
      BY <2>2, <3>2, <3>3, <3>4, FewerTokens, TokensAreFinite
    <3>6. rowLock'[calls[b].who] = b
      BY <1>3, <3>1, <3>3 DEF Unlocked
    <3> QED
      BY <3>2, <3>5, <3>6 DEF Counted
  <2>7. calls' \in [Calls -> CallRecord(X \cup {None, "nontechnical"})]
    BY <1>1, <1>3, <1>4 DEF CallRecord
  <2>8. rowLock' \in [Emails -> Calls \cup {None}] /\ counted' \in [Calls -> Nat]
    BY <1>3 DEF CapInv, Unlocked
  <2> QED
    BY <2>5, <2>6, <2>7, <2>8 DEF CapInv, Counted
<1> QED
  BY <1>0, <1>5, <1>6 DEF TokenInserts

LEMMA CapInit == AccessInit => CapInv
<1> SUFFICES ASSUME AccessInit PROVE CapInv
  OBVIOUS
<1>1. calls \in [Calls -> CallRecord({None, "nontechnical"})]
  BY DEF AccessInit, AccountsInit, CallRecord, NoCall, None
<1>2. \A e : TokensOf(e) = {}
  BY DEF AccessInit, TokensOf, Live, NoGrant
<1>3. \A c \in Calls : Counted(c)
  BY DEF AccessInit, AccountsInit, Counted, Inserting, NoCall, None
<1>4. TokenCapHolds
  BY <1>2, FS_EmptySet, AccessAssumption DEF TokenCapHolds
<1> QED
  BY <1>1, <1>3, <1>4 DEF AccessInit, AccountsInit, CapInv

LEMMA CapStep == LateInv /\ CapInv /\ [AccessNext]_accessVars => CapInv'
<1> SUFFICES ASSUME LateInv, CapInv, [AccessNext]_accessVars PROVE CapInv'
  OBVIOUS
<1>1. PICK X : calls \in [Calls -> CallRecord(X)]
  BY DEF CapInv
<1>2. PICK Y : Shaped(Y)
  BY DEF LateInv
<1>3. NoCall \in CallRecord({None, "nontechnical"}) /\ NoCall.at # "locked"
  BY DEF NoCall, CallRecord, None
<1>4. UNCHANGED grants => \A e \in Emails : TokensOf(e)' \subseteq TokensOf(e)
  BY DEF TokensOf, Live
<1>5. CASE \/ LoginStep /\ UNCHANGED <<grantVars, pageVars>>
           \/ ContainerStep /\ UNCHANGED <<grantVars, pageVars>>
           \/ FetchList \/ GiveUp \/ UNCHANGED accessVars
           \/ \E m \in Boxes : BoxChanges(m)
  BY <1>5, CapElsewhere DEF LoginStep, StartLogin, Callback, LoginReads, LoginWrites,
     OpenSession, LoginFails, EndSession, ContainerStep, Boot, OldContainerStops,
     FetchList, GiveUp, BoxChanges, accountVars, grantVars, accessVars
<1>6. ASSUME NEW a \in Bearers,
             \/ \E g \in Grants : ArriveTicket(a, g) \/ \E m \in Boxes : ArriveToken(a, g, m)
             \/ Authenticate(a) \/ VerifyTicket(a) \/ Resolve(a)
             \/ Enqueue(a) \/ SetPower(a) \/ Connect(a) \/ BearerEnds(a)
      PROVE  CapInv'
  <2>1. BearerStep
    BY <1>6 DEF ArriveTicket, ArriveToken, Arrive, Authenticate, VerifyTicket, Resolve,
       Enqueue, SetPower, Connect, BearerEnds, Step
  <2> QED
    BY <2>1, CapElsewhere DEF BearerStep
<1>7. ASSUME NEW c \in Calls, NEW b, NEW kind \in Kinds, NEW arg, NEW level,
             Enter(c, b, kind, arg, level), UNCHANGED <<grants, counted>>
      PROVE  CapInv'
  <2> DEFINE d == [at |-> IF kind \in OwnerKinds \/ Operator(session[b]) THEN "allowed"
                          ELSE "session",
                   kind |-> kind, who |-> session[b], arg |-> arg, level |-> level]
  <2>1. d \in CallRecord({session[b], arg, level}) /\ d.at # "locked"
    BY DEF CallRecord
  <2>2. calls' = [calls EXCEPT ![c] = d] /\ rowLock' = rowLock
    BY <1>7 DEF Enter
  <2> HIDE DEF d
  <2> QED
    BY <1>4, <1>7, <2>1, <2>2, CapMoves
<1>8. ASSUME NEW c \in Calls, calls' = [calls EXCEPT ![c] = NoCall],
             rowLock' \in {rowLock, Unlocked(c)},
             counted' = counted \/ counted' = [counted EXCEPT ![c] = 0],
             \A e \in Emails : TokensOf(e)' \subseteq TokensOf(e)
      PROVE  CapInv'
  BY <1>3, <1>8, CapMoves
<1>9. ASSUME NEW c \in Calls, MemberAllowed(c) PROVE CapInv'
  <2>1. calls[c] \in CallRecord(X)
    BY <1>1
  <2> DEFINE d == [calls[c] EXCEPT !.at = "allowed"]
  <2>2. d \in CallRecord(X) /\ d.at # "locked"
    BY <2>1 DEF CallRecord
  <2>3. /\ UNCHANGED <<rowLock, grants, counted>>
        /\ \/ calls' = [calls EXCEPT ![c] = d]
           \/ calls' = [calls EXCEPT ![c] = NoCall]
    BY <1>9 DEF MemberAllowed, Allow, grantVars
  <2> HIDE DEF d
  <2> QED
    BY <1>4, <1>8, <2>2, <2>3, CapMoves
<1>10. ASSUME NEW c \in Calls, LockTarget(c), UNCHANGED grantVars PROVE CapInv'
  <2>1. CASE Reviewable(c)
    <3> DEFINE e == calls[c].arg
    <3>1. /\ calls' = [calls EXCEPT ![c].at = "locked"] /\ calls[c].kind \in Reviews
          /\ rowLock' = [rowLock EXCEPT ![e] = c] /\ rowLock[e] = None
          /\ UNCHANGED <<grants, counted>>
      BY <1>10, <2>1 DEF LockTarget, Free, grantVars
    <3>2. calls' \in [Calls -> CallRecord(X)] /\ calls'[c].kind = calls[c].kind
          /\ \A b \in Calls : b # c => calls'[b] = calls[b]
      BY <1>1, <3>1 DEF CallRecord
    <3>3. rowLock' \in [Emails -> Calls \cup {None}] /\ counted' \in [Calls -> Nat]
      BY <3>1 DEF CapInv
    <3>4. ASSUME NEW b \in Calls, Inserting(b)'
          PROVE  /\ Inserting(b) /\ calls'[b].who = calls[b].who /\ counted'[b] = counted[b]
                 /\ rowLock[calls[b].who] = b => rowLock'[calls[b].who] = b
      <4>1. b # c
        BY <3>1, <3>2, <3>4 DEF Inserting, Reviews
      <4>2. Inserting(b) /\ calls'[b] = calls[b]
        BY <3>2, <3>4, <4>1 DEF Inserting
      <4>3. rowLock[calls[b].who] = b => calls[b].who # e
        BY <3>1, AccountsAssumption
      <4> QED
        BY <3>1, <4>2, <4>3 DEF CapInv, Inserting
    <3> QED
      BY <1>4, <3>1, <3>2, <3>3, <3>4, CapKeeps
  <2>2. CASE ~Reviewable(c)
    BY <1>4, <1>8, <1>10, <2>2 DEF LockTarget, grantVars
  <2> QED
    BY <2>1, <2>2
<1>11. ASSUME NEW c \in Calls, Review(c) \/ Invite(c) \/ Uninvite(c), UNCHANGED grantVars
       PROVE  CapInv'
  BY <1>4, <1>8, <1>11 DEF Review, Invite, Uninvite, InviteEnds, grantVars
<1>12. ASSUME NEW c \in Calls, CallEnds(c) PROVE CapInv'
  BY <1>4, <1>8, <1>12 DEF CallEnds, CallFails
<1>13. ASSUME NEW g \in Grants, grants' = [grants EXCEPT ![g].at = "over"]
       PROVE  \A e \in Emails : TokensOf(e)' \subseteq TokensOf(e)
  BY <1>2, <1>13 DEF Shaped, GrantRecord, TokensOf, Live
<1>14. ASSUME NEW c \in Calls, Revoke(c) PROVE CapInv'
  BY <1>8, <1>13, <1>14 DEF Revoke
<1>15. ASSUME NEW g \in Grants, Expire(g) PROVE CapInv'
  <2>1. UNCHANGED <<calls, rowLock, counted>>
    BY <1>15 DEF Expire, accountVars
  <2>2. \A e \in Emails : TokensOf(e)' \subseteq TokensOf(e)
    BY <1>13, <1>15 DEF Expire
  <2>3. \A c \in Calls : Inserting(c)' => Inserting(c)
    BY <2>1 DEF Inserting
  <2> QED
    BY <1>1, <2>1, <2>2, <2>3, CapKeeps DEF CapInv
<1>16. ASSUME NEW c \in Calls, MintTicket(c) PROVE CapInv'
  <2>1. PICK g \in Grants, m \in Boxes :
          grants' = [grants EXCEPT ![g] = Grant("ticket", calls[c].who, m)]
    BY <1>16 DEF MintTicket
  <2>2. \A f \in Emails : TokensOf(f)' \subseteq TokensOf(f)
    BY <1>2, <2>1 DEF Shaped, TokensOf, Live, Grant
  <2> QED
    BY <1>8, <1>16, <2>2 DEF MintTicket
<1>17. ASSUME NEW c \in Calls, OperatorEnters(c) \/ \E b \in Browsers : AskRevoke(c, b) \/ AskTicket(c, b),
              UNCHANGED grantVars
       PROVE  CapInv'
  BY <1>7, <1>17 DEF OperatorEnters, AskRevoke, AskTicket, OperatorKinds, Reviews, Kinds, grantVars
<1>18. ASSUME NEW c \in Calls, CreateToken(c) PROVE CapInv'
  BY <1>7, <1>18 DEF CreateToken, Click, Kinds, grantVars
<1>19. CASE AccountStep
  BY <1>5, <1>10, <1>11, <1>17, <1>19 DEF AccountStep
<1> QED
  BY <1>5, <1>6, <1>9, <1>12, <1>14, <1>15, <1>16, <1>18, <1>19, CapCounts, CapInserts
     DEF AccessNext

\* No account has more live tokens than allowed, however creations of any number
\* of calls, revocations and expiries overlap, and whatever else takes the lock
\* of the account's row (createAccessToken).
THEOREM TokensStayCapped == AccessSpec => []TokenCapHolds
<1>1. CapInv => TokenCapHolds
  BY DEF CapInv
<1> QED
  BY <1>1, LateInit, LateStep, CapInit, CapStep, PTL DEF AccessSpec

-----------------------------------------------------------------------------
(* Accounts: what the tables, cookies and calls look like *)

CallAt == {None, "session", "allowed", "locked"}
LoginAt == {None, "provider", "profile", "read", "signed"}
LoginRecord == [at : LoginAt, browser : Browsers \cup {None}, who : Identities \cup {None},
                mail : Emails \cup {None}, listed : BOOLEAN, linked : Emails \cup {None},
                known : BOOLEAN, keeps : BOOLEAN, tier : Levels \cup {None}]
SessionCall == [at : CallAt, kind : Kinds \cup {None}, who : Emails \cup {None},
                arg : Emails \cup {None}, level : Levels]
Trace == [actor : Emails, action : Reviews, level : Levels]

AccountsType ==
  /\ users \in [Emails -> User]
  /\ audit \in [Emails -> Seq(Trace)]
  /\ invites \in [Emails -> [tier : Levels \cup {None}, used : BOOLEAN]]
  /\ rowLock \in [Emails -> Calls \cup {None}]
  /\ session \in [Browsers -> Emails \cup {None}]
  /\ logins \in [Logins -> LoginRecord]
  /\ calls \in [Calls -> SessionCall]

\* What a login has found out when it needs it.
LoginKnows(l) ==
  /\ logins[l].at # None => logins[l].browser \in Browsers /\ logins[l].who \in Identities
  /\ logins[l].at \in {"profile", "read", "signed"} => logins[l].mail \in Emails
  /\ logins[l].at = "read" => logins[l].tier \in Levels

CallKnows(c) ==
  /\ calls[c].at # None => calls[c].who \in Emails
  /\ calls[c].at # None /\ calls[c].kind \in OperatorKinds => calls[c].arg \in Emails

AccountsInv ==
  /\ AccountsType
  /\ \A l \in Logins : LoginKnows(l)
  /\ \A c \in Calls : CallKnows(c)

-----------------------------------------------------------------------------
(* Reviews *)

\* What is reviewed under the lock may still be reviewed.
UnderReview(c) ==
  calls[c].at = "locked" /\ calls[c].kind \in Reviews =>
    rowLock[calls[c].arg] = c /\ Reviewable(c)

\* The trace of an account, which has none before it is made.
Traced(e) ==
  /\ ~Exists(e) => audit[e] = << >>
  /\ users[e].reviewer = None <=> users[e].status \in {None, "pending"}
  /\ users[e].reviewer \in Emails =>
       \E n \in Decided(e) : /\ Decided(e) = {n}
                             /\ audit[e][n].actor = users[e].reviewer
                             /\ audit[e][n].action = Verdict(users[e].status)
  /\ users[e].reviewer \notin Emails => Decided(e) = {}
  /\ users[e].reviewer # "system" => \A n \in Classified(e) :
       (\A m \in Classified(e) : m <= n) =>
         users[e].level = audit[e][n].level /\ users[e].tier = audit[e][n].level

ReviewInv ==
  /\ AccountsInv
  /\ \A c \in Calls : UnderReview(c)
  /\ \A e \in Emails : Traced(e)

-----------------------------------------------------------------------------
(* The page of the tokens *)

\* A call that may make a token is waited for, or was given up by the user.
Awaited(c) ==
  calls[c].at # None /\ calls[c].kind = "token" => page.call = c \/ c \in unseen.calls

SecretInv ==
  /\ page \in [call : Calls \cup {None}, secret : SUBSET Grants, list : SUBSET Grants]
  /\ unseen \in [secrets : {{}}, calls : SUBSET Calls]
  /\ \A c \in Calls : Awaited(c)

-----------------------------------------------------------------------------
\* What the variables hold, for steps that need nothing else of the invariant.
LEMMA AccountsTyped ==
  ASSUME AccountsInv
  PROVE  /\ users \in [Emails -> User] /\ audit \in [Emails -> Seq(Trace)]
         /\ invites \in [Emails -> [tier : Levels \cup {None}, used : BOOLEAN]]
         /\ rowLock \in [Emails -> Calls \cup {None}]
         /\ session \in [Browsers -> Emails \cup {None}]
         /\ logins \in [Logins -> LoginRecord] /\ calls \in [Calls -> SessionCall]
BY DEF AccountsInv, AccountsType

\* A login that moves on to d, in a step that leaves calls and locks alone.
LEMMA LoginMoves ==
  ASSUME AccountsInv, NEW l \in Logins, NEW d \in LoginRecord,
         logins' = [logins EXCEPT ![l] = d], UNCHANGED <<audit, rowLock, calls>>,
         users' \in [Emails -> User], session' \in [Browsers -> Emails \cup {None}],
         invites' \in [Emails -> [tier : Levels \cup {None}, used : BOOLEAN]],
         d.at # None => d.browser \in Browsers /\ d.who \in Identities,
         d.at \in {"profile", "read", "signed"} => d.mail \in Emails,
         d.at = "read" => d.tier \in Levels
  PROVE  AccountsInv'
<1>1. AccountsType'
  BY DEF AccountsInv, AccountsType
<1>2. logins'[l] = d /\ \A k \in Logins \ {l} : logins'[k] = logins[k]
  BY DEF AccountsInv, AccountsType
<1>3. \A k \in Logins : LoginKnows(k)'
  BY <1>2 DEF AccountsInv, LoginKnows
<1>4. \A c \in Calls : CallKnows(c)'
  BY DEF AccountsInv, CallKnows
<1> QED
  BY <1>1, <1>3, <1>4 DEF AccountsInv

\* A call that moves on to d, in a step that leaves logins and sessions alone.
LEMMA CallMoves ==
  ASSUME AccountsInv, NEW c \in Calls, NEW d \in SessionCall,
         calls' = [calls EXCEPT ![c] = d], UNCHANGED <<logins, session>>,
         users' \in [Emails -> User], audit' \in [Emails -> Seq(Trace)],
         invites' \in [Emails -> [tier : Levels \cup {None}, used : BOOLEAN]],
         rowLock' \in [Emails -> Calls \cup {None}],
         d.at # None => d.who \in Emails,
         d.at # None /\ d.kind \in OperatorKinds => d.arg \in Emails
  PROVE  AccountsInv'
<1>1. AccountsType'
  BY DEF AccountsInv, AccountsType
<1>2. calls'[c] = d /\ \A b \in Calls \ {c} : calls'[b] = calls[b]
  BY DEF AccountsInv, AccountsType
<1>3. \A b \in Calls : CallKnows(b)'
  BY <1>2 DEF AccountsInv, CallKnows
<1>4. \A k \in Logins : LoginKnows(k)'
  BY DEF AccountsInv, LoginKnows
<1> QED
  BY <1>1, <1>3, <1>4 DEF AccountsInv

\* The values that stand for nothing have their types.
LEMMA Blanks ==
  /\ NoLogin \in LoginRecord /\ NoLogin.at = None
  /\ NoCall \in SessionCall /\ NoCall.at = None
  /\ Nobody \in User
BY DEF NoLogin, LoginRecord, LoginAt, NoCall, SessionCall, CallAt, Nobody, User, Levels, None

\* The types hold at first.
LEMMA AccountsStart == AccessInit => AccountsInv
<1> SUFFICES ASSUME AccessInit PROVE AccountsInv
  OBVIOUS
<1>1. users \in [Emails -> User]
  BY Blanks DEF AccessInit, AccountsInit, User, Levels
<1>2. << >> \in Seq(Trace)
  OBVIOUS
<1>3. AccountsType
  BY <1>1, <1>2, Blanks, AccountsAssumption DEF AccessInit, AccountsInit, AccountsType
<1>4. \A l \in Logins : LoginKnows(l)
  BY DEF AccessInit, AccountsInit, LoginKnows, NoLogin, None
<1>5. \A c \in Calls : CallKnows(c)
  BY DEF AccessInit, AccountsInit, CallKnows, NoCall, None
<1> QED
  BY <1>3, <1>4, <1>5 DEF AccountsInv

\* The steps of a login keep the types and what logins know.
LEMMA LoginTypes ==
  ASSUME AccountsInv, NEW l \in Logins,
         \/ \E b \in Browsers, i \in Identities : StartLogin(l, b, i)
         \/ Callback(l) \/ LoginReads(l) \/ LoginWrites(l) \/ OpenSession(l) \/ LoginFails(l)
  PROVE  AccountsInv'
<1>0. logins[l] \in LoginRecord
  BY DEF AccountsInv, AccountsType
<1>1. ASSUME NEW b \in Browsers, NEW i \in Identities, StartLogin(l, b, i) PROVE AccountsInv'
  <2> DEFINE d == [NoLogin EXCEPT !.at = "provider", !.browser = b, !.who = i]
  <2>1. d \in LoginRecord /\ d.at = "provider" /\ d.browser = b /\ d.who = i
    BY DEF NoLogin, LoginRecord, LoginAt, None
  <2>2. /\ logins' = [logins EXCEPT ![l] = d]
        /\ UNCHANGED <<users, audit, invites, rowLock, session, calls>>
    BY <1>1 DEF StartLogin
  <2> HIDE DEF d
  <2> QED
    BY <2>1, <2>2, LoginMoves, AccountsTyped
<1>2. CASE LoginFails(l)
  BY <1>2, Blanks, LoginMoves, AccountsTyped DEF LoginFails, None
<1>3. CASE Callback(l)
  <2>1. UNCHANGED <<users, audit, invites, rowLock, session, calls>> /\ logins[l].at = "provider"
    BY <1>3 DEF Callback
  <2>2. CASE logins' = [logins EXCEPT ![l] = NoLogin]
    BY <2>1, <2>2, Blanks, LoginMoves, AccountsTyped DEF None
  <2>3. ASSUME NEW e \in MailsOf[logins[l].who],
               logins' = [logins EXCEPT ![l].at = "profile", ![l].mail = e]
        PROVE  AccountsInv'
    <3> DEFINE d == [logins[l] EXCEPT !.at = "profile", !.mail = e]
    <3>1. logins[l].browser \in Browsers /\ logins[l].who \in Identities
      BY <2>1 DEF AccountsInv, LoginKnows, None
    <3>2. e \in Emails
      BY <3>1, AccountsAssumption
    <3>3. d \in LoginRecord /\ d.at = "profile" /\ d.mail = e
          /\ d.browser = logins[l].browser /\ d.who = logins[l].who
      BY <1>0, <3>2 DEF LoginRecord, LoginAt
    <3>4. logins' = [logins EXCEPT ![l] = d]
      BY <2>3 DEF AccountsInv, AccountsType
    <3> HIDE DEF d
    <3> QED
      BY <2>1, <3>1, <3>2, <3>3, <3>4, LoginMoves, AccountsTyped
  <2> QED
    BY <1>3, <2>2, <2>3 DEF Callback
<1>4. CASE LoginReads(l)
  <2> DEFINE e == logins[l].mail
  <2>1. PICK list \in {lists.new, lists.old}, linked \in Found(logins[l].who) :
          logins' = [logins EXCEPT ![l].at = "read", ![l].listed = (e \in list),
                        ![l].linked = linked, ![l].known = Exists(e),
                        ![l].keeps = linked # None /\ Operator(linked) = (e \in list),
                        ![l].tier = IF e \in list THEN "technical"
                                    ELSE IF Unspent(e) THEN invites[e].tier
                                    ELSE "nontechnical"]
    BY <1>4 DEF LoginReads
  <2>2. UNCHANGED <<users, audit, invites, rowLock, session, calls>> /\ logins[l].at = "profile"
    BY <1>4 DEF LoginReads
  <2>3. e \in Emails /\ logins[l].browser \in Browsers /\ logins[l].who \in Identities
    BY <2>2 DEF AccountsInv, LoginKnows, None
  <2>4. linked \in Emails \cup {None}
    BY DEF Found, LinkedTo
  <2>5. PICK tier \in Levels : tier = IF e \in list THEN "technical"
                                      ELSE IF Unspent(e) THEN invites[e].tier
                                      ELSE "nontechnical"
    BY <2>3 DEF AccountsInv, AccountsType, Unspent, Levels
  <2>6. (e \in list) \in BOOLEAN /\ Exists(e) \in BOOLEAN
        /\ (linked # None /\ Operator(linked) = (e \in list)) \in BOOLEAN
    BY DEF Exists
  <2>9. PICK listed \in BOOLEAN : listed = (e \in list)
    BY <2>6, Zenon
  <2>10. PICK known \in BOOLEAN : known = Exists(e)
    BY <2>6, Zenon
  <2>12. PICK keeps \in BOOLEAN : keeps = (linked # None /\ Operator(linked) = (e \in list))
    BY <2>6, Zenon
  <2> DEFINE d == [logins[l] EXCEPT !.at = "read", !.listed = listed, !.linked = linked,
                                    !.known = known, !.keeps = keeps, !.tier = tier]
  <2>11. d \in LoginRecord
    BY <1>0, <2>4 DEF LoginRecord, LoginAt
  <2>7. d \in LoginRecord /\ d.at = "read" /\ d.mail = e /\ d.tier = tier
        /\ d.browser = logins[l].browser /\ d.who = logins[l].who
    BY <1>0, <2>11 DEF LoginRecord
  <2>8. logins' = [logins EXCEPT ![l] = d]
    BY <2>1, <2>5, <2>9, <2>10, <2>12, AccountsTyped
  <2> HIDE DEF d
  <2> QED
    BY <2>2, <2>3, <2>7, <2>8, LoginMoves, AccountsTyped
<1>5. CASE LoginWrites(l)
  <2>1. UNCHANGED <<audit, rowLock, session, calls>> /\ logins[l].at = "read"
    BY <1>5 DEF LoginWrites
  <2>2. /\ logins[l].mail \in Emails /\ logins[l].browser \in Browsers
        /\ logins[l].who \in Identities /\ logins[l].tier \in Levels
        /\ logins[l].linked \in Emails \cup {None} /\ logins[l].listed \in BOOLEAN
    BY <1>0, <2>1 DEF AccountsInv, LoginKnows, LoginRecord, None
  <2>3. ASSUME NEW e \in Emails, users' \in [Emails -> User],
               invites' \in [Emails -> [tier : Levels \cup {None}, used : BOOLEAN]],
               \/ logins' = [logins EXCEPT ![l].at = "signed", ![l].mail = e]
               \/ logins' = [logins EXCEPT ![l].at = "signed"] /\ e = logins[l].mail
        PROVE  AccountsInv'
    <3> DEFINE d == [logins[l] EXCEPT !.at = "signed", !.mail = e]
    <3>1. d \in LoginRecord /\ d.at = "signed" /\ d.mail = e
          /\ d.browser = logins[l].browser /\ d.who = logins[l].who
      BY <1>0 DEF LoginRecord, LoginAt
    <3>2. logins' = [logins EXCEPT ![l] = d]
      BY <1>0, <2>3, AccountsTyped DEF LoginRecord
    <3> HIDE DEF d
    <3> QED
      BY <2>1, <2>2, <2>3, <3>1, <3>2, LoginMoves, AccountsTyped
  <2>4. ASSUME NEW e \in Emails, NEW u \in User, users' = [users EXCEPT ![e] = u]
        PROVE  users' \in [Emails -> User]
    BY <2>4, AccountsTyped
  <2>5. RoleOf(l) \in {"member", "operator"}
    BY DEF RoleOf
  <2>6. CASE Reconciles(l)
    <3> DEFINE e == logins[l].linked
               u == [users[e] EXCEPT !.role = RoleOf(l)]
    <3>1. e \in Emails /\ UNCHANGED invites
          /\ logins' = [logins EXCEPT ![l].at = "signed", ![l].mail = e]
      BY <2>2, <2>6 DEF Reconciles
    <3>0. users[e] \in User
      BY <3>1, AccountsTyped
    <3>2. u \in User
      BY <2>5, <3>0 DEF User
    <3>3. users' = users \/ users' = [users EXCEPT ![e] = u]
      BY <2>6 DEF Reconciles
    <3> HIDE DEF u
    <3>4. users' \in [Emails -> User]
      BY <2>4, <3>1, <3>2, <3>3, AccountsTyped
    <3> QED
      BY <2>3, <3>1, <3>4, AccountsTyped
  <2>7. CASE Links(l)
    <3> DEFINE e == logins[l].mail
               u == [users[e] EXCEPT !.link = logins[l].who, !.role = RoleOf(l)]
    <3>0. users[e] \in User
      BY <2>2, AccountsTyped
    <3>1. u \in User
      BY <2>2, <2>5, <3>0 DEF User
    <3>2. users' = [users EXCEPT ![e] = u]
      BY <2>2, <2>7, AccountsTyped DEF Links
    <3> HIDE DEF u
    <3>3. users' \in [Emails -> User]
      BY <2>2, <2>4, <3>1, <3>2
    <3>4. UNCHANGED invites /\ logins' = [logins EXCEPT ![l].at = "signed"]
      BY <2>7 DEF Links
    <3> QED
      BY <2>2, <2>3, <3>3, <3>4, AccountsTyped
  <2>8. CASE Joins(l)
    <3> DEFINE e == logins[l].mail
               u == [Nobody EXCEPT !.status = "pending", !.link = logins[l].who,
                                   !.role = RoleOf(l), !.tier = logins[l].tier]
    <3>1. u \in User
      BY <2>2, <2>5 DEF User, Nobody, Levels, None
    <3>2. users' = [users EXCEPT ![e] = u]
      BY <2>8 DEF Joins
    <3> HIDE DEF u
    <3>3. users' \in [Emails -> User]
      BY <2>2, <2>4, <3>1, <3>2
    <3>4. invites' \in [Emails -> [tier : Levels \cup {None}, used : BOOLEAN]]
      BY <2>2, <2>8, AccountsTyped DEF Joins
    <3>5. logins' = [logins EXCEPT ![l].at = "signed"]
      BY <2>8 DEF Joins
    <3> QED
      BY <2>2, <2>3, <3>3, <3>4, <3>5
  <2> QED
    BY <1>5, <2>6, <2>7, <2>8 DEF LoginWrites
<1>6. CASE OpenSession(l)
  <2>1. /\ logins[l].mail \in Emails
        /\ session' = [session EXCEPT ![logins[l].browser] = logins[l].mail]
        /\ logins' = [logins EXCEPT ![l] = NoLogin]
        /\ UNCHANGED <<users, audit, invites, rowLock, calls>>
    BY <1>6 DEF OpenSession, AccountsInv, LoginKnows
  <2>2. session' \in [Browsers -> Emails \cup {None}]
    BY <2>1 DEF AccountsInv, AccountsType
  <2> QED
    BY <2>1, <2>2, Blanks, LoginMoves, AccountsTyped DEF None
<1> QED
  BY <1>1, <1>2, <1>3, <1>4, <1>5, <1>6

\* So do sessions that end and containers that start and stop,
LEMMA SessionTypes ==
  ASSUME AccountsInv,
         \/ \E b \in Browsers : EndSession(b)
         \/ \E list \in Lists : Boot(list)
         \/ OldContainerStops
         \/ UNCHANGED <<users, audit, invites, rowLock, session, logins, calls>>
  PROVE  AccountsInv'
<1>1. users' \in [Emails -> User]
  <2>1. ASSUME NEW list \in Lists, Boot(list) PROVE users' \in [Emails -> User]
    <3>1. \A e \in Emails : users[e] \in User
      BY AccountsTyped
    <3>2. ASSUME NEW e \in Emails PROVE users'[e] \in User
      <4> DEFINE u == [users[e] EXCEPT !.status = "approved", !.role = "operator",
                                       !.level = "technical", !.reviewer = "system"]
      <4>1. u \in User
        BY <3>1 DEF User, Levels
      <4>2. users'[e] = u \/ users'[e] = users[e]
        BY <2>1 DEF Boot
      <4> HIDE DEF u
      <4> QED
        BY <3>1, <4>1, <4>2
    <3> QED
      BY <2>1, <3>2 DEF Boot
  <2> QED
    BY <2>1, AccountsTyped DEF EndSession, OldContainerStops
<1>2. session' \in [Browsers -> Emails \cup {None}]
  BY AccountsTyped DEF EndSession, OldContainerStops, Boot
<1>3. UNCHANGED <<audit, invites, rowLock, logins, calls>>
  BY DEF EndSession, OldContainerStops, Boot
<1>4. AccountsType'
  BY <1>1, <1>2, <1>3, AccountsTyped DEF AccountsType
<1> QED
  BY <1>3, <1>4 DEF AccountsInv, LoginKnows, CallKnows

\* Calls by the statements they share: one that begins, goes on or ends.
LEMMA CallTypes ==
  ASSUME AccountsInv, NEW c \in Calls, UNCHANGED <<logins, session>>,
         \/ \E b \in Browsers, kind \in Kinds, arg \in Emails \cup {None}, level \in Levels :
              Enter(c, b, kind, arg, level) /\ (kind \in OperatorKinds => arg \in Emails)
         \/ /\ calls[c].at # None
            /\ \E at \in CallAt : calls' = [calls EXCEPT ![c].at = at]
            /\ rowLock' = rowLock \/ \E e : rowLock' = [rowLock EXCEPT ![e] = c]
            /\ UNCHANGED <<users, audit, invites>>
         \/ /\ calls' = [calls EXCEPT ![c] = NoCall]
            /\ rowLock' = rowLock \/ rowLock' = Unlocked(c)
            /\ users' \in [Emails -> User] /\ audit' \in [Emails -> Seq(Trace)]
            /\ invites' \in [Emails -> [tier : Levels \cup {None}, used : BOOLEAN]]
  PROVE  AccountsInv'
<1>1. ASSUME NEW b \in Browsers, NEW kind \in Kinds, NEW arg \in Emails \cup {None},
             NEW level \in Levels, Enter(c, b, kind, arg, level),
             kind \in OperatorKinds => arg \in Emails
      PROVE  AccountsInv'
  <2>1. PICK at \in CallAt : calls' = [calls EXCEPT ![c] =
          [at |-> at, kind |-> kind, who |-> session[b], arg |-> arg, level |-> level]]
    BY <1>1 DEF Enter, CallAt
  <2> DEFINE d == [at |-> at, kind |-> kind, who |-> session[b], arg |-> arg, level |-> level]
  <2>2. session[b] \in Emails /\ UNCHANGED <<users, audit, invites, rowLock>>
    BY <1>1, AccountsTyped DEF Enter
  <2>3. d \in SessionCall /\ d.who = session[b] /\ d.kind = kind /\ d.arg = arg
    BY <2>2 DEF SessionCall
  <2>4. calls' = [calls EXCEPT ![c] = d]
    BY <2>1
  <2> HIDE DEF d
  <2> QED
    BY <1>1, <2>2, <2>3, <2>4, CallMoves, AccountsTyped
<1>2. ASSUME calls[c].at # None, NEW at \in CallAt, calls' = [calls EXCEPT ![c].at = at],
             rowLock' = rowLock \/ \E e : rowLock' = [rowLock EXCEPT ![e] = c],
             UNCHANGED <<users, audit, invites>>
      PROVE  AccountsInv'
  <2> DEFINE d == [calls[c] EXCEPT !.at = at]
  <2>1. calls[c] \in SessionCall
    BY AccountsTyped
  <2>2. d \in SessionCall /\ d.who = calls[c].who /\ d.kind = calls[c].kind
        /\ d.arg = calls[c].arg
    BY <2>1 DEF SessionCall
  <2>3. calls' = [calls EXCEPT ![c] = d] /\ rowLock' \in [Emails -> Calls \cup {None}]
    BY <1>2, AccountsTyped
  <2>4. calls[c].who \in Emails /\ (calls[c].kind \in OperatorKinds => calls[c].arg \in Emails)
    BY <1>2 DEF AccountsInv, CallKnows
  <2> HIDE DEF d
  <2> QED
    BY <1>2, <2>2, <2>3, <2>4, CallMoves, AccountsTyped
<1>3. ASSUME calls' = [calls EXCEPT ![c] = NoCall],
             rowLock' = rowLock \/ rowLock' = Unlocked(c),
             users' \in [Emails -> User], audit' \in [Emails -> Seq(Trace)],
             invites' \in [Emails -> [tier : Levels \cup {None}, used : BOOLEAN]]
      PROVE  AccountsInv'
  <2>1. rowLock' \in [Emails -> Calls \cup {None}]
    BY <1>3, AccountsTyped DEF Unlocked
  <2> QED
    BY <1>3, <2>1, Blanks, CallMoves, AccountsTyped
<1> QED
  BY <1>1, <1>2, <1>3

-----------------------------------------------------------------------------
\* An account whose row shows the same review, and whose trace is the same.
LEMMA TraceKept ==
  ASSUME NEW e \in Emails, Traced(e), audit'[e] = audit[e],
         users'[e].status = users[e].status, users'[e].reviewer = users[e].reviewer,
         users'[e].level = users[e].level, users'[e].tier = users[e].tier
  PROVE  Traced(e)'
<1>1. Decided(e)' = Decided(e) /\ Classified(e)' = Classified(e)
  BY DEF Decided, Classified
<1> QED
  BY <1>1 DEF Traced, Exists

\* A call that goes on reviewing, on a row it keeps.
LEMMA UnderReviewKept ==
  ASSUME ReviewInv, NEW b \in Calls, calls'[b] = calls[b],
         \A e \in Emails : rowLock[e] = b =>
           rowLock'[e] = b /\ users'[e].status = users[e].status
  PROVE  UnderReview(b)'
<1> SUFFICES ASSUME calls'[b].at = "locked", calls'[b].kind \in Reviews
             PROVE  rowLock'[calls'[b].arg] = b /\ Reviewable(b)'
  BY DEF UnderReview
<1>1. PICK e : e = calls[b].arg
  OBVIOUS
<1>2. e \in Emails
  BY <1>1 DEF ReviewInv, AccountsInv, CallKnows, OperatorKinds, None
<1>3. rowLock[e] = b /\ users[e].status \in From(calls[b].kind)
  BY <1>1 DEF ReviewInv, UnderReview, Reviewable
<1>4. rowLock'[e] = b /\ users'[e].status \in From(calls'[b].kind)
  BY <1>2, <1>3 DEF From
<1> QED
  BY <1>1, <1>4 DEF Reviewable

\* What is under review exists.
LEMMA ReviewedRowsExist ==
  ASSUME ReviewInv, NEW c \in Calls, calls[c].at = "locked", calls[c].kind \in Reviews
  PROVE  /\ calls[c].arg \in Emails /\ rowLock[calls[c].arg] = c /\ Exists(calls[c].arg)
         /\ users[calls[c].arg].status \in From(calls[c].kind)
<1>1. calls[c].arg \in Emails
  BY DEF ReviewInv, AccountsInv, CallKnows, OperatorKinds, None
<1>2. rowLock[calls[c].arg] = c /\ users[calls[c].arg].status \in From(calls[c].kind)
  BY DEF ReviewInv, UnderReview, Reviewable
<1> QED
  BY <1>1, <1>2 DEF Exists, From, None

\* The entry that a review appends.
LEMMA ReviewTraced ==
  ASSUME ReviewInv, NEW c \in Calls, Review(c), NEW e \in Emails, e = calls[c].arg
  PROVE  Traced(e)'
<1>1. /\ calls[c].at = "locked" /\ calls[c].kind \in Reviews
      /\ users[e].status \in From(calls[c].kind)
  BY ReviewedRowsExist DEF Review
<1>2. calls[c].who \in Emails /\ users[e] \in User /\ audit[e] \in Seq(Trace)
      /\ calls[c].level \in Levels
  <2>1. calls[c] \in SessionCall
    BY AccountsTyped DEF ReviewInv
  <2> QED
    BY <1>1, <2>1, AccountsTyped DEF ReviewInv, AccountsInv, CallKnows, SessionCall, None
<1>3. PICK k, w, v : k = calls[c].kind /\ w = calls[c].who /\ v = calls[c].level
  OBVIOUS
<1>4. PICK A, r : A = audit[e] /\ r = [actor |-> w, action |-> k, level |-> v]
  OBVIOUS
<1>5. PICK n0 : n0 = Len(A) + 1
  OBVIOUS
<1>6. r \in Trace /\ A \in Seq(Trace)
  BY <1>1, <1>2, <1>3, <1>4 DEF Trace
<1>7. PICK B : B = Append(A, r)
  OBVIOUS
<1>8. /\ DOMAIN A = 1 .. Len(A) /\ Len(A) \in Nat /\ DOMAIN B = DOMAIN A \cup {n0}
      /\ B[n0] = r /\ \A n \in DOMAIN A : B[n] = A[n] /\ n < n0
  <2>1. Len(A) \in Nat /\ DOMAIN A = 1 .. Len(A)
    BY <1>6, LenProperties
  <2>2. /\ Len(B) = Len(A) + 1 /\ DOMAIN B = 1 .. Len(B) /\ B[Len(A) + 1] = r
        /\ \A n \in 1 .. Len(A) : B[n] = A[n]
    BY <1>6, <1>7, AppendProperties, LenProperties
  <2> QED
    BY <1>5, <2>1, <2>2
<1>9. audit'[e] = B /\ users'[e] = Reviewed(users[e], calls[c])
  BY <1>3, <1>4, <1>7, AccountsTyped DEF Review, ReviewInv
<1>10. Decided(e)' = Decided(e) \cup (IF k \in Decisions THEN {n0} ELSE {})
  <2>1. Decided(e) = {n \in DOMAIN A : A[n].action \in Decisions}
    BY <1>4 DEF Decided
  <2>2. Decided(e)' = {n \in DOMAIN B : B[n].action \in Decisions}
    BY <1>9 DEF Decided
  <2>3. r.action = k
    BY <1>4
  <2> QED
    BY <1>8, <2>1, <2>2, <2>3
<1>11. Classified(e)' = Classified(e) \cup (IF k # "reject" THEN {n0} ELSE {})
  <2>1. Classified(e) = {n \in DOMAIN A : A[n].action # "reject"}
    BY <1>4 DEF Classified
  <2>2. Classified(e)' = {n \in DOMAIN B : B[n].action # "reject"}
    BY <1>9 DEF Classified
  <2>3. r.action = k
    BY <1>4
  <2> QED
    BY <1>8, <2>1, <2>2, <2>3
<1>12. Traced(e) /\ Decided(e) \subseteq DOMAIN A /\ Classified(e) \subseteq DOMAIN A
  BY <1>4 DEF ReviewInv, Decided, Classified
<1>13. Exists(e)'
  BY <1>1, <1>2, <1>9 DEF Exists, Reviewed, From, Reviews, User, None
<1>14. CASE k \in Decisions
  <2>1. users[e].status = "pending" /\ users[e].reviewer = None /\ Decided(e) = {}
    <3>1. users[e].status = "pending"
      BY <1>1, <1>3, <1>14 DEF From, Decisions
    <3> QED
      BY <1>12, <3>1, AccountsAssumption DEF Traced
  <2>2. /\ users'[e].reviewer = w /\ users'[e].status \in {"approved", "rejected"}
        /\ k = Verdict(users'[e].status)
    BY <1>2, <1>3, <1>9, <1>14 DEF Reviewed, Decisions, Verdict, User
  <2>3. Decided(e)' = {n0} /\ audit'[e][n0].actor = w /\ audit'[e][n0].action = k
    BY <1>4, <1>8, <1>9, <1>10, <1>14, <2>1
  <2>4. w \in Emails /\ w # None /\ w # "system"
    BY <1>2, <1>3, AccountsAssumption
  <2>5. ASSUME NEW n \in Classified(e)', \A m \in Classified(e)' : m <= n
        PROVE  users'[e].level = audit'[e][n].level /\ users'[e].tier = audit'[e][n].level
    <3>1. CASE k = "reject"
      <4>1. n \in Classified(e) /\ \A m \in Classified(e) : m <= n
        BY <1>11, <2>5, <3>1
      <4>2. users[e].level = A[n].level /\ users[e].tier = A[n].level
        BY <1>4, <1>12, <2>1, <4>1 DEF Traced, None
      <4>3. users'[e].level = users[e].level /\ users'[e].tier = users[e].tier
        BY <1>2, <1>3, <1>9, <3>1 DEF Reviewed, User
      <4> QED
        BY <1>8, <1>9, <1>12, <4>1, <4>2, <4>3
    <3>2. CASE k = "approve"
      <4>1. n0 \in Classified(e)' /\ n \in DOMAIN A \cup {n0}
        BY <1>11, <1>12, <2>5, <3>2
      <4>2. n = n0
        BY <1>5, <1>8, <2>5, <4>1
      <4>3. users'[e].level = v /\ users'[e].tier = v
        BY <1>2, <1>3, <1>9, <3>2 DEF Reviewed, User
      <4> QED
        BY <1>4, <1>8, <1>9, <4>2, <4>3
    <3> QED
      BY <1>14, <3>1, <3>2 DEF Decisions
  <2>6. /\ users'[e].reviewer # None /\ users'[e].status \notin {None, "pending"}
        /\ users'[e].reviewer \in Emails
    BY <2>2, <2>4 DEF None
  <2>7. \E n \in Decided(e)' : /\ Decided(e)' = {n}
                               /\ audit'[e][n].actor = users'[e].reviewer
                               /\ audit'[e][n].action = Verdict(users'[e].status)
    BY <2>2, <2>3
  <2> QED
    BY <1>13, <2>5, <2>6, <2>7 DEF Traced
<1>15. CASE k \notin Decisions
  <2>1. k = "classification"
    BY <1>1, <1>3, <1>15 DEF Reviews, Decisions
  <2>2. /\ users'[e].reviewer = users[e].reviewer /\ users'[e].status = users[e].status
        /\ users'[e].level = v /\ users'[e].tier = v
    BY <1>2, <1>3, <1>9, <2>1 DEF Reviewed, User
  <2>3. Decided(e)' = Decided(e)
    BY <1>10, <1>15
  <2>4. ASSUME NEW n \in Classified(e)', \A m \in Classified(e)' : m <= n
        PROVE  users'[e].level = audit'[e][n].level /\ users'[e].tier = audit'[e][n].level
    <3>1. n0 \in Classified(e)' /\ n \in DOMAIN A \cup {n0}
      BY <1>11, <1>12, <2>1, <2>4
    <3>2. n = n0
      BY <1>5, <1>8, <2>4, <3>1
    <3> QED
      BY <1>4, <1>8, <1>9, <2>2, <3>2
  <2>5. \A n \in Decided(e) : audit'[e][n] = audit[e][n]
    BY <1>4, <1>8, <1>9, <1>12
  <2> QED
    BY <1>12, <1>13, <2>2, <2>3, <2>4, <2>5 DEF Traced
<1> QED
  BY <1>14, <1>15

\* Founders have no trace at first, and nobody else a row.
LEMMA ReviewStart == AccessInit => ReviewInv
<1> SUFFICES ASSUME AccessInit PROVE ReviewInv
  OBVIOUS
<1>1. \A c \in Calls : UnderReview(c)
  BY DEF AccessInit, AccountsInit, UnderReview, NoCall, None
<1>2. ASSUME NEW e \in Emails PROVE Traced(e)
  <2>1. audit[e] = << >> /\ DOMAIN << >> = {}
    BY DEF AccessInit, AccountsInit
  <2>2. Decided(e) = {} /\ Classified(e) = {}
    BY <2>1 DEF Decided, Classified
  <2>3. \/ users[e].status = None /\ users[e].reviewer = None
        \/ users[e].status = "approved" /\ users[e].reviewer = "system"
    BY DEF AccessInit, AccountsInit, Nobody
  <2> QED
    BY <2>1, <2>2, <2>3, AccountsAssumption DEF Traced, None
<1> QED
  BY <1>1, <1>2, AccountsStart DEF ReviewInv

\* A step of call c that leaves the tables alone.
LEMMA ReviewOfCalls ==
  ASSUME ReviewInv, AccountsInv', NEW c \in Calls, UNCHANGED <<users, audit>>,
         \A b \in Calls \ {c} : calls'[b] = calls[b],
         \A b \in Calls \ {c}, e \in Emails : rowLock[e] = b => rowLock'[e] = b,
         calls'[c].at = "locked" /\ calls'[c].kind \in Reviews =>
           rowLock'[calls'[c].arg] = c /\ Reviewable(c)'
  PROVE  ReviewInv'
<1>1. \A e \in Emails : Traced(e)'
  BY TraceKept DEF ReviewInv
<1>2. \A b \in Calls \ {c} : UnderReview(b)'
  BY UnderReviewKept
<1>3. UnderReview(c)'
  BY DEF UnderReview
<1> QED
  BY <1>1, <1>2, <1>3 DEF ReviewInv

\* A step that leaves calls and locks alone.
LEMMA ReviewElsewhere ==
  ASSUME ReviewInv, AccountsInv', UNCHANGED <<calls, rowLock>>,
         \A e \in Emails : Traced(e)',
         \A e \in Emails : Exists(e) /\ ~Free(e) => users'[e].status = users[e].status
  PROVE  ReviewInv'
<1>1. ASSUME NEW b \in Calls PROVE UnderReview(b)'
  <2>1. CASE calls[b].at = "locked" /\ calls[b].kind \in Reviews
    <3>1. PICK e \in Emails : e = calls[b].arg /\ rowLock[e] = b /\ Exists(e)
      BY <2>1, ReviewedRowsExist
    <3>2. users'[e].status = users[e].status
      BY <3>1, AccountsAssumption DEF Free
    <3>3. users[e].status \in From(calls[b].kind)
      BY <2>1, <3>1, ReviewedRowsExist
    <3>4. calls'[b].arg = e /\ users'[e].status \in From(calls'[b].kind) /\ rowLock'[e] = b
      BY <3>1, <3>2, <3>3 DEF From
    <3> QED
      BY <3>4 DEF UnderReview, Reviewable
  <2>2. CASE ~(calls[b].at = "locked" /\ calls[b].kind \in Reviews)
    BY <2>2 DEF UnderReview
  <2> QED
    BY <2>1, <2>2
<1> QED
  BY <1>1 DEF ReviewInv

\* The row a login writes keeps its decision, or is new.
LEMMA ReviewOfLogins ==
  ASSUME ReviewInv, NEW l \in Logins,
         \/ \E b \in Browsers, i \in Identities : StartLogin(l, b, i)
         \/ Callback(l) \/ LoginReads(l) \/ LoginWrites(l) \/ OpenSession(l) \/ LoginFails(l)
  PROVE  ReviewInv'
<1>1. AccountsInv' /\ UNCHANGED <<calls, rowLock, audit>>
  <2>1. AccountsInv
    BY DEF ReviewInv
  <2>2. AccountsInv'
    BY <2>1, LoginTypes
  <2> QED
    BY <2>2 DEF StartLogin, Callback, LoginReads, LoginWrites, OpenSession, LoginFails
<1>2. users \in [Emails -> User] /\ logins[l] \in LoginRecord
  BY AccountsTyped DEF ReviewInv
<1>3. CASE UNCHANGED users
  BY <1>1, <1>3, TraceKept, ReviewElsewhere DEF ReviewInv
<1>4. CASE LoginWrites(l) /\ (Reconciles(l) \/ Links(l))
  <2>1. ASSUME NEW e \in Emails
        PROVE  /\ users'[e].status = users[e].status /\ users'[e].reviewer = users[e].reviewer
               /\ users'[e].level = users[e].level /\ users'[e].tier = users[e].tier
    <3>1. users[e] \in User
      BY <1>2
    <3>2. CASE Reconciles(l)
      BY <1>2, <3>1, <3>2 DEF Reconciles, User
    <3>3. CASE Links(l)
      <4>1. users' = [users EXCEPT ![logins[l].mail].link = logins[l].who,
                                   ![logins[l].mail].role = RoleOf(l)]
        BY <3>3 DEF Links
      <4> QED
        BY <1>2, <3>1, <4>1 DEF User
    <3> QED
      BY <1>4, <3>2, <3>3
  <2> QED
    BY <1>1, <2>1, TraceKept, ReviewElsewhere DEF ReviewInv
<1>5. CASE LoginWrites(l) /\ Joins(l)
  <2>1. PICK e \in Emails : e = logins[l].mail
    BY <1>5 DEF ReviewInv, AccountsInv, LoginKnows, LoginWrites
  <2>2. /\ ~Exists(e) /\ \A f \in Emails \ {e} : users'[f] = users[f]
        /\ users'[e].status = "pending" /\ users'[e].reviewer = None
    BY <1>2, <1>5, <2>1 DEF Joins, Nobody
  <2>3. Traced(e)'
    <3>1. audit'[e] = << >> /\ DOMAIN << >> = {}
      BY <1>1, <2>2 DEF ReviewInv, Traced
    <3>2. Decided(e)' = {} /\ Classified(e)' = {}
      BY <3>1 DEF Decided, Classified
    <3> QED
      BY <2>2, <3>1, <3>2, AccountsAssumption DEF Traced
  <2>4. \A f \in Emails \ {e} : Traced(f)'
    BY <1>1, <2>2, TraceKept DEF ReviewInv
  <2> QED
    BY <1>1, <2>2, <2>3, <2>4, ReviewElsewhere
<1> QED
  BY <1>3, <1>4, <1>5 DEF StartLogin, Callback, LoginReads, LoginWrites, OpenSession, LoginFails

\* A boot promotes pending rows that nobody has locked.
LEMMA ReviewOfBoot ==
  ASSUME ReviewInv, NEW list \in Lists, Boot(list)
  PROVE  ReviewInv'
<1>1. AccountsInv' /\ UNCHANGED <<calls, rowLock, audit>>
  <2>1. AccountsInv
    BY DEF ReviewInv
  <2>2. AccountsInv'
    BY <2>1, SessionTypes
  <2> QED
    BY <2>2 DEF Boot
<1>2. users \in [Emails -> User]
  BY AccountsTyped DEF ReviewInv
<1>3. ASSUME NEW e \in Emails
      PROVE  \/ users'[e] = users[e]
             \/ /\ users[e].status = "pending" /\ Free(e)
                /\ users'[e].status = "approved" /\ users'[e].reviewer = "system"
  BY <1>2, <1>3 DEF Boot, User
<1>4. ASSUME NEW e \in Emails PROVE Traced(e)'
  <2>1. CASE users'[e] = users[e]
    BY <1>1, <2>1, TraceKept DEF ReviewInv
  <2>2. CASE /\ users[e].status = "pending"
             /\ users'[e].status = "approved" /\ users'[e].reviewer = "system"
    <3>1. Decided(e) = {} /\ Decided(e)' = Decided(e)
      BY <1>1, <2>2, AccountsAssumption DEF ReviewInv, Traced, Decided
    <3> QED
      BY <2>2, <3>1, AccountsAssumption DEF Traced, Exists, None
  <2> QED
    BY <1>3, <2>1, <2>2
<1> QED
  BY <1>1, <1>3, <1>4, ReviewElsewhere

\* A call that comes in, goes on without a lock on a reviewed row, or ends.
LEMMA ReviewOfMoves ==
  ASSUME ReviewInv, AccountsInv', NEW c \in Calls, NEW d, UNCHANGED <<users, audit>>,
         calls' = [calls EXCEPT ![c] = d],
         \/ rowLock' = rowLock \/ rowLock' = Unlocked(c)
         \/ \E e \in Emails : Free(e) /\ rowLock' = [rowLock EXCEPT ![e] = c],
         ~(d.at = "locked" /\ d.kind \in Reviews)
  PROVE  ReviewInv'
<1>1. /\ calls \in [Calls -> SessionCall] /\ rowLock \in [Emails -> Calls \cup {None}]
  BY AccountsTyped DEF ReviewInv
<1>2. calls'[c] = d /\ \A b \in Calls \ {c} : calls'[b] = calls[b]
  BY <1>1
<1>3. ASSUME NEW b \in Calls \ {c}, NEW e \in Emails, rowLock[e] = b PROVE rowLock'[e] = b
  BY <1>1, <1>3, AccountsAssumption DEF Unlocked, Free
<1> QED
  BY <1>2, <1>3, ReviewOfCalls

\* The invariant of reviews, one action at a time.
LEMMA ReviewStep == ASSUME ReviewInv, [AccessNext]_accessVars PROVE ReviewInv'
<1>0. AccountsInv
  BY DEF ReviewInv
<1>1. ASSUME UNCHANGED <<users, audit, invites, rowLock, session, logins, calls>> PROVE ReviewInv'
  <2>1. AccountsInv'
    BY <1>0, <1>1, SessionTypes
  <2> QED
    BY <1>1, <2>1, TraceKept, ReviewElsewhere DEF ReviewInv
<1>2. CASE LoginStep
  <2>1. ASSUME NEW b \in Browsers, EndSession(b) PROVE ReviewInv'
    <3>1. AccountsInv'
      BY <1>0, <2>1, SessionTypes
    <3>2. UNCHANGED <<users, audit, rowLock, calls>>
      BY <2>1 DEF EndSession
    <3> QED
      BY <3>1, <3>2, TraceKept, ReviewElsewhere DEF ReviewInv
  <2> QED
    BY <1>2, <2>1, ReviewOfLogins DEF LoginStep
<1>3. CASE ContainerStep
  <2>1. CASE OldContainerStops
    BY <1>1, <2>1 DEF OldContainerStops
  <2> QED
    BY <1>3, <2>1, ReviewOfBoot DEF ContainerStep
<1>4. ASSUME NEW c \in Calls, NEW b \in Browsers, NEW kind \in Kinds,
             NEW arg \in Emails \cup {None}, NEW level \in Levels,
             Enter(c, b, kind, arg, level), kind \in OperatorKinds => arg \in Emails
      PROVE  ReviewInv'
  <2>1. UNCHANGED <<users, audit, invites, rowLock, logins, session>>
    BY <1>4 DEF Enter, loginVars
  <2>2. AccountsInv'
    BY <1>0, <1>4, <2>1, CallTypes
  <2>3. PICK at \in {"allowed", "session"} : calls' = [calls EXCEPT ![c] =
          [at |-> at, kind |-> kind, who |-> session[b], arg |-> arg, level |-> level]]
    BY <1>4 DEF Enter
  <2> DEFINE d == [at |-> at, kind |-> kind, who |-> session[b], arg |-> arg, level |-> level]
  <2>4. calls' = [calls EXCEPT ![c] = d] /\ d.at # "locked"
    BY <2>3
  <2> HIDE DEF d
  <2> QED
    BY <2>1, <2>2, <2>4, ReviewOfMoves
<1>5. ASSUME NEW c \in Calls,
             \/ OperatorEnters(c) \/ CreateToken(c)
             \/ \E b \in Browsers : AskRevoke(c, b) \/ AskTicket(c, b)
      PROVE  ReviewInv'
  <2>1. CASE OperatorEnters(c)
    <3>1. OperatorKinds \subseteq Kinds
      BY DEF OperatorKinds, Reviews, Kinds
    <3> QED
      BY <1>4, <2>1, <3>1 DEF OperatorEnters
  <2>2. {"token", "revoke", "ticket"} \subseteq Kinds \ OperatorKinds /\ "nontechnical" \in Levels
    BY DEF OperatorKinds, Reviews, Kinds, Levels
  <2>3. CASE CreateToken(c)
    BY <1>4, <2>2, <2>3, AccessAssumption DEF CreateToken, Click
  <2>4. ASSUME NEW b \in Browsers, AskRevoke(c, b) \/ AskTicket(c, b) PROVE ReviewInv'
    BY <1>4, <2>2, <2>4 DEF AskRevoke, AskTicket
  <2> QED
    BY <1>5, <2>1, <2>3, <2>4
<1>6. ASSUME NEW c \in Calls, calls' = [calls EXCEPT ![c] = NoCall],
             rowLock' = rowLock \/ rowLock' = Unlocked(c),
             UNCHANGED <<users, audit, logins, session>>,
             invites' \in [Emails -> [tier : Levels \cup {None}, used : BOOLEAN]]
      PROVE  ReviewInv'
  <2>1. AccountsInv'
    <3>1. users' \in [Emails -> User] /\ audit' \in [Emails -> Seq(Trace)]
      BY <1>0, <1>6, AccountsTyped
    <3> QED
      BY <1>0, <1>6, <3>1, CallTypes
  <2>2. NoCall.at # "locked"
    BY DEF NoCall, None
  <2> QED
    BY <1>6, <2>1, <2>2, ReviewOfMoves
<1>7. ASSUME NEW c \in Calls, NEW at \in CallAt, calls[c].at # None,
             calls' = [calls EXCEPT ![c].at = at],
             \/ rowLock' = rowLock
             \/ \E e \in Emails : Free(e) /\ rowLock' = [rowLock EXCEPT ![e] = c],
             UNCHANGED <<users, audit, invites, logins, session>>,
             at # "locked" \/ calls[c].kind \notin Reviews
      PROVE  ReviewInv'
  <2>1. AccountsInv'
    BY <1>0, <1>7, CallTypes
  <2>2. calls[c] \in SessionCall /\ calls \in [Calls -> SessionCall]
    BY <1>0, AccountsTyped
  <2> DEFINE d == [calls[c] EXCEPT !.at = at]
  <2>3. calls' = [calls EXCEPT ![c] = d] /\ d.at = at /\ d.kind = calls[c].kind
    BY <1>7, <2>2 DEF SessionCall
  <2> HIDE DEF d
  <2> QED
    BY <1>7, <2>1, <2>3, ReviewOfMoves
<1>8. ASSUME NEW c \in Calls, LockTarget(c), Reviewable(c) PROVE ReviewInv'
  <2>1. /\ calls' = [calls EXCEPT ![c].at = "locked"] /\ calls[c].at = "allowed"
        /\ calls[c].kind \in Reviews /\ Free(calls[c].arg)
        /\ rowLock' = [rowLock EXCEPT ![calls[c].arg] = c]
        /\ UNCHANGED <<users, audit, invites, logins, session>>
    BY <1>8 DEF LockTarget, loginVars
  <2>2. "locked" \in CallAt /\ "allowed" # None
    BY DEF CallAt, None
  <2>3. AccountsInv'
    BY <1>0, <2>1, <2>2, CallTypes
  <2>4. /\ calls \in [Calls -> SessionCall] /\ rowLock \in [Emails -> Calls \cup {None}]
        /\ calls[c] \in SessionCall
    BY <1>0, AccountsTyped
  <2>5. PICK e : e = calls[c].arg
    OBVIOUS
  <2>6. e \in Emails
    BY <2>1, <2>2, <2>5 DEF ReviewInv, AccountsInv, CallKnows, OperatorKinds
  <2>7. /\ calls'[c].arg = e /\ calls'[c].kind = calls[c].kind
        /\ \A b \in Calls \ {c} : calls'[b] = calls[b]
        /\ rowLock'[e] = c
    BY <2>1, <2>4, <2>5, <2>6 DEF SessionCall
  <2>8. users'[e].status \in From(calls'[c].kind)
    BY <1>8, <2>1, <2>5, <2>7 DEF Reviewable, From
  <2>9. ASSUME NEW b \in Calls \ {c}, NEW f \in Emails, rowLock[f] = b PROVE rowLock'[f] = b
    BY <2>1, <2>4, <2>5, <2>6, <2>9, AccountsAssumption DEF Free
  <2> QED
    BY <2>1, <2>3, <2>7, <2>8, <2>9, ReviewOfCalls DEF Reviewable
<1>9. ASSUME NEW c \in Calls, LockTarget(c), ~Reviewable(c) PROVE ReviewInv'
  BY <1>0, <1>6, <1>9, AccountsTyped DEF LockTarget, loginVars
<1>10. ASSUME NEW c \in Calls, Review(c) PROVE ReviewInv'
  <2>1. PICK e \in Emails : e = calls[c].arg /\ rowLock[e] = c
    BY <1>10, ReviewedRowsExist DEF Review
  <2>2. /\ users' = [users EXCEPT ![e] = Reviewed(users[e], calls[c])]
        /\ audit' = [audit EXCEPT ![e] = Append(audit[e],
             [actor |-> calls[c].who, action |-> calls[c].kind, level |-> calls[c].level])]
        /\ calls' = [calls EXCEPT ![c] = NoCall] /\ rowLock' = Unlocked(c)
        /\ UNCHANGED <<invites, logins, session>>
        /\ calls[c].at = "locked" /\ calls[c].kind \in Reviews
    BY <1>10, <2>1, <1>0, AccountsTyped DEF Review, loginVars
  <2>3. /\ users \in [Emails -> User] /\ audit \in [Emails -> Seq(Trace)]
        /\ calls \in [Calls -> SessionCall] /\ rowLock \in [Emails -> Calls \cup {None}]
        /\ invites \in [Emails -> [tier : Levels \cup {None}, used : BOOLEAN]]
    BY <1>0, AccountsTyped
  <2>4. calls[c].who \in Emails /\ calls[c].level \in Levels /\ users[e] \in User
    <3>1. calls[c] \in SessionCall
      BY <2>3
    <3> QED
      BY <1>0, <2>2, <2>3, <3>1 DEF AccountsInv, CallKnows, SessionCall, None
  <2>5. Reviewed(users[e], calls[c]) \in User
    BY <2>4 DEF Reviewed, User
  <2>6. [actor |-> calls[c].who, action |-> calls[c].kind, level |-> calls[c].level] \in Trace
    BY <2>2, <2>4 DEF Trace
  <2>7. users' \in [Emails -> User]
    BY <2>2, <2>3, <2>5
  <2>8. audit' \in [Emails -> Seq(Trace)]
    <3>1. PICK B : B = Append(audit[e],
             [actor |-> calls[c].who, action |-> calls[c].kind, level |-> calls[c].level])
      OBVIOUS
    <3>2. B \in Seq(Trace)
      BY <2>3, <2>6, <3>1, AppendProperties
    <3> QED
      BY <2>2, <2>3, <3>1, <3>2
  <2>9. AccountsInv'
    BY <1>0, <2>2, <2>3, <2>7, <2>8, CallTypes
  <2>10. Traced(e)'
    BY <1>10, <2>1, ReviewTraced
  <2>11. ASSUME NEW f \in Emails \ {e} PROVE Traced(f)' /\ users'[f].status = users[f].status
    BY <2>2, <2>3, TraceKept DEF ReviewInv
  <2>12. ASSUME NEW b \in Calls \ {c} PROVE UnderReview(b)'
    <3>1. calls'[b] = calls[b]
      BY <2>2, <2>3
    <3>2. ASSUME NEW f \in Emails, rowLock[f] = b
          PROVE  rowLock'[f] = b /\ users'[f].status = users[f].status
      BY <2>1, <2>2, <2>11, <3>2 DEF Unlocked
    <3> QED
      BY <3>1, <3>2, UnderReviewKept
  <2>13. UnderReview(c)'
    BY <2>2, <2>3 DEF UnderReview, NoCall, None
  <2> QED
    BY <2>9, <2>10, <2>11, <2>12, <2>13 DEF ReviewInv
<1>11. ASSUME NEW c \in Calls, Invite(c) \/ Uninvite(c) PROVE ReviewInv'
  <2>1. calls[c].arg \in Emails /\ calls[c].level \in Levels
    <3>1. calls[c] \in SessionCall
      BY <1>0, AccountsTyped
    <3> QED
      BY <1>0, <1>11, <3>1 DEF Invite, Uninvite, InviteEnds, AccountsInv, CallKnows,
         OperatorKinds, SessionCall, None
  <2>2. PICK row : InviteEnds(c, row) /\ row \in [tier : Levels \cup {None}, used : BOOLEAN]
    <3>1. invites[calls[c].arg] \in [tier : Levels \cup {None}, used : BOOLEAN]
      BY <1>0, <2>1, AccountsTyped
    <3>2. [tier |-> None, used |-> FALSE] \in [tier : Levels \cup {None}, used : BOOLEAN]
      OBVIOUS
    <3>3. [tier |-> calls[c].level, used |-> FALSE]
            \in [tier : Levels \cup {None}, used : BOOLEAN]
      BY <2>1
    <3>4. CASE Invite(c) /\ invites[calls[c].arg].tier # None
      <4>1. InviteEnds(c, invites[calls[c].arg])
        BY <3>4 DEF Invite
      <4> QED
        BY <3>1, <4>1
    <3>5. CASE Invite(c) /\ invites[calls[c].arg].tier = None
      <4>1. InviteEnds(c, [tier |-> calls[c].level, used |-> FALSE])
        BY <3>5 DEF Invite
      <4> QED
        BY <3>3, <4>1
    <3>6. CASE Uninvite(c)
      BY <3>2, <3>6 DEF Uninvite
    <3> QED
      BY <1>11, <3>4, <3>5, <3>6
  <2>3. invites' \in [Emails -> [tier : Levels \cup {None}, used : BOOLEAN]]
    BY <1>0, <2>1, <2>2, AccountsTyped DEF InviteEnds
  <2> QED
    BY <1>6, <2>2, <2>3 DEF InviteEnds, loginVars
<1>12. ASSUME NEW c \in Calls, MemberAllowed(c) PROVE ReviewInv'
  <2>1. /\ calls[c].at = "session" /\ UNCHANGED <<users, audit, invites, rowLock, logins, session>>
        /\ \/ calls' = [calls EXCEPT ![c].at = "allowed"]
           \/ calls' = [calls EXCEPT ![c] = NoCall]
    <3>1. calls \in [Calls -> SessionCall]
      BY <1>0, AccountsTyped
    <3> QED
      BY <1>12, <3>1 DEF MemberAllowed, Allow, loginVars
  <2>2. "allowed" \in CallAt /\ "session" # None
    BY DEF CallAt, None
  <2>3. invites \in [Emails -> [tier : Levels \cup {None}, used : BOOLEAN]]
    BY <1>0, AccountsTyped
  <2> QED
    BY <1>6, <1>7, <2>1, <2>2, <2>3
<1>13. ASSUME NEW c \in Calls, TokenCounts(c) PROVE ReviewInv'
  <2>1. /\ calls[c].at = "allowed" /\ calls[c].kind = "token" /\ Free(calls[c].who)
        /\ rowLock' = [rowLock EXCEPT ![calls[c].who] = c]
        /\ calls' = [calls EXCEPT ![c].at = "locked"]
        /\ UNCHANGED <<users, audit, invites, logins, session>>
    BY <1>13 DEF TokenCounts, Counts, Asks, loginVars
  <2>2. "locked" \in CallAt /\ "allowed" # None /\ "token" \notin Reviews
    BY DEF CallAt, None, Reviews
  <2>3. calls[c].who \in Emails
    BY <1>0, <2>1, <2>2 DEF AccountsInv, CallKnows
  <2> QED
    BY <1>7, <2>1, <2>2, <2>3
<1>14. ASSUME NEW c \in Calls,
              CallEnds(c) \/ TokenInserts(c) \/ Revoke(c) \/ MintTicket(c)
       PROVE  ReviewInv'
  <2>1. /\ calls' = [calls EXCEPT ![c] = NoCall]
        /\ rowLock' = rowLock \/ rowLock' = Unlocked(c)
        /\ UNCHANGED <<users, audit, invites, logins, session>>
    BY <1>14 DEF CallEnds, CallFails, TokenInserts, Revoke, MintTicket, loginVars
  <2>2. invites \in [Emails -> [tier : Levels \cup {None}, used : BOOLEAN]]
    BY <1>0, AccountsTyped
  <2> QED
    BY <1>6, <2>1, <2>2
<1>15. CASE \/ FetchList \/ GiveUp \/ UNCHANGED accessVars
            \/ \E g \in Grants : Expire(g)
            \/ \E m \in Boxes : BoxChanges(m)
  BY <1>1, <1>15 DEF FetchList, GiveUp, Expire, BoxChanges, accessVars, accountVars, loginVars
<1>16. ASSUME NEW a \in Bearers,
              \/ \E g \in Grants : ArriveTicket(a, g) \/ \E m \in Boxes : ArriveToken(a, g, m)
              \/ Authenticate(a) \/ VerifyTicket(a) \/ Resolve(a)
              \/ Enqueue(a) \/ SetPower(a) \/ Connect(a) \/ BearerEnds(a)
       PROVE  ReviewInv'
  <2>1. BearerStep
    BY <1>16 DEF ArriveTicket, ArriveToken, Arrive, Authenticate, VerifyTicket, Resolve,
       Enqueue, SetPower, Connect, BearerEnds, Step
  <2> QED
    BY <1>1, <2>1 DEF BearerStep, loginVars
<1>17. CASE AccountStep
  BY <1>2, <1>3, <1>5, <1>8, <1>9, <1>10, <1>11, <1>17 DEF AccountStep
<1> QED
  BY <1>5, <1>12, <1>13, <1>14, <1>15, <1>16, <1>17 DEF AccessNext

\* However reviews, logins, boots and failing calls overlap, the row of an
\* account shows the one decision its trace holds, by whom it says, and the
\* newest classification (moderateUser, reconcile of the login, boot).
THEOREM ReviewsLeaveATrace == AccessSpec => []ReviewsAreAudited
<1>1. ReviewInv => ReviewsAreAudited
  BY DEF ReviewInv, Traced, ReviewsAreAudited
<1> QED
  BY <1>1, ReviewStart, ReviewStep, PTL DEF AccessSpec

-----------------------------------------------------------------------------
\* The page and what nobody will see, after a step of call c that is answered.
LEMMA AnswerKeeps ==
  ASSUME SecretInv, NEW c \in Calls, NEW made \in SUBSET Grants, Answered(c, made),
         made = {} \/ (calls[c].at # None /\ calls[c].kind = "token"),
         calls'[c].at = None, \A b \in Calls \ {c} : calls'[b] = calls[b]
  PROVE  SecretInv'
<1>1. page.call = c \/ c \in unseen.calls \/ made = {}
  BY DEF SecretInv, Awaited
<1>2. page' \in [call : Calls \cup {None}, secret : SUBSET Grants, list : SUBSET Grants]
  BY DEF SecretInv, Answered
<1>3. /\ unseen' = [unseen EXCEPT !.secrets = {}, !.calls = unseen.calls \ {c}]
      /\ unseen' \in [secrets : {{}}, calls : SUBSET Calls]
      /\ unseen'.calls = unseen.calls \ {c}
  BY <1>1 DEF SecretInv, Answered
<1>4. \A b \in Calls \ {c} : page.call = b => page'.call = b
  BY DEF Answered
<1>5. \A b \in Calls : Awaited(b)'
  BY <1>3, <1>4 DEF SecretInv, Awaited
<1> QED
  BY <1>2, <1>3, <1>5 DEF SecretInv

\* A step that leaves the page alone and makes no call ask for a token.
LEMMA SecretElsewhere ==
  ASSUME SecretInv, UNCHANGED pageVars,
         \A b \in Calls : calls'[b].at # None /\ calls'[b].kind = "token" =>
           calls[b].at # None /\ calls[b].kind = "token"
  PROVE  SecretInv'
BY DEF SecretInv, Awaited, pageVars

\* No call is under way at first.
LEMMA SecretStart == AccessInit => SecretInv
<1>1. ASSUME AccessInit PROVE SecretInv
  <2>1. \A c \in Calls : calls[c].at = None
    BY <1>1 DEF AccessInit, AccountsInit, NoCall
  <2>2. page = [call |-> None, secret |-> {}, list |-> {}]
    BY <1>1 DEF AccessInit
  <2>3. unseen = [secrets |-> {}, calls |-> {}]
    BY <1>1 DEF AccessInit
  <2> QED
    BY <2>1, <2>2, <2>3 DEF SecretInv, Awaited
<1> QED
  BY <1>1

\* Calls for a token are waited for or given up, one action at a time.
LEMMA SecretStep ==
  ASSUME AccountsInv, SecretInv, [AccessNext]_accessVars
  PROVE  SecretInv'
<1>0. /\ calls \in [Calls -> SessionCall]
      /\ page \in [call : Calls \cup {None}, secret : SUBSET Grants, list : SUBSET Grants]
      /\ unseen \in [secrets : {{}}, calls : SUBSET Calls]
  BY AccountsTyped DEF SecretInv
\* A call that stays as it is, is over, or moves on.
<1>1. ASSUME NEW c \in Calls, UNCHANGED pageVars,
             \/ calls' = [calls EXCEPT ![c] = NoCall]
             \/ \E at : calls' = [calls EXCEPT ![c].at = at] /\ calls[c].at # None
      PROVE  SecretInv'
  <2>1. CASE calls' = [calls EXCEPT ![c] = NoCall]
    BY <1>0, <1>1, <2>1, SecretElsewhere DEF NoCall
  <2>2. ASSUME NEW at, calls' = [calls EXCEPT ![c].at = at], calls[c].at # None
        PROVE  SecretInv'
    <3>1. calls'[c].kind = calls[c].kind /\ \A b \in Calls \ {c} : calls'[b] = calls[b]
      BY <1>0, <2>2 DEF SessionCall
    <3> QED
      BY <1>1, <2>2, <3>1, SecretElsewhere
  <2> QED
    BY <1>1, <2>1, <2>2
<1>2. ASSUME UNCHANGED <<calls, pageVars>> PROVE SecretInv'
  BY <1>2, SecretElsewhere
<1>3. ASSUME NEW c \in Calls, NEW b, NEW kind, NEW arg, NEW level,
             Enter(c, b, kind, arg, level)
      PROVE  calls'[c].kind = kind /\ \A k \in Calls \ {c} : calls'[k] = calls[k]
  BY <1>0, <1>3 DEF Enter
\* Anything but a token is asked for elsewhere.
<1>4. ASSUME NEW c \in Calls, NEW b, NEW kind, NEW arg, NEW level,
             Enter(c, b, kind, arg, level), kind # "token", UNCHANGED pageVars
      PROVE  SecretInv'
  BY <1>3, <1>4, SecretElsewhere
<1>5. CASE AccountStep
  <2>1. CASE LoginStep \/ ContainerStep
    <3>1. UNCHANGED calls
      BY <2>1 DEF LoginStep, ContainerStep, StartLogin, Callback, LoginReads, LoginWrites,
         OpenSession, LoginFails, EndSession, Boot, OldContainerStops
    <3> QED
      BY <1>2, <1>5, <3>1 DEF AccountStep, pageVars
  <2>2. ASSUME NEW c \in Calls, OperatorEnters(c) PROVE SecretInv'
    <3>1. "token" \notin OperatorKinds
      BY DEF OperatorKinds, Reviews
    <3> QED
      BY <1>4, <1>5, <2>2, <3>1 DEF OperatorEnters, AccountStep
  <2>3. ASSUME NEW c \in Calls, NEW b \in Browsers, AskRevoke(c, b) \/ AskTicket(c, b)
        PROVE  SecretInv'
    BY <1>4, <1>5, <2>3 DEF AskRevoke, AskTicket, AccountStep
  <2>4. ASSUME NEW c \in Calls, LockTarget(c) \/ Review(c) \/ Invite(c) \/ Uninvite(c)
        PROVE  SecretInv'
    <3>1. \/ calls' = [calls EXCEPT ![c] = NoCall]
          \/ calls' = [calls EXCEPT ![c].at = "locked"] /\ calls[c].at # None
      BY <2>4 DEF LockTarget, Review, Invite, Uninvite, InviteEnds, None
    <3> QED
      BY <1>1, <1>5, <3>1 DEF AccountStep
  <2> QED
    BY <1>5, <2>1, <2>2, <2>3, <2>4 DEF AccountStep
<1>6. ASSUME NEW c \in Calls, calls[c].at # None,
             calls' = [calls EXCEPT ![c] = NoCall], NoSecret(c)
      PROVE  SecretInv'
  <2>1. calls'[c].at = None /\ \A b \in Calls \ {c} : calls'[b] = calls[b]
    BY <1>0, <1>6 DEF NoCall
  <2>2. PICK made \in SUBSET Grants : made = {} /\ Answered(c, made)
    BY <1>6, <2>1 DEF NoSecret
  <2> QED
    BY <2>1, <2>2, AnswerKeeps
<1>7. ASSUME NEW c \in Calls, MemberAllowed(c) PROVE SecretInv'
  <2>1. calls[c].at = "session" /\ "session" # None
    BY <1>7 DEF MemberAllowed, Allow, None
  <2>2. CASE Approved(calls[c].who)
    <3>1. calls' = [calls EXCEPT ![c] = [calls[c] EXCEPT !.at = "allowed"]]
      BY <1>0, <1>7, <2>2 DEF MemberAllowed, Allow
    <3>2. calls' = [calls EXCEPT ![c].at = "allowed"] /\ calls'[c].at = "allowed"
      BY <1>0, <3>1 DEF SessionCall
    <3>3. "allowed" # None
      BY DEF None
    <3>4. UNCHANGED pageVars
      BY <1>7, <3>2, <3>3 DEF MemberAllowed, NoSecret
    <3> QED
      BY <1>1, <2>1, <3>2, <3>4
  <2>3. CASE ~Approved(calls[c].who)
    <3>1. calls' = [calls EXCEPT ![c] = NoCall]
      BY <1>0, <1>7, <2>3 DEF MemberAllowed, Allow
    <3> QED
      BY <1>6, <1>7, <2>1, <3>1 DEF MemberAllowed
  <2> QED
    BY <2>2, <2>3
<1>8. ASSUME NEW c \in Calls, CallEnds(c) PROVE SecretInv'
  BY <1>6, <1>8 DEF CallEnds, CallFails
<1>9. ASSUME NEW c \in Calls, TokenInserts(c) PROVE SecretInv'
  <2>1. /\ calls[c].at = "locked" /\ calls[c].kind = "token"
        /\ calls' = [calls EXCEPT ![c] = NoCall]
    BY <1>9 DEF TokenInserts
  <2>2. calls'[c].at = None /\ \A b \in Calls \ {c} : calls'[b] = calls[b]
    BY <1>0, <2>1 DEF NoCall
  <2>3. PICK made \in SUBSET Grants : Answered(c, made)
    BY <1>9 DEF TokenInserts
  <2>4. calls[c].at # None
    BY <2>1 DEF None
  <2> QED
    BY <2>1, <2>2, <2>3, <2>4, AnswerKeeps
<1>10. ASSUME NEW c \in Calls, TokenCounts(c) \/ Revoke(c) \/ MintTicket(c) PROVE SecretInv'
  <2>1. UNCHANGED pageVars
    BY <1>10 DEF TokenCounts, Counts, Revoke, MintTicket
  <2>2. \/ calls' = [calls EXCEPT ![c] = NoCall]
        \/ calls' = [calls EXCEPT ![c].at = "locked"] /\ calls[c].at # None
    BY <1>10 DEF TokenCounts, Counts, Revoke, MintTicket, Asks, None
  <2> QED
    BY <1>1, <2>1, <2>2
\* The button waits for one call, so none is waited for when it is clicked.
<1>11. ASSUME NEW c \in Calls, CreateToken(c) PROVE SecretInv'
  <2>1. \A b \in Calls \ {c} : calls'[b] = calls[b]
    BY <1>3, <1>11 DEF CreateToken, Click
  <2>2. page.call = None /\ page' = [page EXCEPT !.call = c] /\ UNCHANGED unseen
    BY <1>11 DEF CreateToken, Click
  <2>3. /\ page' \in [call : Calls \cup {None}, secret : SUBSET Grants, list : SUBSET Grants]
        /\ page'.call = c
    BY <1>0, <2>2
  <2>4. \A b \in Calls : Awaited(b)'
    BY <2>1, <2>2, <2>3, AccountsAssumption DEF SecretInv, Awaited
  <2> QED
    BY <2>2, <2>3, <2>4 DEF SecretInv
<1>12. CASE GiveUp
  <2>1. /\ page' = [page EXCEPT !.call = None, !.secret = {}]
        /\ unseen' = [unseen EXCEPT !.calls = unseen.calls \cup ({page.call} \ {None})]
        /\ UNCHANGED calls
    BY <1>12 DEF GiveUp, accountVars
  <2>2. page' \in [call : Calls \cup {None}, secret : SUBSET Grants, list : SUBSET Grants]
    BY <1>0, <2>1
  <2>3. /\ unseen' \in [secrets : {{}}, calls : SUBSET Calls]
        /\ unseen'.calls = unseen.calls \cup ({page.call} \ {None})
    BY <1>0, <2>1
  <2>4. \A b \in Calls : Awaited(b)'
    BY <2>1, <2>3, AccountsAssumption DEF SecretInv, Awaited
  <2> QED
    BY <2>2, <2>3, <2>4 DEF SecretInv
<1>13. CASE FetchList
  <2>1. page' = [page EXCEPT !.list = TokensOf(session[Window])] /\ UNCHANGED <<calls, unseen>>
    BY <1>13 DEF FetchList, accountVars
  <2>2. TokensOf(session[Window]) \in SUBSET Grants
    BY DEF TokensOf
  <2>3. /\ page' \in [call : Calls \cup {None}, secret : SUBSET Grants, list : SUBSET Grants]
        /\ page'.call = page.call
    BY <1>0, <2>1, <2>2
  <2> QED
    BY <2>1, <2>3 DEF SecretInv, Awaited
<1>14. CASE \/ UNCHANGED accessVars
            \/ \E g \in Grants : Expire(g)
            \/ \E m \in Boxes : BoxChanges(m)
  BY <1>2, <1>14 DEF Expire, BoxChanges, accessVars, accountVars
<1>15. ASSUME NEW a \in Bearers,
              \/ \E g \in Grants : ArriveTicket(a, g) \/ \E m \in Boxes : ArriveToken(a, g, m)
              \/ Authenticate(a) \/ VerifyTicket(a) \/ Resolve(a)
              \/ Enqueue(a) \/ SetPower(a) \/ Connect(a) \/ BearerEnds(a)
       PROVE  SecretInv'
  <2>1. BearerStep
    BY <1>15 DEF ArriveTicket, ArriveToken, Arrive, Authenticate, VerifyTicket, Resolve,
       Enqueue, SetPower, Connect, BearerEnds, Step
  <2> QED
    BY <1>2, <2>1 DEF BearerStep
<1> QED
  BY <1>5, <1>7, <1>8, <1>9, <1>10, <1>11, <1>12, <1>13, <1>14, <1>15 DEF AccessNext

\* However clicks, answers, failures and leaving the page overlap, the secret of
\* a token that was made appears on the page that waits for it, unless its user
\* gave that call up (the page's mutation, "It is shown once").
THEOREM SecretsAlwaysShown == AccessSpec => []SecretsAreShown
<1>1. AccessInit => ReviewInv /\ SecretInv
  BY ReviewStart, SecretStart
<1>2. ReviewInv /\ SecretInv /\ [AccessNext]_accessVars => (ReviewInv /\ SecretInv)'
  <2>1. ASSUME ReviewInv, [AccessNext]_accessVars PROVE AccountsInv /\ ReviewInv'
    BY <2>1, ReviewStep DEF ReviewInv
  <2> QED
    BY <2>1, SecretStep
<1>3. SecretInv => SecretsAreShown
  BY DEF SecretInv, SecretsAreShown
<1> QED
  BY <1>1, <1>2, <1>3, PTL DEF AccessSpec
=============================================================================
