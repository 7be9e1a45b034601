-------------------------------- MODULE Access --------------------------------
(***************************************************************************)
(* What an account hands out: access tokens for agents and tickets for a   *)
(* desktop.  A call that bears one is checked statement by statement while *)
(* its owner, an operator or the clock takes away what it rests on.  The   *)
(* page of the tokens belongs here: it shows each secret once.             *)
(*                                                                         *)
(* The operations behind the last check are ExecQueue's; scopes are fixed  *)
(* per token and left out.                                                 *)
(***************************************************************************)
EXTENDS Accounts

CONSTANTS
  Grants,      \* rows of access_tokens and desktop tickets
  Boxes, OwnerOf,
  TokenMax,    \* ACCESS_TOKEN_MAX_ACTIVE
  Bearers,     \* calls that bear a grant
  Window       \* the browser that has the token page open

All == "all"  \* a token for all machines

ASSUME AccessAssumption ==
  /\ IsFiniteSet(Grants) /\ Window \in Browsers /\ TokenMax \in Nat
  /\ OwnerOf \in [Boxes -> Emails]
  /\ {None, All} \cap Boxes = {}

VARIABLES
  grants,    \* token or ticket, whose, for which box, and whether it is live
  boxes,     \* running, stopped or deleted
  counted,   \* live tokens a transaction has counted
  bearers,   \* calls under way
  page,      \* of the tokens: the call it waits for, the secret on it, its list
  unseen     \* secrets nobody will see; and calls given up by the user
grantVars == <<grants, boxes, counted, bearers>>
pageVars == <<page, unseen>>
accessVars == <<accountVars, grantVars, pageVars>>

NoGrant == [kind |-> None, owner |-> None, box |-> None, at |-> "absent"]
NoBearer == [at |-> None, grant |-> None, box |-> None, role |-> "member",
             saw |-> None, late |-> FALSE]

Live(g) == grants[g].at = "live"
TokensOf(e) == {g \in Grants : grants[g].kind = "token" /\ grants[g].owner = e /\ Live(g)}
Asks(c, kind) == calls[c].at = "allowed" /\ calls[c].kind = kind
Grant(kind, e, m) == [kind |-> kind, owner |-> e, box |-> m, at |-> "live"]

-----------------------------------------------------------------------------
(* What an account hands out *)

Counts(c) == /\ counted' = [counted EXCEPT ![c] = Cardinality(TokensOf(calls[c].who))]
             /\ calls' = [calls EXCEPT ![c].at = "locked"]
             /\ UNCHANGED <<users, audit, invites, loginVars, spent,
                            grants, boxes, bearers, pageVars>>

\* Seeded fault: the count is taken without the lock.
MutTokenCounts(c) == Asks(c, "token") /\ Counts(c) /\ UNCHANGED rowLock

\* createAccessToken locks the owner's row and counts what is live.
TokenCounts(c) == /\ Asks(c, "token") /\ Free(calls[c].who)
                  /\ rowLock' = [rowLock EXCEPT ![calls[c].who] = c]
                  /\ Counts(c)

Named(e, m) == IF m = All THEN TRUE ELSE OwnerOf[m] = e /\ boxes[m] # "deleted"

\* Callbacks are those of the last click: the page that waits for this call
\* shows the secret, and nobody sees it otherwise.
Answered(c, made) ==
  /\ page' = IF page.call = c THEN [page EXCEPT !.call = None,
                                                !.secret = IF made = {} THEN @ ELSE made]
                              ELSE page
  /\ unseen' = [unseen EXCEPT
                  !.secrets = IF page.call = c \/ c \in unseen.calls THEN @ ELSE @ \cup made,
                  !.calls = @ \ {c}]

TokenInserts(c) ==
  LET e == calls[c].who IN
  /\ calls[c].at = "locked" /\ calls[c].kind = "token"
  /\ \/ \E g \in Grants, m \in Boxes \cup {All} :
          /\ counted[c] < TokenMax /\ grants[g].at = "absent" /\ Named(e, m)
          /\ grants' = [grants EXCEPT ![g] = Grant("token", e, m)]
          /\ Answered(c, {g})
     \/ /\ counted[c] >= TokenMax \/ \E m \in Boxes : ~Named(e, m)
        /\ Answered(c, {}) /\ UNCHANGED grants
  /\ calls' = [calls EXCEPT ![c] = NoCall]
  /\ rowLock' = Unlocked(c)
  /\ counted' = [counted EXCEPT ![c] = 0]
  /\ UNCHANGED <<users, audit, invites, loginVars, spent, boxes, bearers>>

AskRevoke(c, b) == Enter(c, b, "revoke", None, "nontechnical")

Revoke(c) ==
  /\ Asks(c, "revoke")
  /\ \E g \in Grants :
       /\ grants[g].kind = "token" /\ grants[g].owner = calls[c].who
       /\ grants' = [grants EXCEPT ![g].at = "over"]
  /\ calls' = [calls EXCEPT ![c] = NoCall]
  /\ UNCHANGED <<users, audit, invites, rowLock, loginVars, spent,
                 boxes, counted, bearers, pageVars>>

\* The tickets of a desktop are signed and not stored; hours later they lapse.
Viewable(e, operator, m) == (OwnerOf[m] = e \/ operator) /\ boxes[m] = "running"

AskTicket(c, b) == Enter(c, b, "ticket", None, "nontechnical")

MintTicket(c) ==
  /\ Asks(c, "ticket")
  /\ \E g \in Grants, m \in Boxes :
       /\ grants[g].at = "absent" /\ Viewable(calls[c].who, Operator(calls[c].who), m)
       /\ grants' = [grants EXCEPT ![g] = Grant("ticket", calls[c].who, m)]
  /\ calls' = [calls EXCEPT ![c] = NoCall]
  /\ UNCHANGED <<users, audit, invites, rowLock, loginVars, spent,
                 boxes, counted, bearers, pageVars>>

Expire(g) == /\ Live(g) /\ grants' = [grants EXCEPT ![g].at = "over"]
             /\ UNCHANGED <<accountVars, boxes, counted, bearers, pageVars>>

\* The box is stopped, started, cancelled by transactions of their own.
BoxChanges(m) ==
  /\ boxes[m] # "deleted"
  /\ \E s \in {"running", "stopped", "deleted"} \ {boxes[m]} : boxes' = [boxes EXCEPT ![m] = s]
  /\ UNCHANGED <<accountVars, grants, counted, bearers, pageVars>>

-----------------------------------------------------------------------------
(* Calls that bear a grant *)

BearerStep == UNCHANGED <<users, audit, invites, rowLock, loginVars, calls,
                          grants, counted, pageVars>>

\* Late: what the call rests on was over before it came in.
Arrive(a, g, m) ==
  /\ bearers[a].at = None /\ Tick
  /\ bearers' = [bearers EXCEPT ![a] =
       [NoBearer EXCEPT !.at = "in", !.grant = g, !.box = m,
                        !.late = ~Live(g) \/ boxes[m] = "deleted"]]
  /\ BearerStep /\ UNCHANGED boxes

\* A token comes with the box it wants to reach; a ticket is for one box.
ArriveToken(a, g, m) == grants[g].kind = "token" /\ Arrive(a, g, m)
ArriveTicket(a, g) == grants[g].kind = "ticket" /\ Arrive(a, g, grants[g].box)

Step(a, ok, next) == /\ bearers' = [bearers EXCEPT ![a] = IF ok THEN next ELSE NoBearer]
                     /\ BearerStep /\ UNCHANGED spent

Bears(a, kind) == bearers[a].at # None /\ grants[bearers[a].grant].kind = kind
Known(a) == [bearers[a] EXCEPT !.at = "known", !.role = users[grants[bearers[a].grant].owner].role]

\* Seeded fault: only the secret is looked up.
MutAuthenticate(a) ==
  /\ bearers[a].at = "in" /\ Bears(a, "token") /\ UNCHANGED boxes
  /\ Step(a, Approved(grants[bearers[a].grant].owner), Known(a))

\* authenticateAccessToken: the token and its owner.
Authenticate(a) ==
  /\ bearers[a].at = "in" /\ Bears(a, "token") /\ UNCHANGED boxes
  /\ Step(a, Live(bearers[a].grant) /\ Approved(grants[bearers[a].grant].owner), Known(a))

\* resolveDesktopTicket: signature, expiry, and the owner as of now.
VerifyTicket(a) ==
  /\ bearers[a].at = "in" /\ Bears(a, "ticket") /\ UNCHANGED boxes
  /\ Step(a, Live(bearers[a].grant) /\ Approved(grants[bearers[a].grant].owner), Known(a))

\* A token reaches what its owner owns and it names.
Visible(g, m) == g.box \in {All, m} /\ OwnerOf[m] = g.owner /\ boxes[m] # "deleted"

Resolve(a) ==
  LET m == bearers[a].box IN
  /\ bearers[a].at = "known" /\ Bears(a, "token") /\ UNCHANGED boxes
  /\ Step(a, Visible(grants[bearers[a].grant], m),
          [bearers[a] EXCEPT !.at = "resolved", !.saw = boxes[m]])

\* Commands and files go to the queue if the box was running when resolved.
Enqueue(a) ==
  /\ bearers[a].at = "resolved" /\ UNCHANGED boxes
  /\ Step(a, bearers[a].saw = "running", [bearers[a] EXCEPT !.at = "served"])

\* stopInstance and startInstance look at the row again, under its lock.
SetPower(a) ==
  LET m == bearers[a].box IN
  /\ bearers[a].at = "resolved"
  /\ boxes' = [boxes EXCEPT ![m] = IF @ = "running" THEN "stopped"
                                    ELSE IF @ = "stopped" THEN "running" ELSE @]
  /\ Step(a, boxes[m] # "deleted", [bearers[a] EXCEPT !.at = "served"])

\* readDesktopSession with the role as verified; then the guest is connected.
Connect(a) ==
  LET g == grants[bearers[a].grant] IN
  /\ bearers[a].at = "known" /\ Bears(a, "ticket") /\ UNCHANGED boxes
  /\ Step(a, Viewable(g.owner, bearers[a].role = "operator", g.box),
          [bearers[a] EXCEPT !.at = "served"])

\* Over capacity, unreachable, a failing statement, or done.
BearerEnds(a) == bearers[a].at # None /\ UNCHANGED boxes /\ Step(a, FALSE, NoBearer)

-----------------------------------------------------------------------------
(* The page of the tokens *)

\* The list holds the tokens that were live when it was fetched.
FetchList ==
  /\ session[Window] # None
  /\ page' = [page EXCEPT !.list = TokensOf(session[Window])]
  /\ UNCHANGED <<accountVars, grantVars, unseen>>

Click(c) ==
  /\ Enter(c, Window, "token", None, "nontechnical")
  /\ Cardinality(page.list) < TokenMax
  /\ page' = [page EXCEPT !.call = c]
  /\ UNCHANGED <<grantVars, unseen>>

\* Seeded fault: the button stays enabled while a token is made.
MutCreateToken(c) == Click(c)

CreateToken(c) == page.call = None /\ Click(c)

\* "Done" resets the mutation, also one under way; leaving drops it.
GiveUp ==
  /\ page.call # None \/ page.secret # {}
  /\ page' = [page EXCEPT !.call = None, !.secret = {}]
  /\ unseen' = [unseen EXCEPT !.calls = @ \cup ({page.call} \ {None})]
  /\ UNCHANGED <<accountVars, grantVars>>

\* A call that is refused or fails has no secret.
NoSecret(c) == IF calls'[c].at = None THEN Answered(c, {}) ELSE UNCHANGED pageVars

MemberAllowed(c) == Allow(c) /\ NoSecret(c) /\ UNCHANGED grantVars

CallEnds(c) ==
  /\ CallFails(c) /\ NoSecret(c)
  /\ counted' = [counted EXCEPT ![c] = 0]
  /\ UNCHANGED <<grants, boxes, bearers>>

-----------------------------------------------------------------------------
AccessInit ==
  /\ AccountsInit
  /\ grants = [g \in Grants |-> NoGrant]
  /\ boxes = [m \in Boxes |-> "running"]
  /\ counted = [c \in Calls |-> 0]
  /\ bearers = [a \in Bearers |-> NoBearer]
  /\ page = [call |-> None, secret |-> {}, list |-> {}]
  /\ unseen = [secrets |-> {}, calls |-> {}]

\* The API's side of accounts and reviews.
AccountStep ==
  /\ \/ LoginStep \/ ContainerStep
     \/ \E c \in Calls : \/ OperatorEnters(c) \/ LockTarget(c) \/ Review(c)
                         \/ Invite(c) \/ Uninvite(c)
                         \/ \E b \in Browsers : AskRevoke(c, b) \/ AskTicket(c, b)
  /\ UNCHANGED <<grantVars, pageVars>>

AccessNext ==
  \/ AccountStep
  \/ \E c \in Calls : \/ MemberAllowed(c) \/ CallEnds(c)
                      \/ TokenCounts(c) \/ TokenInserts(c) \/ Revoke(c)
                      \/ MintTicket(c) \/ CreateToken(c)
  \/ \E g \in Grants : Expire(g)
  \/ \E m \in Boxes : BoxChanges(m)
  \/ \E a \in Bearers : \/ \E g \in Grants : ArriveTicket(a, g)
                                              \/ \E m \in Boxes : ArriveToken(a, g, m)
                        \/ Authenticate(a) \/ VerifyTicket(a) \/ Resolve(a)
                        \/ Enqueue(a) \/ SetPower(a) \/ Connect(a) \/ BearerEnds(a)
  \/ FetchList \/ GiveUp

AccessSpec == AccessInit /\ [][AccessNext]_accessVars

-----------------------------------------------------------------------------
(* Properties *)

\* However creations, revocations and expiries overlap, no account has more
\* live tokens than allowed (createAccessToken).
TokenCapHolds == \A e \in Emails : Cardinality(TokensOf(e)) <= TokenMax

\* A call that came in after its token was revoked or its ticket had lapsed, or
\* after its box was deleted, is never served ("Every bearer call re-checks").
LateIsRefused == \A a \in Bearers : bearers[a].at = "served" => ~bearers[a].late

\* The secret of a token comes on the page that asked for it, unless its user
\* left the page or pressed Done meanwhile ("It is shown once").
SecretsAreShown == unseen.secrets = {}
=============================================================================
