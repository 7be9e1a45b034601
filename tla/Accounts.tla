------------------------------- MODULE Accounts -------------------------------
(***************************************************************************)
(* Accounts of the panel: how a login at Google or GitHub finds, links or  *)
(* makes one, how operators invite and review, how the allowlist of a new  *)
(* container promotes, and what a call with a session cookie may do.       *)
(* Several containers run while one is replaced; calls overlap and locks   *)
(* on user rows order them.                                                *)
(*                                                                         *)
(* An account is its e-mail: users.email is unique and never rewritten.    *)
(***************************************************************************)
EXTENDS Naturals, Sequences, FiniteSets

CONSTANTS
  Emails, Identities,
  ProviderOf,   \* of an identity
  MailsOf,      \* verified addresses an identity may report
  Lists,        \* values OPERATOR_EMAILS takes
  LinkPage,     \* accounts of a provider a login looks at
  Founder,      \* an approved operator from the start
  Browsers, Logins, Calls,
  MaxEvents     \* bound: logins, calls and boots

None == "none"
Levels == {"technical", "nontechnical"}
Decisions == {"approve", "reject"}

ASSUME AccountsAssumption ==
  /\ IsFiniteSet(Emails) /\ Founder \in Emails
  /\ Lists \subseteq SUBSET Emails /\ LinkPage \in Nat \ {0}
  /\ MailsOf \in [Identities -> SUBSET Emails]
  /\ MaxEvents \in Nat
  /\ None \notin Emails \cup Identities \cup Logins \cup Calls
  /\ "system" \notin Emails

VARIABLES
  users,      \* the table, by e-mail
  audit,      \* moderation_actions, by target
  invites,    \* by e-mail
  rowLock,    \* who holds the row of a user
  lists,      \* allowlist of the newest container and of the one still beside it
  state,      \* the state cookie of a browser
  session,    \* the account its session cookie stands for
  logins,     \* logins under way
  calls,      \* calls under a session
  spent       \* events so far

loginVars == <<lists, state, session, logins>>
accountVars == <<users, audit, invites, rowLock, loginVars, calls, spent>>

User == [status   : {None, "pending", "approved", "rejected"},
         role     : {"member", "operator"}, tier : Levels, level : Levels \cup {None},
         link     : Identities \cup {None},
         reviewer : Emails \cup {None, "system"}]

Nobody == [status |-> None, role |-> "member", tier |-> "nontechnical", level |-> None,
           link |-> None, reviewer |-> None]

Kinds == {"approve", "reject", "classification", "invite", "uninvite", "token",
          "revoke", "ticket"}
NoCall == [at |-> None, kind |-> None, who |-> None, arg |-> None, level |-> "nontechnical"]
NoLogin == [at |-> None, browser |-> None, who |-> None, mail |-> None, listed |-> FALSE,
            linked |-> None, known |-> FALSE, keeps |-> FALSE, tier |-> None]

Exists(e) == users[e].status # None
Free(e)   == rowLock[e] = None
Tick == spent < MaxEvents /\ spent' = spent + 1

\* The gates of the routes (requireOperator, requireApprovedUser).
Operator(e) == users[e].role = "operator"
Approved(e) == Operator(e) \/ users[e].status = "approved"

-----------------------------------------------------------------------------
(* Signing in *)

\* /api/auth/:provider sets the one state cookie of the browser.
StartLogin(l, b, i) ==
  /\ logins[l].at = None /\ Tick
  /\ logins' = [logins EXCEPT ![l] = [NoLogin EXCEPT !.at = "provider", !.browser = b,
                                                     !.who = i]]
  /\ state' = [state EXCEPT ![b] = l]
  /\ UNCHANGED <<users, audit, invites, rowLock, lists, session, calls>>

\* The state must be the cookie's, which is cleared either way; then the
\* provider is asked who this is, and may fail or know no verified address.
Callback(l) ==
  LET b == logins[l].browser IN
  /\ logins[l].at = "provider"
  /\ state' = [state EXCEPT ![b] = None]
  /\ \/ /\ state[b] = l
        /\ \E e \in MailsOf[logins[l].who] :
             logins' = [logins EXCEPT ![l].at = "profile", ![l].mail = e]
     \/ logins' = [logins EXCEPT ![l] = NoLogin]
  /\ UNCHANGED <<users, audit, invites, rowLock, lists, session, calls, spent>>

\* Accounts linked to the identity, as far as the page of its provider shows.
LinkedTo(i) == {e \in Emails : users[e].link = i}
SameProvider(i) == {e \in Emails : users[e].link # None
                                   /\ ProviderOf[users[e].link] = ProviderOf[i]}
Found(i) == {e \in LinkedTo(i) \cup {None} :
               e = None => LinkedTo(i) = {} \/ Cardinality(SameProvider(i)) > LinkPage}

Unspent(e) == invites[e].tier # None /\ ~invites[e].used

\* The transaction reads without a lock; the container may be the old one.
LoginReads(l) ==
  LET i == logins[l].who  e == logins[l].mail IN
  /\ logins[l].at = "profile"
  /\ \E list \in {lists.new, lists.old}, linked \in Found(i) :
       logins' = [logins EXCEPT ![l].at = "read", ![l].listed = (e \in list),
                                ![l].linked = linked, ![l].known = Exists(e),
                                ![l].keeps = linked # None /\ Operator(linked) = (e \in list),
                                ![l].tier = IF e \in list THEN "technical"
                                            ELSE IF Unspent(e) THEN invites[e].tier
                                            ELSE "nontechnical"]
  /\ UNCHANGED <<users, audit, invites, rowLock, lists, state, session, calls, spent>>

RoleOf(l) == IF logins[l].listed THEN "operator" ELSE "member"

\* Every login reconciles the role with the allowlist.
Reconciles(l) ==
  LET e == logins[l].linked IN
  /\ e # None
  /\ IF logins[l].keeps THEN UNCHANGED users
     ELSE Free(e) /\ users' = [users EXCEPT ![e].role = RoleOf(l)]
  /\ logins' = [logins EXCEPT ![l].at = "signed", ![l].mail = e]
  /\ UNCHANGED invites

\* users_provider_unique: no other account has the link.
Links(l) ==
  LET e == logins[l].mail IN
  /\ logins[l].linked = None /\ logins[l].known /\ Free(e)
  /\ LinkedTo(logins[l].who) \subseteq {e}
  /\ users' = [users EXCEPT ![e].link = logins[l].who, ![e].role = RoleOf(l)]
  /\ logins' = [logins EXCEPT ![l].at = "signed"]
  /\ UNCHANGED invites

\* The invite is spent in the transaction that makes the account.
Joins(l) ==
  LET e == logins[l].mail IN
  /\ logins[l].linked = None /\ ~logins[l].known
  /\ ~Exists(e) /\ LinkedTo(logins[l].who) = {}
  /\ users' = [users EXCEPT ![e] =
                 [Nobody EXCEPT !.status = "pending", !.link = logins[l].who,
                                !.role = RoleOf(l), !.tier = logins[l].tier]]
  /\ invites' = [invites EXCEPT ![e].used = @ \/ (invites[e].tier # None /\ ~logins[l].listed)]
  /\ logins' = [logins EXCEPT ![l].at = "signed"]

LoginWrites(l) ==
  /\ logins[l].at = "read"
  /\ Reconciles(l) \/ Links(l) \/ Joins(l)
  /\ UNCHANGED <<audit, rowLock, lists, state, session, calls, spent>>

\* A statement of its own, after the transaction.
OpenSession(l) ==
  /\ logins[l].at = "signed"
  /\ session' = [session EXCEPT ![logins[l].browser] = logins[l].mail]
  /\ logins' = [logins EXCEPT ![l] = NoLogin]
  /\ UNCHANGED <<users, audit, invites, rowLock, lists, state, calls, spent>>

\* A lost constraint, a failing statement, a closed tab.
LoginFails(l) ==
  /\ logins[l].at # None /\ logins' = [logins EXCEPT ![l] = NoLogin]
  /\ UNCHANGED <<users, audit, invites, rowLock, lists, state, session, calls, spent>>

\* By the user, or the session has expired.
EndSession(b) ==
  /\ session[b] # None /\ session' = [session EXCEPT ![b] = None]
  /\ UNCHANGED <<users, audit, invites, rowLock, lists, state, logins, calls, spent>>

\* A new container promotes the pending accounts its allowlist names, and
\* serves beside the old one for a while.
Boot(list) ==
  LET named == {e \in list : users[e].status = "pending"} IN
  /\ lists.old = lists.new /\ Tick
  /\ \A e \in named : Free(e)
  /\ lists' = [lists EXCEPT !.new = list]
  /\ users' = [e \in Emails |->
       IF e \in named
         THEN [users[e] EXCEPT !.status = "approved", !.role = "operator",
                               !.level = "technical", !.reviewer = "system"]
         ELSE users[e]]
  /\ UNCHANGED <<audit, invites, rowLock, state, session, logins, calls>>

OldContainerStops ==
  /\ lists.old # lists.new /\ lists' = [lists EXCEPT !.old = lists.new]
  /\ UNCHANGED <<users, audit, invites, rowLock, state, session, logins, calls, spent>>

-----------------------------------------------------------------------------
(* Calls with a session cookie *)

Reviews == {"approve", "reject", "classification"}
OperatorKinds == Reviews \cup {"invite", "uninvite"}
OwnerKinds == {"revoke"}   \* the session is enough

\* resolveSession and the gate of the route: one statement for operators and
\* for what a session is enough for, a second one for the status of members.
Enter(c, b, kind, arg, level) ==
  LET e == session[b] IN
  /\ calls[c].at = None /\ e # None /\ Tick
  /\ kind \in OperatorKinds => Operator(e)
  /\ calls' = [calls EXCEPT ![c] =
       [at |-> IF kind \in OwnerKinds \/ Operator(e) THEN "allowed" ELSE "session",
        kind |-> kind, who |-> e, arg |-> arg, level |-> level]]
  /\ UNCHANGED <<users, audit, invites, rowLock, loginVars>>

Allow(c) ==
  /\ calls[c].at = "session"
  /\ calls' = [calls EXCEPT ![c] = IF Approved(calls[c].who) THEN [@ EXCEPT !.at = "allowed"]
                                   ELSE NoCall]
  /\ UNCHANGED <<users, audit, invites, rowLock, loginVars, spent>>

From(kind) == IF kind = "classification" THEN {"pending", "approved"} ELSE {"pending"}
Reviewable(c) == users[calls[c].arg].status \in From(calls[c].kind)

\* Seeded fault: the status is read without the lock.
MutLockTarget(c) ==
  /\ calls[c].at = "allowed" /\ calls[c].kind \in Reviews
  /\ calls' = [calls EXCEPT ![c] = IF Reviewable(c) THEN [@ EXCEPT !.at = "locked"] ELSE NoCall]
  /\ UNCHANGED <<users, audit, invites, rowLock, loginVars, spent>>

\* moderateUser checks the status under the row lock, and leaves if it is wrong.
LockTarget(c) ==
  /\ calls[c].at = "allowed" /\ calls[c].kind \in Reviews /\ Free(calls[c].arg)
  /\ IF Reviewable(c) THEN /\ rowLock' = [rowLock EXCEPT ![calls[c].arg] = c]
                           /\ calls' = [calls EXCEPT ![c].at = "locked"]
                      ELSE /\ calls' = [calls EXCEPT ![c] = NoCall] /\ UNCHANGED rowLock
  /\ UNCHANGED <<users, audit, invites, loginVars, spent>>

Unlocked(c) == [e \in Emails |-> IF rowLock[e] = c THEN None ELSE rowLock[e]]

Reviewed(u, c) ==
  CASE c.kind = "approve" -> [u EXCEPT !.status = "approved", !.level = c.level,
                                       !.tier = c.level, !.reviewer = c.who]
    [] c.kind = "reject"  -> [u EXCEPT !.status = "rejected", !.reviewer = c.who]
    [] OTHER              -> [u EXCEPT !.level = c.level, !.tier = c.level]

\* The row and its trace in the audit commit together.
Review(c) ==
  LET e == calls[c].arg IN
  /\ calls[c].at = "locked" /\ calls[c].kind \in Reviews
  /\ users' = [users EXCEPT ![e] = Reviewed(@, calls[c])]
  /\ audit' = [audit EXCEPT ![e] = Append(@, [actor |-> calls[c].who, action |-> calls[c].kind,
                                              level |-> calls[c].level])]
  /\ calls' = [calls EXCEPT ![c] = NoCall]
  /\ rowLock' = Unlocked(c)
  /\ UNCHANGED <<invites, loginVars, spent>>

\* One invite per address (POST and DELETE /api/invites).
InviteEnds(c, row) ==
  /\ calls[c].at = "allowed"
  /\ invites' = [invites EXCEPT ![calls[c].arg] = row]
  /\ calls' = [calls EXCEPT ![c] = NoCall]
  /\ UNCHANGED <<users, audit, rowLock, loginVars, spent>>

Invite(c) ==
  LET old == invites[calls[c].arg] IN
  /\ calls[c].kind = "invite"
  /\ InviteEnds(c, IF old.tier # None THEN old ELSE [tier |-> calls[c].level, used |-> FALSE])

Uninvite(c) == calls[c].kind = "uninvite" /\ InviteEnds(c, [tier |-> None, used |-> FALSE])

\* A failing statement or a container that stops: the transaction is undone.
CallFails(c) ==
  /\ calls[c].at # None /\ calls' = [calls EXCEPT ![c] = NoCall]
  /\ rowLock' = Unlocked(c)
  /\ UNCHANGED <<users, audit, invites, loginVars, spent>>

-----------------------------------------------------------------------------
AccountsInit ==
  /\ users = [e \in Emails |-> IF e # Founder THEN Nobody ELSE
                [status |-> "approved", role |-> "operator", tier |-> "technical",
                 level |-> "technical", link |-> None, reviewer |-> "system"]]
  /\ audit = [e \in Emails |-> <<>>]
  /\ invites = [e \in Emails |-> [tier |-> None, used |-> FALSE]]
  /\ rowLock = [e \in Emails |-> None]
  /\ \E list \in Lists : Founder \in list /\ lists = [new |-> list, old |-> list]
  /\ state = [b \in Browsers |-> None]
  /\ session \in [Browsers -> {None, Founder}]
  /\ logins = [l \in Logins |-> NoLogin]
  /\ calls = [c \in Calls |-> NoCall]
  /\ spent = 0

LoginStep ==
  \/ \E l \in Logins : \/ \E b \in Browsers, i \in Identities : StartLogin(l, b, i)
                       \/ Callback(l) \/ LoginReads(l) \/ LoginWrites(l)
                       \/ OpenSession(l) \/ LoginFails(l)
  \/ \E b \in Browsers : EndSession(b)

ContainerStep == OldContainerStops \/ \E list \in Lists : Boot(list)

OperatorEnters(c) ==
  \E b \in Browsers, kind \in OperatorKinds, e \in Emails, level \in Levels :
    /\ kind \in {"reject", "uninvite"} => level = "nontechnical"
    /\ Enter(c, b, kind, e, level)

-----------------------------------------------------------------------------
(* Properties *)

Decided(e) == {n \in DOMAIN audit[e] : audit[e][n].action \in Decisions}
Classified(e) == {n \in DOMAIN audit[e] : audit[e][n].action # "reject"}
Verdict(status) == IF status = "approved" THEN "approve" ELSE "reject"

\* Whoever races whom - two operators, a login, a booting container -, the
\* audit holds one decision per reviewed account, which is the one its row
\* shows, by the operator it shows; and the newest classification is the level
\* and the tier of the account (moderateUser).
ReviewsAreAudited == \A e \in Emails :
  /\ users[e].reviewer = None <=> users[e].status \in {None, "pending"}
  /\ users[e].reviewer \in Emails =>
       \E n \in Decided(e) : /\ Decided(e) = {n}
                             /\ audit[e][n].actor = users[e].reviewer
                             /\ audit[e][n].action = Verdict(users[e].status)
  /\ users[e].reviewer \notin Emails => Decided(e) = {}
  /\ users[e].reviewer # "system" => \A n \in Classified(e) :
       (\A m \in Classified(e) : m <= n) =>
         users[e].level = audit[e][n].level /\ users[e].tier = audit[e][n].level
=============================================================================
