------------------------------- MODULE Panel -------------------------------
(***************************************************************************)
(* What the pages of the panel show of one request and one conversation,   *)
(* and what their buttons do: the list with its delete dialog, the         *)
(* progress page with its countdown, the chat, and the operator's queue.   *)
(* They read through TanStack's cache (lib/query.ts): polls, refetches and *)
(* the answers of mutations meet there in any order, calls are answered    *)
(* late or lost, and pages come and go while they are under way.           *)
(*                                                                         *)
(* A reading of the server is its whole state with a number that grows     *)
(* with every change; every query keeps such a reading.  A fetch reads as  *)
(* soon as it is sent: one that is read later is like one sent later.  Two *)
(* calls of one kind at the same point are one.                            *)
(***************************************************************************)
EXTENDS Naturals, FiniteSets

CONSTANTS MaxMoves, \* bound: changes of the server
          MaxEvents \* bound: clicks, losses and changes from elsewhere together

ASSUME PanelAssumption == {MaxMoves, MaxEvents} \subseteq Nat

VARIABLES
  tour,      \* the pages this behaviour moves between
  server,    \* what the API would answer now
  cache,     \* the data of each query, Unread without any
  fetching,  \* what its fetch under way will answer, Unread without any
  stale,     \* isInvalidated
  broken,    \* its last fetch failed
  owed,      \* the newest change whose answer made an observed query refetch
  page,
  dialog,    \* the delete dialog is open
  leaving,   \* the countdown of the progress page
  started,   \* the chat on the page has started its first turn
  calls,     \* mutations under way, of this page or one that is gone
  events     \* clicks, fetches and calls lost, changes from elsewhere

fetchVars == <<cache, fetching, stale, broken, owed>>
pageVars  == <<page, dialog, leaving, started>>
panelVars == <<tour, server, fetchVars, pageVars, calls, events>>

Tours == {{"list", "progress"}, {"list", "chat"}, {"list", "approvals"}}
Queries == {"dashboard", "conversation", "approvals"}

\* An operator, who decides, has the badge of the queue on every page.
Observed(p) ==
  {q \in Queries : CASE q = "dashboard" -> p # "approvals"
                     [] q = "conversation" -> p = "chat"
                     [] OTHER -> "approvals" \in tour}

Readings == [n : 0 .. MaxMoves + 1,
             status : {"none", "pending_approval", "approved", "running",
                       "stopped", "rejected", "deleted"},
             setup : {"pending", "done", "failed"},
             talk : {"pending", "running", "idle"}]
Unread == [n |-> 0, status |-> "none", setup |-> "pending", talk |-> "idle"]

Turns == {"start", "turn"}
Kinds == Turns \cup {"create", "cancel", "power", "approve", "reject", "retry"}
PanelCalls == [kind : Kinds, here : BOOLEAN,
               at : {"sent", "works", "refused", "done"}, read : Readings]

PanelTypeOK ==
  /\ server \in Readings
  /\ cache \in [Queries -> Readings]
  /\ fetching \in [Queries -> Readings]
  /\ stale \in [Queries -> BOOLEAN] /\ broken \in [Queries -> BOOLEAN]
  /\ owed \in [Queries -> 0 .. MaxMoves + 1]
  /\ tour \in Tours /\ page \in tour
  /\ leaving \in {"no", "watching", "counting", "stayed"}
  /\ {dialog, started} \subseteq BOOLEAN
  /\ calls \subseteq PanelCalls
  /\ events \in 0 .. MaxEvents

-----------------------------------------------------------------------------
(* What is on the page *)

Request == cache["dashboard"]
Present(r) == r.status \notin {"none", "deleted"}
IsReady(r) == r.status = "running" /\ r.setup = "done"
NotTerminal(r) == \/ r.status \in {"pending_approval", "approved"}
                  \/ Present(r) /\ r.setup = "pending"

\* A page without data, or whose last fetch failed, shows that instead.
Main(p) == CASE p = "chat" -> "conversation"
             [] p = "approvals" -> "approvals"
             [] OTHER -> "dashboard"
Mounted(p, data, failed) ==
  /\ data[Main(p)] # Unread /\ ~failed[Main(p)]
  /\ p = "progress" => Present(data["dashboard"])

Call(kind) == [kind |-> kind, here |-> TRUE, at |-> "sent", read |-> Unread]
Detached(C) == {[c EXCEPT !.here = FALSE] : c \in C}

\* State of the components: gone when their content is, the countdown starts on
\* a box that becomes ready under it, and a chat that finds its conversation
\* pending sends the first turn, once per mount.
Render(p, was, rest) ==
  LET is == Mounted(p, cache', broken')
      kept == IF was THEN leaving ELSE "watching"
      starts == /\ p = "chat" /\ is /\ cache'["conversation"].talk = "pending"
                /\ ~(was /\ started)
  IN /\ page' = p
     /\ dialog' = (dialog /\ was /\ is)
     /\ leaving' = IF p # "progress" \/ ~is THEN "no"
                   ELSE IF kept = "watching" /\ IsReady(cache'["dashboard"])
                        THEN IF was THEN "counting" ELSE "no"
                   ELSE kept
     /\ started' = ((was /\ is /\ started) \/ starts)
     /\ calls' = (IF was /\ is THEN rest ELSE Detached(rest))
                 \cup (IF starts THEN {Call("start")} ELSE {})

Renders(rest) == Render(page, Mounted(page, cache, broken), rest)

-----------------------------------------------------------------------------
(* Queries *)

Happens == events < MaxEvents /\ events' = events + 1

\* cancelRefetch: a fetch under way is replaced, unless there is no data yet.
Refetched(Q, data) ==
  [q \in Queries |->
     IF q \in Q /\ (data[q] # Unread \/ fetching[q] = Unread)
     THEN server ELSE fetching[q]]

Poll(q) ==
  /\ q \in Observed(page) /\ fetching[q] = Unread
  /\ fetching' = [fetching EXCEPT ![q] = server]
  /\ UNCHANGED <<tour, server, cache, stale, broken, owed, pageVars, calls, events>>

\* The list refetches every three seconds while a row can still flip.
ListRefetches ==
  /\ page = "list" /\ Mounted(page, cache, broken) /\ NotTerminal(Request)
  /\ fetching' = Refetched({"dashboard"}, cache)
  /\ UNCHANGED <<tour, server, cache, stale, broken, owed, pageVars, calls, events>>

FetchLands(q) ==
  /\ fetching[q] # Unread
  /\ cache' = [cache EXCEPT ![q] = fetching[q]]
  /\ fetching' = [fetching EXCEPT ![q] = Unread]
  /\ stale' = [stale EXCEPT ![q] = FALSE]
  /\ broken' = [broken EXCEPT ![q] = FALSE]
  /\ Renders(calls)
  /\ UNCHANGED <<tour, server, owed, events>>

FetchFails(q) ==
  /\ fetching[q] # Unread
  /\ Happens
  /\ fetching' = [fetching EXCEPT ![q] = Unread]
  /\ broken' = [broken EXCEPT ![q] = TRUE]
  /\ stale' = [stale EXCEPT ![q] = TRUE]
  /\ UNCHANGED cache /\ Renders(calls)
  /\ UNCHANGED <<tour, server, owed>>

\* A page that opens fetches what it lacks or was invalidated, and what has
\* aged past staleTime.
Opened(p, aged) ==
  [q \in Queries |->
     IF /\ q \in Observed(p) /\ fetching[q] = Unread
        /\ cache[q] = Unread \/ stale[q] \/ q \in aged
     THEN server ELSE fetching[q]]

Opens(p) ==
  /\ \E aged \in SUBSET Observed(p) : fetching' = Opened(p, aged)
  /\ UNCHANGED <<tour, server, cache, stale, broken, owed>>
  /\ Render(p, FALSE, calls)

GoTo(p) == p # page /\ Opens(p) /\ UNCHANGED events

\* Signing in as somebody else drops what the caches hold (clearTenantData).
\* The persona comes back later; the entries of the other one are not modelled.
SwitchPersona ==
  /\ cache' = [q \in Queries |-> Unread]
  /\ fetching' = [q \in Queries |-> IF q \in Observed("list") THEN server ELSE Unread]
  /\ stale' = [q \in Queries |-> FALSE]
  /\ broken' = [q \in Queries |-> FALSE]
  /\ owed' = [q \in Queries |-> 0]
  /\ Render("list", FALSE, calls)
  /\ UNCHANGED <<tour, server, events>>

-----------------------------------------------------------------------------
(* Buttons *)

Busy(kinds) == \E c \in calls : c.here /\ c.kind \in kinds
Shows(p) == page = p /\ Mounted(p, cache, broken)

Click(kind) ==
  /\ Happens
  /\ calls' = calls \cup {Call(kind)}
  /\ UNCHANGED <<tour, server, fetchVars, pageVars>>

\* The list: one power call at a time, for all rows.
Power == /\ Shows("list") /\ ~dialog
         /\ Request.status \in {"running", "stopped"} /\ ~Busy({"power"})
         /\ Click("power")

OpenDialog == /\ Shows("list") /\ ~dialog /\ Present(Request)
              /\ dialog' = TRUE
              /\ UNCHANGED <<tour, server, fetchVars, page, leaving, started, calls, events>>

\* Escape, the backdrop and the buttons are dead while the call is under way.
CloseDialog == /\ dialog /\ ~Busy({"cancel"})
               /\ dialog' = FALSE
               /\ UNCHANGED <<tour, server, fetchVars, page, leaving, started, calls, events>>

ConfirmDelete == dialog /\ ~Busy({"cancel"}) /\ Click("cancel")

\* The progress page.
RetrySetup == /\ Shows("progress") /\ ~Busy({"retry"})
              /\ Request.status = "running" /\ Request.setup = "failed"
              /\ Click("retry")

StayHere == /\ leaving = "counting" /\ IsReady(Request)
            /\ leaving' = "stayed"
            /\ UNCHANGED <<tour, server, fetchVars, page, dialog, started, calls, events>>

CountdownEnds == leaving = "counting" /\ Opens("list") /\ UNCHANGED events

\* The chat: the card creates until the proposal is linked, and a message is
\* sent unless a turn is under way here or in the conversation shown.
ClickCreate == /\ Shows("chat") /\ ~Busy({"create"})
               /\ cache["conversation"].status = "none"
               /\ Click("create")

Send == /\ Shows("chat") /\ ~Busy(Turns)
        /\ cache["conversation"].talk # "running"
        /\ Click("turn")

\* Offered when the first turn failed.
TryAgain == /\ Shows("chat") /\ started /\ ~Busy(Turns)
            /\ cache["conversation"].talk = "pending"
            /\ Click("start")

\* The queue.
ClickDecide(d) == /\ Shows("approvals") /\ ~Busy({"approve", "reject"})
                  /\ cache["approvals"].status = "pending_approval"
                  /\ Click(d)

-----------------------------------------------------------------------------
(* The server: each call is one transaction, a turn is two *)

\* The server changes to s, and the call is answered with what it is then.
Changes(c, s) ==
  /\ server.n <= MaxMoves
  /\ server' = [s EXCEPT !.n = server.n + 1]
  /\ calls' = (calls \ {c}) \cup {[c EXCEPT !.at = "done", !.read = server']}

Keeps(c) ==
  /\ calls' = (calls \ {c}) \cup {[c EXCEPT !.at = "done", !.read = server]}
  /\ UNCHANGED server

Refuses(c) == /\ calls' = (calls \ {c}) \cup {[c EXCEPT !.at = "refused"]}
              /\ UNCHANGED server

\* A proposal that is linked answers with its request while there is one.
CreateServed(c) ==
  /\ c.kind = "create"
  /\ IF server.status = "none"
     THEN Changes(c, [server EXCEPT !.status = "pending_approval"])
     ELSE IF Present(server) THEN Keeps(c) ELSE Refuses(c)

CancelServed(c) ==
  /\ c.kind = "cancel"
  /\ IF Present(server) THEN Changes(c, [server EXCEPT !.status = "deleted"])
                        ELSE Refuses(c)

\* Only a job is queued.
PowerServed(c) ==
  /\ c.kind = "power"
  /\ IF server.status \in {"running", "stopped"} THEN Keeps(c) ELSE Refuses(c)

DecideServed(c) ==
  /\ c.kind \in {"approve", "reject"}
  /\ IF server.status = "pending_approval"
     THEN Changes(c, [server EXCEPT !.status =
                        IF c.kind = "approve" THEN "approved" ELSE "rejected"])
     ELSE Refuses(c)

RetryServed(c) ==
  /\ c.kind = "retry"
  /\ IF server.status = "running" /\ server.setup = "failed"
     THEN Changes(c, [server EXCEPT !.setup = "pending"])
     ELSE Refuses(c)

\* A turn is admitted, or refused for one of AgentChat's reasons; one without
\* text only starts a conversation that is pending.
TurnServed(c) ==
  /\ c.kind \in Turns
  /\ \/ /\ server.talk \in (IF c.kind = "start" THEN {"pending"} ELSE {"pending", "idle"})
        /\ server.n <= MaxMoves
        /\ server' = [server EXCEPT !.talk = "running", !.n = server.n + 1]
        /\ calls' = (calls \ {c}) \cup {[c EXCEPT !.at = "works"]}
     \/ Refuses(c)

Serves(c) ==
  /\ c.at = "sent"
  /\ \/ CreateServed(c) \/ CancelServed(c) \/ PowerServed(c)
     \/ DecideServed(c) \/ RetryServed(c) \/ TurnServed(c)
  /\ UNCHANGED <<tour, fetchVars, pageVars, events>>

TurnEnds(c) ==
  /\ c.at = "works" /\ Changes(c, [server EXCEPT !.talk = "idle"])
  /\ UNCHANGED <<tour, fetchVars, pageVars, events>>

\* What the worker, another operator or another tab changes.
Steps(s) ==
  {[s EXCEPT !.status = t] : t \in
     CASE s.status = "pending_approval" -> {"approved", "rejected"}
       [] s.status = "approved" -> {"running"}
       [] s.status = "running" -> {"stopped"}
       [] s.status = "stopped" -> {"running", "deleted"}
       [] OTHER -> {}}
  \cup {[s EXCEPT !.setup = t] : t \in
     IF s.status = "running" /\ s.setup = "pending" THEN {"done", "failed"} ELSE {}}
  \cup {[s EXCEPT !.talk = "idle"] : t \in {s.talk} \cap {"running"}}

OthersChange ==
  /\ Happens /\ server.n <= MaxMoves
  /\ \E s \in Steps(server) : server' = [s EXCEPT !.n = server.n + 1]
  /\ UNCHANGED <<tour, fetchVars, pageVars, calls>>

-----------------------------------------------------------------------------
(* Answers, with the callbacks of the hooks *)

\* Seeded fault: the queue of approvals is not among them.
MutInvalidates(Q, data) ==
  LET named == Q \ {"approvals"}
  IN /\ fetching' = Refetched(named \cap Observed(page), data)
     /\ stale' = [q \in Queries |-> stale[q] \/ (q \in named /\ data[q] # Unread)]

\* Observed queries are fetched again at once, the others when they are opened.
Invalidates(Q, data) ==
  /\ fetching' = Refetched(Q \cap Observed(page), data)
  /\ stale' = [q \in Queries |-> stale[q] \/ (q \in Q /\ data[q] # Unread)]

Owes(Q, data, n) ==
  owed' = [q \in Queries |->
             IF q \in Q \cap Observed(page) /\ data[q] # Unread /\ n > owed[q]
             THEN n ELSE owed[q]]

\* A created or retried request is put into the dashboard there is.
Upserted(c) ==
  IF c.kind \in {"create", "retry"} /\ cache["dashboard"] # Unread
  THEN [cache EXCEPT !["dashboard"] = c.read] ELSE cache

Succeeds(c) ==
  /\ c.at = "done" /\ c.kind \notin Turns
  /\ cache' = Upserted(c)
  /\ broken' = [broken EXCEPT !["dashboard"] = @ /\ cache' = cache]
  /\ Invalidates(Queries, cache)
  /\ Owes(Queries, cache, c.read.n)
  /\ IF c.kind = "cancel" /\ c.here
     THEN /\ dialog' = FALSE /\ calls' = calls \ {c}
          /\ UNCHANGED <<page, leaving, started>>
     ELSE Renders(calls \ {c})
  /\ UNCHANGED <<tour, server, events>>

\* The turn's answer is the conversation; then it is fetched again all the same.
TurnAnswered(c) ==
  /\ c.at = "done" /\ c.kind \in Turns
  /\ cache' = [cache EXCEPT !["conversation"] = c.read]
  /\ broken' = [broken EXCEPT !["conversation"] = FALSE]
  /\ Invalidates({"conversation"}, cache')
  /\ Owes({"conversation"}, cache', c.read.n)
  /\ Renders(calls \ {c})
  /\ UNCHANGED <<tour, server, events>>

\* Refused, or the call or its answer is lost: a decision that came too late
\* (409) and any turn invalidate, other errors are only shown.
Errs(c) ==
  /\ IF c.at = "refused" THEN UNCHANGED events
     ELSE Happens
  /\ CASE c.kind \in Turns -> Invalidates({"conversation"}, cache)
       [] c.kind \in {"approve", "reject"} /\ c.at = "refused" ->
            Invalidates(Queries, cache)
       [] OTHER -> UNCHANGED <<fetching, stale>>
  /\ calls' = calls \ {c}
  /\ UNCHANGED <<tour, server, cache, broken, owed, pageVars>>

-----------------------------------------------------------------------------
PanelInit ==
  /\ server \in [n : {1}, status : {"none", "pending_approval", "running"},
                 setup : {"pending", "failed"}, talk : {"pending", "idle"}]
  /\ IF "chat" \in tour
     THEN server.status = "none" /\ server.setup = "pending"
     ELSE server.status # "none" /\ server.talk = "idle"
  /\ server.setup = "failed" => server.status = "running" /\ "progress" \in tour
  /\ "approvals" \in tour => server.status = "pending_approval"
  /\ cache = [q \in Queries |-> Unread]
  /\ fetching = [q \in Queries |-> IF q \in Observed(page) THEN server ELSE Unread]
  /\ stale = [q \in Queries |-> FALSE] /\ broken = [q \in Queries |-> FALSE]
  /\ owed = [q \in Queries |-> 0]
  /\ dialog = FALSE /\ leaving = "no" /\ started = FALSE
  /\ calls = {} /\ events = 0

PanelMount == tour \in Tours /\ page \in tour /\ PanelInit

PanelNext ==
  \/ \E q \in Queries : Poll(q) \/ FetchLands(q) \/ FetchFails(q)
  \/ ListRefetches \/ SwitchPersona \/ OthersChange
  \/ \E p \in tour : GoTo(p)
  \/ Power \/ OpenDialog \/ CloseDialog \/ ConfirmDelete
  \/ RetrySetup \/ StayHere \/ CountdownEnds \/ ClickCreate \/ Send
  \/ TryAgain
  \/ \E d \in {"approve", "reject"} : ClickDecide(d)
  \/ \E c \in calls : Serves(c) \/ TurnEnds(c) \/ Succeeds(c) \/ TurnAnswered(c)
                      \/ Errs(c)

PanelSpec == PanelMount /\ [][PanelNext]_panelVars

-----------------------------------------------------------------------------
\* A page that is not waiting for a fetch, and whose last one did not fail,
\* shows at least what every answer reported that found its data in the cache:
\* no poll that was under way, answer that came late or page change undoes it
\* (useInvalidateAfterMutation, query.ts:209).
QuietIsCurrent ==
  \A q \in Observed(page) :
    fetching[q] = Unread /\ ~broken[q] /\ cache[q] # Unread
      => cache[q].n >= owed[q]
=============================================================================
