---------------------------------- MODULE Feed ----------------------------------
(***************************************************************************)
(* The two lists that are read in pages, newest first: the activity of the *)
(* dashboard, whose first page every poll replaces while older pages hang  *)
(* below it, and the audit trail, whose first page is read once.  "Show    *)
(* more" asks for what is older than the last row on the screen.           *)
(*                                                                         *)
(* A row is its place in the order of created_at and id.  created_at is    *)
(* the start of the inserting transaction and is kept in microseconds; the *)
(* cursor a browser sends back carries milliseconds.                       *)
(***************************************************************************)
EXTENDS Integers, FiniteSets, FiniteSetsExt

CONSTANTS
  PageSize,    \* PAGE_SIZE, 20 in the code
  MaxEntries,  \* bound on rows
  Millisecond  \* the millisecond of every row

ASSUME FeedAssumption ==
  /\ PageSize \in Nat \ {0} /\ MaxEntries \in Nat
  /\ Millisecond \in [1..MaxEntries -> Nat]
  /\ \A e, f \in 1..MaxEntries : e < f => Millisecond[e] <= Millisecond[f]

VARIABLES
  list,     \* the list on the screen, "activity" or "audit"
  entries,  \* rows whose transactions have committed
  late,     \* history: those that committed after a newer row
  head,     \* the first page on the screen
  older,    \* rows appended by "Show more"
  hasMore,  \* "unknown" (null), "yes" or "no"
  reading,  \* the read of the first page: a step, and the page under way
  more,     \* "Show more" under way: the heading it started under, its answer
  crossed   \* history: an answer was appended under another heading than its own
feedVars == <<list, entries, late, head, older, hasMore, reading, more, crossed>>

Visible == head \cup older

\* headId
Heading(S) == IF S = {} THEN 0 ELSE Max(S)

\* created_at < cursor, or the same instant and a smaller id: the second never
\* holds between a stamp in microseconds and a cursor cut to milliseconds, so
\* the rows of the cursor's own millisecond are all passed over.
Precedes(e, cursor) == e < cursor /\ Millisecond[e] < Millisecond[cursor]

Below(cursor) == {e \in entries : Precedes(e, cursor)}

\* The newest rows of S, and whether there are others.
Page(S) == [rows |-> {e \in S : Cardinality({f \in S : f > e}) < PageSize},
            hasMore |-> IF Cardinality(S) > PageSize THEN "yes" ELSE "no"]
NoPage == [rows |-> {}, hasMore |-> "unknown"]

\* useState; the audit trail mounts with its first read due, the activity with
\* the dashboard.
FeedMount == /\ list \in {"activity", "audit"}
             /\ entries = {} /\ late = {} /\ head = {} /\ older = {}
             /\ hasMore = "unknown" /\ crossed = FALSE
             /\ reading = [step |-> "due", page |-> NoPage]
             /\ more = [under |-> 0, page |-> NoPage]

-----------------------------------------------------------------------------
(* The tables *)

\* A transaction that writes a row commits; one that started before the last
\* may still be open.
Record(e) ==
  /\ e \notin entries
  /\ e <= Heading(entries) + 2
  /\ entries' = entries \cup {e}
  /\ late' = IF e < Heading(entries) THEN late \cup {e} ELSE late
  /\ UNCHANGED <<list, head, older, hasMore, reading, more, crossed>>

-----------------------------------------------------------------------------
(* The first page *)

\* GET /api/dashboard, again and again; GET /api/admin/actions, once.
ReadHead ==
  /\ reading.step = "due"
  /\ reading' = [step |-> "sent", page |-> Page(entries)]
  /\ UNCHANGED <<list, entries, late, head, older, hasMore, more, crossed>>

Settled == [step |-> IF list = "activity" THEN "due" ELSE "over", page |-> NoPage]

\* Seeded fault: a new heading leaves the older pages hanging below it.
MutReset(rows) == UNCHANGED <<older, hasMore, crossed>>

\* A new heading takes the older pages away; a "Show more" under way is not
\* forgotten.
Reset(rows) ==
  IF Heading(rows) = Heading(head) THEN UNCHANGED <<older, hasMore, crossed>>
  ELSE older' = {} /\ hasMore' = "unknown" /\ crossed' = FALSE

\* The audit trail believes the server's hasMore; the activity, whose first page
\* has none, goes by its length.
HeadLands ==
  /\ reading.step = "sent"
  /\ head' = reading.page.rows
  /\ \/ list = "activity" /\ Reset(reading.page.rows)
     \/ list = "audit" /\ hasMore' = reading.page.hasMore /\ UNCHANGED <<older, crossed>>
  /\ reading' = Settled
  /\ UNCHANGED <<list, entries, late, more>>

\* The audit trail shows the error and does not ask again.
HeadFails ==
  /\ reading.step = "sent"
  /\ reading' = Settled
  /\ UNCHANGED <<list, entries, late, head, older, hasMore, more, crossed>>

-----------------------------------------------------------------------------
(* Show more *)

Loading == more.under > 0

\* showMore, the button; it is disabled while an answer is awaited.
Showing == \/ hasMore = "yes"
           \/ hasMore = "unknown" /\ Cardinality(head) >= PageSize

\* The last row on the screen is the oldest;
\* the audit trail sends the cursor of the last answer, which is that row's.
ShowMore ==
  /\ ~Loading
  /\ Showing
  /\ more' = [under |-> Heading(head), page |-> Page(Below(Min(Visible)))]
  /\ UNCHANGED <<list, entries, late, head, older, hasMore, reading, crossed>>

MoreEnds == more' = [under |-> 0, page |-> NoPage]

MoreLands ==
  /\ Loading
  /\ older' = older \cup more.page.rows
  /\ hasMore' = more.page.hasMore
  /\ crossed' = (crossed \/ more.under # Heading(head))
  /\ MoreEnds
  /\ UNCHANGED <<list, entries, late, head, reading>>

MoreFails ==
  /\ Loading
  /\ MoreEnds
  /\ UNCHANGED <<list, entries, late, head, older, hasMore, reading, crossed>>

FeedNext == \/ \E e \in 1..MaxEntries : Record(e)
            \/ ReadHead \/ HeadLands \/ HeadFails
            \/ ShowMore \/ MoreLands \/ MoreFails

-----------------------------------------------------------------------------
(* Property *)

\* Rows that reading in pages passes over: those of the millisecond of a row
\* above them, which the cursor cuts off with it.
CutOff(e) == \E f \in Visible : f > e /\ Millisecond[f] = Millisecond[e]

\* A row that commits late takes its place under rows already read, and takes
\* the place of an older one on the first page.
Displaced(e) == \E f \in late : f >= e

\* What stands between the newest and the oldest row on the screen is on the
\* screen, and below them too once there is no button, through
\* polls with new rows, failed reads and slow answers, but for rows cut off or
\* displaced and for an answer that came under another heading than it was
\* asked for (ActivityFeed, AuditTrail, listActions, /api/activity).
FeedHasNoGap ==
  crossed \/ \A e \in entries \ Visible :
    \/ CutOff(e) \/ Displaced(e)
    \/ e > Heading(head)
    \/ Showing /\ e < Min(Visible)
=============================================================================
