------------------------------ MODULE Listing ------------------------------
(***************************************************************************)
(* The collections of the REST API, and a client walking one of them page  *)
(* by page while other requests write to it.                               *)
(*                                                                         *)
(* Every list is the same idiom: the rows the filter keeps, in the order   *)
(* of the collection, strictly after the cursor, one more of them than the *)
(* page holds; the extra row is the answer to has_more and is not sent,    *)
(* and the cursor of the next page is the key of the last row read.  What  *)
(* differs is the order: which column leads it, what breaks a tie, and in  *)
(* which direction it runs. Each store query below is that order, and each *)
(* handler the query it runs, the row it must find first, the parameters   *)
(* it refuses, and whether it filters once more after the page was cut.    *)
(*                                                                         *)
(* A row is its key, whether the filter keeps it, and whether it has been  *)
(* left alone since the walk began.  Instants are the numbers 0..MaxTime,  *)
(* in the unit the key column is stored in.                                *)
(***************************************************************************)
EXTENDS Integers, FiniteSets

CONSTANTS
    Rows,         \* row identifiers, numbers: identifiers are compared
    Owner,        \* the monitor whose certificate or domain an expiry row is
    MaxTime,      \* bound on the clock
    MaxWrites,    \* bound on writes by other requests
    DefaultLimit, \* rows of a page when the client asks for no number
    MaxLimit,     \* the most rows a page holds
    None          \* no cursor

ListingAssumption ==
    /\ Rows \subseteq Nat /\ Owner \in [Rows -> Nat] /\ MaxTime \in Nat \ {0}
    /\ DefaultLimit \in Nat \ {0} /\ MaxLimit \in Nat \ {0}
    /\ None \notin [key : 0..MaxTime, tie : Nat]

VARIABLES
    handler,  \* the collection being listed
    rows,     \* the table: row |-> [live, key, keep, still]
    now,      \* the clock
    cursor,   \* the cursor the client holds, None for the first page
    got,      \* row |-> the times it has been sent
    phase,    \* "idle", "walking", "done" or the status it was refused with
    writes,   \* writes by other requests
    twins     \* rows that shared their place in the order with another

vars == <<handler, rows, now, cursor, got, phase, writes, twins>>

-----------------------------------------------------------------------------
(* The orders of the store's queries.  `key` is the column that leads it:  *)
(* "updated" moves with every edit, "created" never does, "expires" is     *)
(* what a check last observed.  `tie` is what breaks a tie: the identifier *)
(* of the row, the monitor the row is of, or nothing.                      *)

Newest(key)  == [key |-> key, tie |-> "id", newest |-> TRUE]

ListMonitors           == Newest("updated")
ListGroups             == Newest("updated")
ListTags               == Newest("updated")
ListAPIKeys            == Newest("updated")
ListIncidents          == Newest("updated")
ListMaintenanceWindows == Newest("updated")
ListChannels           == Newest("updated")
ListStatusPages        == Newest("updated")
ListWebhooks           == Newest("updated")
ListBrandProfiles      == Newest("updated")
ListReportTemplates    == Newest("updated")
ListReportSchedules    == Newest("updated")
ListReportRuns         == Newest("created")

\* Time alone is the keyset of these two: no identifier breaks a tie.
ListHeartbeats         == [Newest("created") EXCEPT !.tie = "none"]
ListWebhookDeliveries  == [Newest("created") EXCEPT !.tie = "none"]

\* Soonest first, certificates and domains in one order, in which those of
\* one monitor tie.
ListUpcomingExpiries   == [key |-> "expires", tie |-> "monitor", newest |-> FALSE]

-----------------------------------------------------------------------------
(* The handlers: the order of their query, the row the path names that     *)
(* must exist, the parameters a malformed value of which is refused, and   *)
(* whether rows are dropped after the page is cut (`derived`).             *)

Over(order, parent, refuses, derived) ==
    [order |-> order, parent |-> parent, refuses |-> refuses,
     derived |-> derived]

listMonitors ==
    Over(ListMonitors, FALSE,
         {"cursor", "group_id", "tag_id", "status", "type", "enabled", "include"},
         FALSE)
listGroups            == Over(ListGroups, FALSE, {"cursor"}, FALSE)
listTags              == Over(ListTags, FALSE, {"cursor"}, FALSE)
listAPIKeys           == Over(ListAPIKeys, FALSE, {"cursor"}, FALSE)
listWebhooks          == Over(ListWebhooks, FALSE, {"cursor"}, FALSE)
listBrandProfiles     == Over(ListBrandProfiles, FALSE, {"cursor"}, FALSE)
listReportTemplates   == Over(ListReportTemplates, FALSE, {"cursor"}, FALSE)
listReportSchedules   ==
    Over(ListReportSchedules, FALSE, {"cursor", "report_template_id"}, FALSE)
listReportRuns        ==
    Over(ListReportRuns, FALSE, {"cursor", "report_template_id"}, FALSE)
listIncidents         ==
    Over(ListIncidents, FALSE,
         {"cursor", "state", "impact", "monitor_id", "status_page_id",
          "from", "to"}, FALSE)
listNotificationChannels ==
    Over(ListChannels, FALSE, {"cursor", "type"}, FALSE)
listStatusPages       == Over(ListStatusPages, FALSE, {"cursor", "published"}, FALSE)
\* A window's state is derived from its schedule: it is filtered in the handler.
listMaintenanceWindows ==
    Over(ListMaintenanceWindows, FALSE, {"cursor", "state", "monitor_id"}, TRUE)
listUpcomingExpiries  ==
    Over(ListUpcomingExpiries, FALSE,
         {"cursor", "within_days", "kind", "tag_id"}, FALSE)
listHeartbeats        == Over(ListHeartbeats, TRUE, {"cursor"}, FALSE)
listWebhookDeliveries ==
    Over(ListWebhookDeliveries, TRUE, {"cursor", "outcome"}, FALSE)

Handlers ==
    {listMonitors, listGroups, listTags, listAPIKeys, listWebhooks,
     listBrandProfiles, listReportTemplates, listReportSchedules,
     listReportRuns, listIncidents, listNotificationChannels, listStatusPages,
     listMaintenanceWindows, listUpcomingExpiries, listHeartbeats,
     listWebhookDeliveries}

-----------------------------------------------------------------------------
(* A page.                                                                 *)

\* The number of rows a `limit` parameter asks for; 0 stands for an absent
\* or meaningless one, and too large a one is clamped.
Limit(raw) == IF raw < 1 THEN DefaultLimit
              ELSE IF raw > MaxLimit THEN MaxLimit ELSE raw

\* What order o has of row r to break a tie.
Tie(o, r) == CASE o.tie = "id" -> r
               [] o.tie = "monitor" -> Owner[r]
               [] OTHER -> 0

MutPrecedes(o, ka, ta, kb, tb) ==
    IF o.newest THEN ka > kb ELSE ka < kb
\* A row at key ka, with tie ta, comes before one at key kb, with tie tb.
Precedes(o, ka, ta, kb, tb) ==
    \/ IF o.newest THEN ka > kb ELSE ka < kb
    \/ ka = kb /\ (IF o.newest THEN ta > tb ELSE ta < tb)

\* The row lies strictly after the cursor.
After(o, r, c) ==
    c = None \/ Precedes(o, c.key, c.tie, rows[r].key, Tie(o, r))

\* Rows the query itself may return: a filter on derived state is not in it.
Queried(h, r) == rows[r].live /\ (h.derived \/ rows[r].keep)

\* Rows of t at a place of the order another row holds too.
Shared(t) ==
    LET o == handler.order IN
    {r \in Rows : t[r].live /\ \E q \in Rows \ {r} :
        t[q].live /\ t[q].key = t[r].key /\ Tie(o, q) = Tie(o, r)}

\* Row a of the table comes before row b.
Before(o, a, b) == Precedes(o, rows[a].key, Tie(o, a), rows[b].key, Tie(o, b))

\* The last rows of a set, more than one when nothing breaks the tie.
LastOf(o, S) == {r \in S : \A q \in S : ~Before(o, r, q)}

\* What a query may read: no row it leaves out comes before one it reads, and
\* it reads all there is or one row more than the page holds.
Read(h, c, limit) ==
    LET S == {r \in Rows : Queried(h, r) /\ After(h.order, r, c)}
    IN {P \in SUBSET S :
          /\ (P = S /\ Cardinality(S) <= limit) \/ Cardinality(P) = limit + 1
          /\ \A r \in S \ P, q \in P : ~Before(h.order, r, q)}

\* What goes back of a page: a derived filter drops rows here.
Sent(page) ==
    [r \in Rows |-> IF r \in page /\ rows[r].keep THEN got[r] + 1 ELSE got[r]]

Init ==
    /\ handler \in Handlers
    /\ \E live \in SUBSET Rows, keys \in [Rows -> 0..1], keep \in [Rows -> BOOLEAN] :
         rows = [r \in Rows |->
                    [live |-> r \in live,
                     key |-> IF r \in live THEN keys[r] ELSE 0,
                     keep |-> r \in live => keep[r], still |-> FALSE]]
    /\ now = 1
    /\ cursor = None
    /\ got = [r \in Rows |-> 0]
    /\ phase = "idle"
    /\ writes = 0
    /\ twins = Shared(rows)

\* The first page of a walk.  A malformed parameter is refused and a missing
\* parent is not found; nothing is read then.
Refuse(what) ==
    /\ phase = "idle"
    /\ \/ what \in handler.refuses /\ phase' = "bad request"
       \/ what = "parent" /\ handler.parent /\ phase' = "not found"
    /\ UNCHANGED <<handler, rows, now, cursor, got, writes, twins>>

Walk ==
    /\ phase = "idle"
    /\ phase' = "walking"
    /\ rows' = [r \in Rows |-> [rows[r] EXCEPT !.still = rows[r].live]]
    /\ UNCHANGED <<handler, now, cursor, got, writes, twins>>

\* One page: the rows read but the extra one, has_more from whether it came
\* back, and the cursor from the last row of the page, sent or dropped.
Page(raw) ==
    /\ phase = "walking"
    /\ \E read \in Read(handler, cursor, Limit(raw)) :
         IF Cardinality(read) > Limit(raw)
         THEN \E extra \in LastOf(handler.order, read) :
              \E last \in LastOf(handler.order, read \ {extra}) :
                 /\ got' = Sent(read \ {extra})
                 /\ cursor' = [key |-> rows[last].key, tie |-> Tie(handler.order, last)]
                 /\ UNCHANGED phase
         ELSE got' = Sent(read) /\ phase' = "done" /\ UNCHANGED cursor
    /\ UNCHANGED <<handler, rows, now, writes, twins>>

-----------------------------------------------------------------------------
(* The other requests.                                                     *)

Writing == phase = "walking" /\ writes < MaxWrites /\ writes' = writes + 1

Rewritten(r, row) ==
    /\ Writing
    /\ rows' = [rows EXCEPT ![r] = row]
    /\ twins' = twins \cup Shared(rows')
    /\ UNCHANGED <<handler, now, cursor, got, phase>>

\* A new row is stamped with the clock; an expiry is whatever was observed.
Create(r) ==
    /\ ~rows[r].live
    /\ \E key \in IF handler.order.key = "expires" THEN 0..MaxTime ELSE {now},
          keep \in BOOLEAN :
         Rewritten(r, [live |-> TRUE, key |-> key, keep |-> keep, still |-> FALSE])

\* An edit: the filter may keep the row or not from now on, and the row goes
\* to the head of a collection that is ordered by its last edit.
Edit(r) ==
    /\ rows[r].live
    /\ \E key \in CASE handler.order.key = "updated" -> {now}
                    [] handler.order.key = "expires" -> 0..MaxTime
                    [] OTHER -> {rows[r].key},
          keep \in BOOLEAN :
         Rewritten(r, [live |-> TRUE, key |-> key, keep |-> keep, still |-> FALSE])

Delete(r) ==
    /\ rows[r].live
    /\ Rewritten(r, [live |-> FALSE, key |-> 0, keep |-> TRUE, still |-> FALSE])

Tick == /\ phase = "walking" /\ now < MaxTime
        /\ now' = now + 1
        /\ UNCHANGED <<handler, rows, cursor, got, phase, writes, twins>>

Next ==
    \/ \E what \in {"cursor", "parent"} : Refuse(what)
    \/ Walk
    \/ \E raw \in 0..(MaxLimit + 1) : Page(raw)
    \/ \E r \in Rows : Create(r) \/ Edit(r) \/ Delete(r)
    \/ Tick

Spec == Init /\ [][Next]_vars

-----------------------------------------------------------------------------
TypeOK ==
    /\ handler \in Handlers
    /\ rows \in [Rows -> [live : BOOLEAN, key : 0..MaxTime, keep : BOOLEAN,
                          still : BOOLEAN]]
    /\ cursor = None \/ cursor \in [key : 0..MaxTime, tie : Nat]
    /\ got \in [Rows -> Nat]
    /\ phase \in {"idle", "walking", "done", "bad request", "not found"}
    /\ twins \subseteq Rows

\* However long the walk and whatever is created, edited and deleted while it
\* lasts, a row nobody touched is in exactly one page when the filter keeps
\* it, and in none when it does not.  A row that shared its place in the order
\* with another is promised nothing: heartbeats and deliveries of one instant,
\* and the certificate and the domain of one monitor that expire at one.
WalkIsComplete ==
    phase = "done" => \A r \in Rows : rows[r].still /\ r \notin twins =>
        got[r] = IF rows[r].keep THEN 1 ELSE 0

\* What the listing of deliveries says of itself: "deliveries are immutable
\* and time-ordered, so time is the keyset".  Two deliveries of one
\* millisecond at a page boundary are one delivery too few.
EveryDeliveryIsListed ==
    phase = "done" /\ handler = listWebhookDeliveries =>
        \A r \in Rows : rows[r].still /\ rows[r].keep => got[r] = 1
=============================================================================
