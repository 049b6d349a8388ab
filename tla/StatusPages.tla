---------------------------- MODULE StatusPages ----------------------------
(***************************************************************************)
(* Status pages and incidents as their requests leave them (api/           *)
(* statuspages.go, api/incidents.go, api/domains.go and their stores).     *)
(*                                                                         *)
(* A PATCH reads the row, folds the body into the copy and writes every    *)
(* column of the copy back, so two of them, or one and a timeline entry,   *)
(* may cross.  Requests on custom domains read the pages through a cache   *)
(* that every page write invalidates after its commit.  Of a page's looks  *)
(* nothing is kept, and of its password only which one it is.              *)
(***************************************************************************)
EXTENDS Naturals, Sequences

CONSTANTS
    Pages, Monitors, Incidents, Slugs, Domains, Requests,
    States,                 \* the incident states, "resolved" among them
    MaxWrites, MaxEntries, None

VARIABLES
    monitors,   \* the monitors that exist
    page,       \* status_pages with their sections; None when there is none
    inc,        \* incidents, each with its links and its timeline
    cache,      \* domainCache: [map, fresh]
    req,        \* a request between two of its steps
    raised,     \* incident events published: <<incident, event>>
    writes,
    claimed,    \* ghost: the states a request has ever put an incident in
    reverted,   \* ghost: incidents whose newer state an edit's copy wrote over
    crossed     \* ghost: the map in the cache was loaded before a write it missed

vars == <<monitors, page, inc, cache, req, raised, writes, claimed, reverted, crossed>>

PageRow == [slug : Slugs, domain : Domains \cup {None}, published : BOOLEAN,
            protected : BOOLEAN, password : {None} \cup 1 .. MaxWrites,
            sections : (SUBSET Monitors) \X (SUBSET Monitors)]
IncidentRow == [state : States, resolved : BOOLEAN, pages : SUBSET Pages,
                monitors : SUBSET Monitors, timeline : Seq(States \cup {None})]

\* None is neither a row nor a step of a request.
PagesAssumption ==
    MaxWrites \in Nat /\ None \notin PageRow /\ None # [kind |-> "invalidate"]

TypeOK ==
    /\ monitors \subseteq Monitors
    /\ \A p \in Pages : page[p] = None \/ page[p] \in PageRow
    /\ \A i \in Incidents : inc[i] = None \/ inc[i] \in IncidentRow
    /\ cache.fresh \in BOOLEAN /\ reverted \subseteq Incidents /\ crossed \in BOOLEAN

Init ==
    /\ monitors = Monitors /\ page = [p \in Pages |-> None]
    /\ inc = [i \in Incidents |-> None]
    /\ cache = [map |-> [d \in {} |-> None], fresh |-> FALSE]
    /\ req = [r \in Requests |-> None] /\ raised = {} /\ writes = 0
    /\ claimed = [i \in Incidents |-> {}] /\ reverted = {} /\ crossed = FALSE

Live(f) == {x \in DOMAIN f : f[x] # None}
Begin(r, record) == req[r] = None /\ req' = [req EXCEPT ![r] = record]
End(r) == req' = [req EXCEPT ![r] = None]
Write == writes < MaxWrites /\ writes' = writes + 1

-----------------------------------------------------------------------------
(* Pages.                                                                   *)

\* createStatusPage's defaults.
NewPage(s) == [slug |-> s, domain |-> None, published |-> FALSE, protected |-> FALSE,
               password |-> None, sections |-> <<{}, {}>>]

\* applyPagePassword: a new hash for every password that is set, none on null.
WithPassword(row) == {[row EXCEPT !.password = x] : x \in {None, writes + 1}}

\* buildSections: a monitor in one section at most, and every one of them there.
WithSections(row) ==
    {[row EXCEPT !.sections = <<a, b>>] : a, b \in SUBSET monitors}

\* buildStatusPage: one field of the body folded in ...
Edits(row) ==
    {[row EXCEPT !.slug = s] : s \in Slugs}
      \cup {[row EXCEPT !.domain = d] : d \in Domains \cup {None}}
      \cup {[row EXCEPT !.published = b] : b \in BOOLEAN}
      \cup (UNION {{row} \cup WithPassword([row EXCEPT !.protected = b]) : b \in BOOLEAN})
      \cup WithSections(row)

\* ... then the check that spans two of them.
Folded(row) == {x \in Edits(row) : /\ x.protected => x.password # None
                                   /\ x.sections[1] \cap x.sections[2] = {}}

\* createStatusPage, up to its transaction.
CreateReads(r, p, s) ==
    /\ page[p] = None /\ Write
    /\ \E row \in Folded(NewPage(s)) : Begin(r, [kind |-> "create", id |-> p, row |-> row])
    /\ UNCHANGED <<monitors, page, inc, cache, raised, claimed, reverted, crossed>>

\* updateStatusPage, up to its transaction.
UpdateReads(r, p) ==
    /\ page[p] # None /\ Write
    /\ \E row \in Folded(page[p]) : Begin(r, [kind |-> "update", id |-> p, row |-> row])
    /\ UNCHANGED <<monitors, page, inc, cache, raised, claimed, reverted, crossed>>

\* slugOrDomainTaken, in the transaction that depends on it.
Taken(p, row) ==
    \E q \in Live(page) \ {p} :
       page[q].slug = row.slug \/ (row.domain # None /\ page[q].domain = row.domain)

\* Neither the update of a page that is gone nor a section with a monitor that
\* is gone commits.
Commits(q) ==
    /\ ~Taken(q.id, q.row)
    /\ q.kind = "update" => page[q.id] # None
    /\ q.row.sections[1] \cup q.row.sections[2] \subseteq monitors

\* A write commits while a lookup holds a map it loaded before.
Crosses == \E r \in Requests : req[r] # None /\ req[r].kind = "lookup"

\* CreateStatusPage and UpdateStatusPage: every column, and the sections anew.
PageWrites(r) ==
    /\ req[r] # None /\ req[r].kind \in {"create", "update"}
    /\ LET q == req[r] IN
       IF Commits(q)
         THEN page' = [page EXCEPT ![q.id] = q.row] /\ crossed' = (crossed \/ Crosses)
         ELSE UNCHANGED <<page, crossed>>
    /\ req' = [req EXCEPT ![r] = [kind |-> "invalidate"]]
    /\ UNCHANGED <<monitors, inc, cache, raised, writes, claimed, reverted>>

\* DeleteStatusPage; the joins of incidents cascade.
DeletePage(r, p) ==
    /\ page[p] # None /\ Write
    /\ page' = [page EXCEPT ![p] = None]
    /\ inc' = [i \in Incidents |-> IF inc[i] = None THEN None
                                   ELSE [inc[i] EXCEPT !.pages = @ \ {p}]]
    /\ Begin(r, [kind |-> "invalidate"]) /\ crossed' = (crossed \/ Crosses)
    /\ UNCHANGED <<monitors, cache, raised, claimed, reverted>>

MutInvalidate(r) ==
    /\ req[r] # None /\ req[r].kind = "invalidate" /\ End(r)
    /\ UNCHANGED <<monitors, page, inc, cache, raised, writes, claimed, reverted, crossed>>

\* The deferred call: after the transaction, before the answer.
Invalidate(r) ==
    /\ req[r] # None /\ req[r].kind = "invalidate" /\ End(r)
    /\ cache' = [cache EXCEPT !.fresh = FALSE]
    /\ UNCHANGED <<monitors, page, inc, raised, writes, claimed, reverted, crossed>>

\* DeleteMonitor takes it out of the sections and incidents that list it.
DeleteMonitor(m) ==
    /\ m \in monitors /\ Write
    /\ monitors' = monitors \ {m}
    /\ page' = [p \in Pages |-> IF page[p] = None THEN None
                  ELSE [page[p] EXCEPT !.sections = <<@[1] \ {m}, @[2] \ {m}>>]]
    /\ inc' = [i \in Incidents |-> IF inc[i] = None THEN None
                                   ELSE [inc[i] EXCEPT !.monitors = @ \ {m}]]
    /\ UNCHANGED <<cache, req, raised, claimed, reverted, crossed>>

-----------------------------------------------------------------------------
(* Custom domains.                                                          *)

\* CustomDomains: published pages only.
CustomDomains ==
    LET served == {p \in Live(page) : page[p].published /\ page[p].domain # None} IN
    [d \in {page[p].domain : p \in served} |->
       page[CHOOSE p \in served : page[p].domain = d].slug]

\* slugFor finds the cache stale and loads the map.
LookupLoads(r) ==
    /\ ~cache.fresh
    /\ Begin(r, [kind |-> "lookup", map |-> CustomDomains])
    /\ UNCHANGED <<monitors, page, inc, cache, raised, writes, claimed, reverted, crossed>>

\* ... and stores it, whatever happened meanwhile.
LookupStores(r) ==
    /\ req[r] # None /\ req[r].kind = "lookup" /\ End(r)
    /\ cache' = [map |-> req[r].map, fresh |-> TRUE]
    /\ UNCHANGED <<monitors, page, inc, raised, writes, claimed, reverted, crossed>>

\* domainTTL passes.
CacheExpires ==
    /\ cache.fresh
    /\ cache' = [cache EXCEPT !.fresh = FALSE]
    /\ UNCHANGED <<monitors, page, inc, req, raised, writes, claimed, reverted, crossed>>

-----------------------------------------------------------------------------
(* Incidents.                                                               *)

Resolved(s) == s = "resolved"

\* resolveEntityIDs: what a request links to was there when it was checked.
ResolvesIDs(ps, ms) == ps \subseteq Live(page) /\ ms \subseteq monitors

\* createIncident: the row, then the opening entry in a transaction of its own.
CreateIncident(r, i, s, ps, ms, note) ==
    /\ inc[i] = None /\ claimed[i] = {} /\ Write
    /\ ResolvesIDs(ps, ms)
    /\ inc' = [inc EXCEPT ![i] = [state |-> s, resolved |-> Resolved(s), pages |-> ps,
                                  monitors |-> ms, timeline |-> <<>>]]
    /\ claimed' = [claimed EXCEPT ![i] = {s}]
    /\ IF note
         THEN Begin(r, [kind |-> "entry", id |-> i, state |-> s, event |-> "opened"])
              /\ UNCHANGED raised
         ELSE raised' = raised \cup {<<i, "opened">>} /\ UNCHANGED req
    /\ UNCHANGED <<monitors, page, cache, reverted, crossed>>

\* createIncidentUpdate, once its body is valid.
PostEntry(r, i, s) ==
    /\ inc[i] # None /\ Write
    /\ Begin(r, [kind |-> "entry", id |-> i, state |-> s, event |-> "updated"])
    /\ UNCHANGED <<monitors, page, inc, cache, raised, claimed, reverted, crossed>>

\* A state in the entry moves the incident, resolved_at with it.
Advanced(row, s) ==
    IF s = None THEN row ELSE [row EXCEPT !.state = s, !.resolved = Resolved(s)]

\* AddIncidentUpdate; the event is chosen from what is read back.
AddIncidentUpdate(r) ==
    /\ req[r] # None /\ req[r].kind = "entry"
    /\ LET i == req[r].id  s == req[r].state IN
       IF inc[i] = None THEN End(r) /\ UNCHANGED <<inc, claimed, reverted>>
       ELSE /\ Len(inc[i].timeline) < MaxEntries
            /\ inc' = [inc EXCEPT ![i] = [Advanced(@, s) EXCEPT !.timeline = Append(@, s)]]
            /\ claimed' = [claimed EXCEPT ![i] = @ \cup ({s} \ {None})]
            /\ reverted' = IF s = None THEN reverted ELSE reverted \ {i}
            /\ req' = [req EXCEPT ![r] = [kind |-> "event", id |-> i, event |-> req[r].event]]
    /\ UNCHANGED <<monitors, page, cache, raised, writes, crossed>>

RaiseEvent(r) ==
    /\ req[r] # None /\ req[r].kind = "event" /\ End(r)
    /\ LET i == req[r].id IN
       raised' = IF req[r].event = "opened" THEN raised \cup {<<i, "opened">>}
                 ELSE IF inc[i] = None THEN raised
                 ELSE raised \cup {<<i, IF Resolved(inc[i].state) THEN "resolved" ELSE "updated">>}
    /\ UNCHANGED <<monitors, page, inc, cache, writes, claimed, reverted, crossed>>

\* updateIncident: metadata and links folded into a copy of the whole row.
EditIncident(r, i, ps, ms) ==
    /\ inc[i] # None /\ Write
    /\ ResolvesIDs(ps, ms)
    /\ Begin(r, [kind |-> "edit", id |-> i,
                 row |-> [inc[i] EXCEPT !.pages = ps, !.monitors = ms]])
    /\ UNCHANGED <<monitors, page, inc, cache, raised, claimed, reverted, crossed>>

\* UpdateIncident writes the copy's state and resolved_at with the rest; a link
\* to something deleted since fails the transaction.
UpdateIncident(r) ==
    /\ req[r] # None /\ req[r].kind = "edit" /\ End(r)
    /\ LET i == req[r].id  row == req[r].row IN
       IF inc[i] = None \/ ~(row.pages \subseteq Live(page)) \/ ~(row.monitors \subseteq monitors)
         THEN UNCHANGED <<inc, raised, reverted>>
         ELSE /\ inc' = [inc EXCEPT ![i] = [row EXCEPT !.timeline = inc[i].timeline]]
              /\ reverted' = IF inc[i].state # row.state THEN reverted \cup {i} ELSE reverted
              /\ raised' = raised \cup {<<i, "updated">>}
    /\ UNCHANGED <<monitors, page, cache, writes, claimed, crossed>>

DeleteIncident(i) ==
    /\ inc[i] # None /\ Write
    /\ inc' = [inc EXCEPT ![i] = None]
    /\ UNCHANGED <<monitors, page, cache, req, raised, claimed, reverted, crossed>>

Next ==
    \/ \E r \in Requests, p \in Pages : \/ UpdateReads(r, p) \/ DeletePage(r, p)
                                        \/ \E s \in Slugs : CreateReads(r, p, s)
    \/ \E r \in Requests : \/ PageWrites(r) \/ Invalidate(r) \/ LookupLoads(r) \/ LookupStores(r)
                           \/ AddIncidentUpdate(r) \/ RaiseEvent(r) \/ UpdateIncident(r)
    \/ \E m \in Monitors : DeleteMonitor(m)
    \/ CacheExpires
    \/ \E r \in Requests, i \in Incidents :
         \/ \E s \in States \cup {None} : PostEntry(r, i, s)
         \/ \E ps \in SUBSET Pages, ms \in SUBSET Monitors :
              \/ EditIncident(r, i, ps, ms)
              \/ \E s \in States, note \in BOOLEAN : CreateIncident(r, i, s, ps, ms, note)
    \/ \E i \in Incidents : DeleteIncident(i)

Spec == Init /\ [][Next]_vars

-----------------------------------------------------------------------------
\* The last state an incident's timeline claims.
Claims(i) == SelectSeq(inc[i].timeline, LAMBDA s : s # None)

(* A slug and a hostname serve one page, a protected page has a password, a *)
(* monitor is in one section, and nothing listed is gone, however creates,  *)
(* whole-row edits and deletions cross.                                     *)
PagesSound ==
    \A p \in Live(page) :
      /\ ~Taken(p, page[p])
      /\ \A q \in Live(page) \ {p} : page[p].domain = page[q].domain => page[p].domain = None
      /\ page[p].protected => page[p].password # None
      /\ page[p].sections[1] \cap page[p].sections[2] = {}
      /\ page[p].sections[1] \cup page[p].sections[2] \subseteq monitors

(* resolved_at "always agrees with the state", the links are to rows that   *)
(* exist, a resolved event is for an incident that was, and the state is    *)
(* the last the timeline claims but for one an edit's copy wrote over.      *)
IncidentsSound ==
    \A i \in Incidents :
      /\ inc[i] # None =>
           /\ inc[i].resolved = Resolved(inc[i].state)
           /\ inc[i].pages \subseteq Live(page) /\ inc[i].monitors \subseteq monitors
           /\ Claims(i) = <<>> \/ i \in reverted \/ inc[i].state = Claims(i)[Len(Claims(i))]
      /\ <<i, "resolved">> \in raised => "resolved" \in claimed[i]

(* A page write takes effect on its hostname at once: a cache that is       *)
(* trusted, with no write's invalidation to come, has the map of now,       *)
(* unless a lookup stored what it had loaded before a write.                *)
DomainsFollowWrites ==
    (cache.fresh /\ ~crossed /\ \A r \in Requests : req[r] = None \/ req[r].kind # "invalidate")
      => cache.map = CustomDomains

(* "An incident whose state moved without the entry explaining it, or an    *)
(* entry claiming a state the incident is not in, are both worse than the   *)
(* write failing": the state is the last one the timeline claims.           *)
StateIsExplained ==
    \A i \in Live(inc) : Claims(i) # <<>> => inc[i].state = Claims(i)[Len(Claims(i))]
=============================================================================
