---------------------------- MODULE MCMonitoring ----------------------------
(***************************************************************************)
(* The path of a result that has arrived: the verdict it leaves            *)
(* (MonitorState), what becomes of it then (Rollup, LiveBus and            *)
(* MonitorViews), and the lists that are walked page by page (Listing),    *)
(* all but the first through Monitoring. They share no state that a        *)
(* property relates, so a behaviour takes the steps of one component; the  *)
(* others keep one of their initial states, and the variables of Listing   *)
(* are None when it does not run.                                          *)
(***************************************************************************)
EXTENDS MonitorState, Monitoring, TLC

CONSTANTS
    Parts,   \* the components whose behaviours a run explores
    None, router, service, b1, m1, m2, i1, g1, g2

VARIABLE part  \* the component whose steps this behaviour takes

MCMonitors == {router, service}
MCParent   == [m \in MCMonitors |-> IF m = service THEN router ELSE None]
MCRetries  == [m \in MCMonitors |-> IF m = service THEN 1 ELSE 0]
MCWidth    == [fine |-> 2, coarse |-> 4]
MCSpans    == {90, 2880, 11520, 100000}
MCOwner    == [r \in {1, 2, 3} |-> IF r = 3 THEN 2 ELSE 1]

\* Writers, and the monitors and groups of the views, are interchangeable.
Symmetry == Permutations(Writers) \cup Permutations({m1, m2}) \cup Permutations({g1, g2})

-----------------------------------------------------------------------------
(* The components *)

ASSUME Live!LiveBusAssumption

rollupVars == <<rollupNow, raw, tier, pass, monitor, rollupErrors, rollupSeen,
                excused, stragglers>>
liveVars == <<counts, dirty, stream, chan, scope, subs, task, shown, missed,
              moved, crashed, scopes, liveErrors>>
viewsVars == <<monitors, viewsBeats, parent, viewsNow, viewsWrites, request,
               page, strips, summary, still, polls>>
listsVars == <<handler, rows, listsNow, cursor, got, phase, listsWrites,
               twins>>

AnyVars == <<part, vars, rollupVars, liveVars, viewsVars, listsVars>>

\* Of the places the views' rows may start in, all at the top.
ViewsRests ==
    /\ \A m \in Listed : monitors[m].group = None
    /\ \A g \in Groups : parent[g] = None

ListsRests ==
    /\ handler = None /\ rows = None /\ listsNow = None /\ cursor = None
    /\ got = None /\ phase = None /\ listsWrites = None /\ twins = None

AnyInit ==
    /\ part \in Parts
    /\ Init
    /\ Tiers!Init
    /\ Live!Init
    /\ Views!Init /\ (part # "views" => ViewsRests)
    /\ IF part = "lists" THEN Lists!Init ELSE ListsRests

VerdictsStep ==
    /\ part = "verdicts" /\ Next
    /\ UNCHANGED <<part, rollupVars, liveVars, viewsVars, listsVars>>

TiersStep ==
    /\ part = "rollup" /\ Tiers!Next
    /\ UNCHANGED <<part, vars, liveVars, viewsVars, listsVars>>

LiveStep ==
    /\ part = "live" /\ Live!Next
    /\ UNCHANGED <<part, vars, rollupVars, viewsVars, listsVars>>

ViewsStep ==
    /\ part = "views" /\ Views!Next
    /\ UNCHANGED <<part, vars, rollupVars, liveVars, listsVars>>

ListsStep ==
    /\ part = "lists" /\ Lists!Next
    /\ UNCHANGED <<part, vars, rollupVars, liveVars, viewsVars>>

AnyNext ==
    \/ VerdictsStep \/ TiersStep \/ LiveStep \/ ViewsStep \/ ListsStep

AnySpec == AnyInit /\ [][AnyNext]_AnyVars

\* The fairness of the tiers, as their module states it.
TiersFairSpec ==
    /\ AnySpec
    /\ WF_rollupVars(part = "rollup" /\ Tiers!Pass)
    /\ WF_rollupVars(part = "rollup" /\ Tiers!TimePasses)

-----------------------------------------------------------------------------
(* Properties *)

\* "a long backfill makes progress every tick" (rollup.go): a heartbeat whose
\* bucket closes is counted in the end, if it did not come too late for that.
CatchesUp == Tiers!CatchesUp

\* "Blocking would put a browser's scheduling on the heartbeat ingest
\* path, which is the one thing ADR-005 says must never happen" (live.go):
\* an ingest survives every stream.
BrowserNeverStopsIngest == part = "live" => Live!BrowserNeverStopsIngest
=============================================================================
