---------------------------- MODULE MonitorViews ----------------------------
(***************************************************************************)
(* What the monitor screens read while checks and edits go on: a filtered  *)
(* list with the recent checks of each row, the signal a client polls to   *)
(* learn that its list moved, the groups with the status of the monitors   *)
(* under them, and the resolution a history is drawn at.                   *)
(*                                                                         *)
(* A request makes its reads one after another and no transaction spans    *)
(* them; each read is an action and any write may come between two.        *)
(*                                                                         *)
(* A monitor row is its configuration and its state joined.  Checks of a   *)
(* monitor are numbered in the order they were written, and `last` is the  *)
(* one the state was saved from: heartbeats are written first, the state   *)
(* after them.                                                             *)
(***************************************************************************)
EXTENDS Integers, FiniteSets, FiniteSetsExt, Sequences

CONSTANTS
    Monitors, Groups,
    Strip,      \* checks under a row: heartbeats_limit
    MaxBeats,   \* bound on the checks of a monitor
    MaxTime,    \* bound on the clock
    MaxWrites,  \* bound on edits
    Spans,      \* lengths of history asked for, in minutes
    None

\* Ids of monitors and of groups are of two tables.
ViewsAssumption ==
    /\ Monitors \cap Groups = {}
    /\ None \notin Groups /\ "gone" \notin Groups /\ None # "gone"

VARIABLES
    monitors,  \* monitor |-> its row, None when there is none
    beats,     \* monitor |-> checks written
    parent,    \* group |-> its parent, None at the top, "gone" when deleted
    now, writes,
    request,   \* the reads of the request under way: [kind, step]
    page,      \* the rows it read
    strips,    \* the checks it read under them
    summary,   \* group |-> [count, status] it read
    still,     \* monitors and groups nobody wrote to since it began
    polls      \* answers to the polls of the membership signal

table == <<monitors, beats, parent, now, writes>>
reads == <<request, page, strips, summary, still>>
vars  == <<table, reads, polls>>

Live    == {m \in Monitors : monitors[m] # None}
LiveG   == {g \in Groups : parent[g] # "gone"}
Statuses == {"up", "down", "pending", "paused", "maintenance"}

-----------------------------------------------------------------------------
(* Filters and the signal.                                                 *)

\* The statuses, shared by the list and the signal.
narrow(S, f) == {m \in S : f.statuses = {} \/ monitors[m].status \in f.statuses}

\* A group filter reaches the monitors of its children too.
Under(g) == {m \in Live : LET h == monitors[m].group IN
               h # None /\ (h = g \/ parent[h] = g)}

Matching(f) == narrow(IF f.groups = {} THEN Live
                      ELSE UNION {Under(g) : g \in f.groups}, f)

\* The count, and a version summed of the state versions with the latest edit.
Membership(f) ==
    LET S == Matching(f)
    IN [count   |-> Cardinality(S),
        version |-> MapThenSumSet(LAMBDA m : monitors[m].version, S)
                    + Max({0} \cup {monitors[m].updated : m \in S})]

-----------------------------------------------------------------------------
(* A group's status: the worst of the statuses under it.                   *)

statusRank(s) ==
    CASE s = "down" -> 0 [] s = "maintenance" -> 1 [] s = "pending" -> 2
      [] s = "paused" -> 3 [] s = "up" -> 4

WorstStatus(S) ==
    IF S = {} THEN None
    ELSE CHOOSE s \in S : \A t \in S : statusRank(s) <= statusRank(t)

MutStatusesUnder(g) == {monitors[m].status : m \in {n \in Live : monitors[n].group = g}}
StatusesUnder(g) == {monitors[m].status : m \in Under(g)}

\* Count and worst status of the groups that still exist when it is read.
groupSummaries(S) ==
    [g \in S |-> IF g \in LiveG
                 THEN [count |-> Cardinality(Under(g)),
                       status |-> WorstStatus(StatusesUnder(g))]
                 ELSE [count |-> 0, status |-> None]]

-----------------------------------------------------------------------------
(* The resolution of a history, in minutes, finest first.                  *)

rollupTiers == <<1, 5, 60, 1440>>
minHistoryBuckets == 120
maxHistoryBuckets == 2000

Buckets(span, tier) == span \div rollupTiers[tier]
Fits(span, tier) == Buckets(span, tier) <= maxHistoryBuckets

\* What is asked for: a tier by its place, 0 for raw, or Auto.
Auto == -1

\* Asked for Auto: from the coarsest towards the finest while a chart of it
\* fits, stopping at the first with enough points to show something.
autoHistoryTier(span) ==
    LET Reached == {t \in 1..4 : \A u \in t..4 : Fits(span, u)}
        Useful  == {t \in Reached : Buckets(span, t) >= minHistoryBuckets}
    IN IF Useful # {} THEN Max(Useful)
       ELSE IF Reached # {} THEN Min(Reached) ELSE 4

\* Asked for a tier, 0 standing for raw: raw when one bucket per check fits,
\* else the first tier from the one asked for that does, else the coarsest.
resolveHistoryTier(asked, span, interval) ==
    IF asked = Auto THEN autoHistoryTier(span)
    ELSE IF asked = 0 /\ interval > 0 /\ span \div interval <= maxHistoryBuckets
         THEN 0
    ELSE LET Fitting == {t \in (IF asked = 0 THEN 1 ELSE asked)..4 : Fits(span, t)}
         IN IF Fitting # {} THEN Min(Fitting) ELSE 4

-----------------------------------------------------------------------------
Row(group, at) == [group |-> group, updated |-> at, status |-> "pending",
                   version |-> 0, last |-> 0]

Init ==
    /\ \E place \in [Monitors -> Groups \cup {None}] :
         monitors = [m \in Monitors |-> Row(place[m], 0)]
    /\ beats = [m \in Monitors |-> 0]
    /\ parent \in {p \in [Groups -> Groups \cup {None}] :
                     \A g \in Groups : p[g] # None => p[p[g]] = None /\ p[g] # g}
    /\ now = 0 /\ writes = 0
    /\ request = [kind |-> "idle", step |-> 0]
    /\ page = <<>> /\ strips = <<>> /\ summary = <<>> /\ still = {}
    /\ polls = <<>>

-----------------------------------------------------------------------------
(* The writers.  Each is one transaction.                                  *)

Touched(x) == /\ still' = still \ {x}
              /\ UNCHANGED <<request, page, strips, summary, polls>>

Edited(x) == /\ writes < MaxWrites
             /\ writes' = writes + 1
             /\ Touched(x)

\* A check is written, then the state it leads to.
WriteBatch(m) ==
    /\ m \in Live /\ monitors[m].status # "paused" /\ beats[m] < MaxBeats
    /\ beats' = [beats EXCEPT ![m] = @ + 1]
    /\ UNCHANGED <<monitors, parent, now, writes>>
    /\ Touched(m)

SaveState(m, status) ==
    /\ m \in Live /\ monitors[m].last < beats[m]
    /\ monitors' = [monitors EXCEPT
         ![m].status = IF @ = "maintenance" THEN @ ELSE status,
         ![m].last = beats[m], ![m].version = @ + 1]
    /\ UNCHANGED <<beats, parent, now, writes>>
    /\ Touched(m)

\* An edit moves the row and the signal.
UpdateMonitor(m, g) ==
    /\ m \in Live /\ (g = None \/ g \in LiveG)
    /\ monitors' = [monitors EXCEPT ![m].group = g, ![m].updated = now,
                                    ![m].version = @ + 1]
    /\ UNCHANGED <<beats, parent, now>>
    /\ Edited(m)

SetMonitorEnabled(m, status) ==
    /\ m \in Live /\ monitors[m].status # status
    /\ monitors' = [monitors EXCEPT
         ![m].status = IF @ = "maintenance" THEN @ ELSE status,
         ![m].updated = now, ![m].version = @ + 1]
    /\ UNCHANGED <<beats, parent, now>>
    /\ Edited(m)

\* The sweep puts one monitor into maintenance, and takes it out of it.
ApplyMaintenance(m) ==
    /\ m \in Live /\ monitors[m].status # "paused"
    /\ monitors' = [monitors EXCEPT
         ![m].status = IF @ = "maintenance" THEN "pending" ELSE "maintenance",
         ![m].version = @ + 1]
    /\ UNCHANGED <<beats, parent, now>>
    /\ Edited(m)

DeleteMonitor(m) ==
    /\ m \in Live
    /\ monitors' = [monitors EXCEPT ![m] = None]
    /\ beats' = [beats EXCEPT ![m] = 0]
    /\ UNCHANGED <<parent, now>>
    /\ Edited(m)

\* A group moves under another at the top, and only if it has no children.
UpdateGroup(g, p) ==
    /\ g \in LiveG /\ p # g
    /\ p = None \/ (p \in LiveG /\ parent[p] = None)
    /\ p # None => \A h \in LiveG : parent[h] # g
    /\ parent' = [parent EXCEPT ![g] = p]
    /\ UNCHANGED <<monitors, beats, now>>
    /\ Edited(g)

\* A deleted group leaves its monitors ungrouped and its children at the top.
DeleteGroup(g) ==
    /\ g \in LiveG
    /\ parent' = [h \in Groups |-> IF h = g THEN "gone"
                                  ELSE IF parent[h] = g THEN None ELSE parent[h]]
    /\ monitors' = [m \in Monitors |->
         IF m \in Live /\ monitors[m].group = g
         THEN [monitors[m] EXCEPT !.group = None] ELSE monitors[m]]
    /\ UNCHANGED <<beats, now>>
    /\ Edited(g)

Tick == /\ now < MaxTime
        /\ now' = now + 1
        /\ UNCHANGED <<monitors, beats, parent, writes, reads, polls>>

-----------------------------------------------------------------------------
(* The readers.                                                            *)

Begin(kind) ==
    /\ request.step = 0 /\ polls = <<>>
    /\ request' = [kind |-> kind, step |-> 1]
    /\ still' = Live \cup LiveG

\* GET /monitors: the rows the filter keeps, then the checks under each.
listMonitors(f) ==
    /\ Begin("monitors")
    /\ page' = [m \in Matching(f) |-> monitors[m]]
    /\ UNCHANGED <<table, strips, summary, polls>>

\* The newest checks of every row of the page, newest first.
RecentHeartbeats(m) ==
    [i \in 1..(IF beats[m] < Strip THEN beats[m] ELSE Strip) |-> beats[m] - i + 1]

embed ==
    /\ request = [kind |-> "monitors", step |-> 1]
    /\ request' = [request EXCEPT !.step = 2]
    /\ strips' = [m \in DOMAIN page |-> RecentHeartbeats(m)]
    /\ UNCHANGED <<table, page, summary, still, polls>>

\* GET /groups: the groups, then what is under them.
listGroups ==
    /\ Begin("groups")
    /\ page' = [g \in LiveG |-> parent[g]]
    /\ UNCHANGED <<table, strips, summary, polls>>

summarise ==
    /\ request = [kind |-> "groups", step |-> 1]
    /\ request' = [request EXCEPT !.step = 2]
    /\ summary' = groupSummaries(DOMAIN page)
    /\ UNCHANGED <<table, page, strips, still, polls>>

Answered ==
    /\ request.step = 2
    /\ request' = [kind |-> "idle", step |-> 0]
    /\ page' = <<>> /\ strips' = <<>> /\ summary' = <<>> /\ still' = {}
    /\ UNCHANGED <<table, polls>>

\* A client polls the signal of its filter twice; `rows` is what the list
\* would have shown it each time.
getMonitorMembership(f) ==
    /\ request.step = 0 /\ Len(polls) < 2
    /\ Len(polls) = 1 => polls[1].filter = f
    /\ polls' = Append(polls, [filter |-> f, signal |-> Membership(f),
                               rows |-> Matching(f)])
    /\ UNCHANGED <<table, reads>>

Filters == [statuses : {{}, {"down"}}, groups : {{}} \cup {{g} : g \in Groups}]

Next ==
    \/ \E m \in Monitors :
         \/ WriteBatch(m) \/ ApplyMaintenance(m) \/ DeleteMonitor(m)
         \/ \E s \in {"up", "down"} : SaveState(m, s)
         \/ \E s \in {"paused", "pending"} : SetMonitorEnabled(m, s)
         \/ \E g \in Groups \cup {None} : UpdateMonitor(m, g)
    \/ \E g \in Groups : DeleteGroup(g) \/
                         \E p \in Groups \cup {None} : UpdateGroup(g, p)
    \/ Tick
    \/ listGroups \/ summarise \/ embed \/ Answered
    \/ \E f \in Filters : listMonitors(f) \/ getMonitorMembership(f)

Spec == Init /\ [][Next]_vars

-----------------------------------------------------------------------------
\* A group in the answer says "down" whenever a monitor in it, or in a group
\* under it, was down from the moment the request began: a parent does not go
\* green over an outage of its child, whatever is moved and deleted meanwhile.
GroupTellsTheWorst ==
    request = [kind |-> "groups", step |-> 2] =>
        \A g \in DOMAIN page \cap still, m \in Live \cap still :
            /\ monitors[m].status = "down"
            /\ LET h == monitors[m].group
               IN h = g \/ (h # None /\ h \in still /\ parent[h] = g)
            => summary[g].status = "down"

\* The checks under a row include the one the row's status came from, or
\* newer ones only: the strip is never older than the verdict beside it.
StripCoversVerdict ==
    request = [kind |-> "monitors", step |-> 2] =>
        \A m \in DOMAIN page \cap still :
            page[m].last > 0 => strips[m] # <<>> /\ strips[m][1] >= page[m].last

\* A chart has at most 2000 buckets unless even days are too many, is never
\* finer than what was asked for, and "auto" has at least 120 whenever some
\* resolution that fits has.
ChartFits ==
    \A span \in Spans, asked \in {Auto} \cup 0..4 :
        LET t == resolveHistoryTier(asked, span, 1)
        IN /\ t # 0 => Fits(span, t) \/ t = 4
           /\ t >= asked
           /\ asked = Auto /\ (\E u \in 1..4 :
                  Fits(span, u) /\ Buckets(span, u) >= minHistoryBuckets)
              => Buckets(span, t) >= minHistoryBuckets

\* What the signal is said to do: "because a monitor entering or leaving
\* carries its own version with it", it moves "whenever membership changes".
SignalMoves ==
    Len(polls) = 2 /\ polls[1].signal = polls[2].signal =>
        polls[1].rows = polls[2].rows
=============================================================================
