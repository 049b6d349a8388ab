--------------------------- MODULE ReportFigures ---------------------------
(***************************************************************************)
(* The figures of a report (internal/report): the window a definition is   *)
(* cut to, the tier retention leaves to read it from, what that read       *)
(* returns (internal/store/sqlite/reports.go), and the blocks computed of  *)
(* it: uptime, error budget, latency, breaches, the comparison with the    *)
(* period before, and the incident intervals.                              *)
(*                                                                         *)
(* Time is counted in hours, the rows of the tiers start at multiples of   *)
(* their width, and a day of the 1d tier is a day of UTC.  A zone is an    *)
(* offset from UTC in hours; months are as long as each other and clocks   *)
(* do not change.  One check falls in an hour, a second is an hour, and    *)
(* the tiers finer than a day are one tier.  A quotient is kept as the     *)
(* pair it is the quotient of.  The rows of a tier are there once a pass   *)
(* of the rollup has computed them, which is later than their close: a     *)
(* pass runs on a ticker and leaves a bucket alone for a grace period.     *)
(***************************************************************************)
EXTENDS Integers, Sequences, FiniteSets, SequencesExt, FiniteSetsExt

CONSTANTS
    Monitors, Groups, Tags,
    GroupOf, ParentOf, TagsOf,   \* the estate: functions of monitors and groups
    OwnTarget, GroupTarget,      \* SLO targets, in per cent, or None
    Histories,    \* what may have been observed: [Monitors -> [Hours -> statuses]]
    Hours,        \* the hours there are observations of, 0..n
    Incidents,    \* [started, detected, acked, resolved], an instant or None
    Specs,        \* definitions: see Build
    Retentions,   \* [raw, hour, day]: days each is kept for, 0 for ever
    Day, Week,    \* hours of a day; days of the trailing percentile
    MaxP95, None,
    MaxLag,       \* bound on the hours the rollup is behind the clock
    MaxTime       \* bound on the clock

VARIABLES
    seen,         \* seen[m][h]: the status of the check, or None
    keep,         \* the instance's retention
    now,
    rolled,       \* rolled[tier]: the instant the tier has been computed up to
    doc           \* the last document built, or None

vars == <<seen, keep, now, rolled, doc>>

Up == {"fast", "slow"}   \* the successful checks, by how long they took
Took(status) == IF status = "fast" THEN 1 ELSE 3
Tiers == <<"1h", "1d">>
Width(tier) == IF tier = "1d" THEN Day ELSE 1
Kept(tier) == IF tier = "1d" THEN keep.day ELSE keep.hour

-----------------------------------------------------------------------------
(* Windows and tiers *)

Length(period) == IF period = "day" THEN Day ELSE 2 * Day
FloorTo(t, width) == t - (t % width)

\* ResolveWindow: the last complete period of the zone, or the one up to now.
ResolveWindow(period, style, zone) ==
    LET local == now + zone + 2 * Day     \* counted from before the first hour
        to == IF style = "rolling" THEN now
              ELSE FloorTo(local, Length(period)) - zone - 2 * Day
    IN  [from |-> to - Length(period), to |-> to]

\* resolveSpecWindow: explicit boundaries win.
WindowOf(spec) ==
    IF spec.explicit # None THEN spec.explicit
    ELSE ResolveWindow(spec.period, spec.style, spec.zone)

MutCovers(tier, window) == Kept(tier) = 0 \/ window.to > now - Kept(tier) * Day

Covers(tier, window) == Kept(tier) = 0 \/ window.from >= now - Kept(tier) * Day

\* ResolveTier: the finest tier from the requested one on that still covers the
\* window; past them all the daily tier, from where its rows begin.
ResolveTier(requested, window) ==
    LET first == IF requested = "auto" THEN 1
                 ELSE CHOOSE i \in 1..Len(Tiers) : Tiers[i] = requested
        fit == {i \in first..Len(Tiers) : Covers(Tiers[i], window)}
    IN  IF fit # {}
        THEN [tier |-> Tiers[Min(fit)], downgraded |-> requested # "auto" /\ Min(fit) > first,
              from |-> window.from]
        ELSE [tier |-> "1d", downgraded |-> requested # "auto",
              from |-> Max({window.from, now - keep.day * Day})]

-----------------------------------------------------------------------------
(* What the store answers *)

\* MonitorsInScope: the union of the three sources; a group reaches its children.
MonitorsInScope(scope) ==
    {m \in Monitors :
        \/ m \in scope.monitors
        \/ GroupOf[m] \in scope.groups
        \/ GroupOf[m] \in {g \in Groups : ParentOf[g] \in scope.groups}
        \/ TagsOf[m] \cap scope.tags # {}}

\* SLOTargets: the monitor's own, then its group's and no further.
SLOTarget(m) ==
    IF OwnTarget[m] # None THEN OwnTarget[m]
    ELSE IF GroupOf[m] # None THEN GroupTarget[GroupOf[m]] ELSE None

\* The bucket over [from, to) of what was observed.
Bucket(m, from, to) ==
    LET in == {h \in Hours : from <= h /\ h < to}
        count(S) == Cardinality({h \in in : seen[m][h] \in S})
    IN  [start |-> from, up |-> count(Up), down |-> count({"down"}),
         maintenance |-> count({"maintenance"}), unknown |-> count({"unknown"}),
         sum |-> FoldSet(LAMBDA h, total : total + Took(seen[m][h]), 0,
                         {h \in in : seen[m][h] \in Up})]

Blank(start) == [start |-> start, up |-> 0, down |-> 0, maintenance |-> 0,
                 unknown |-> 0, sum |-> 0]
Saw(b) == b.up + b.down + b.maintenance + b.unknown > 0

\* The rows of a tier: computed by a pass, observed, and not yet pruned.
Rows(m, tier) ==
    {b \in {Bucket(m, i * Width(tier), (i + 1) * Width(tier)) :
                i \in 0..(MaxTime \div Width(tier))} :
        /\ Saw(b)
        /\ b.start + Width(tier) <= rolled[tier]
        /\ Kept(tier) = 0 \/ b.start >= now - Kept(tier) * Day}

\* Sum: counts and response times add up at every tier.
SumOf(buckets, start) ==
    FoldSet(LAMBDA b, total :
                [total EXCEPT !.up = @ + b.up, !.down = @ + b.down, !.sum = @ + b.sum,
                              !.maintenance = @ + b.maintenance, !.unknown = @ + b.unknown],
            Blank(start), buckets)

InRange(rows, from, to) == {b \in rows : from <= b.start /\ b.start < to}

WindowTotal(m, from, to, tier) == SumOf(InRange(Rows(m, tier), from, to), from)

\* seriesFromTier, in the order of the days.
Series(m, from, to, tier) ==
    SetToSortSeq(InRange(Rows(m, tier), from, to), LAMBDA a, b : a.start < b.start)

-----------------------------------------------------------------------------
(* The blocks *)

\* ComputeUptime: down counts against the figure, unknown leaves it, and
\* maintenance is where the policy puts it.
Uptime(b, handling) ==
    LET up == b.up + (IF handling = "count_as_up" THEN b.maintenance ELSE 0)
        down == b.down + (IF handling = "count_as_down" THEN b.maintenance ELSE 0)
    IN  [up |-> up, observed |-> up + down, unobserved |-> b.unknown,
         scheduled |-> b.up + b.down + b.maintenance + b.unknown]

\* dayDowntimeSeconds: the observed share of a day, as time.
DayDowntime(down, observed) == IF observed = 0 THEN 0 ELSE (down * Day) \div observed

\* A day that was observed to be up ends a run; a gap ends nothing.
EndsRun(down, observed) == down = 0 /\ observed > 0

\* ComputeBreaches: runs of days with downtime, and the downtime inside them.
Breaches(daily, handling) ==
    LET DownOf(b) == b.down + (IF handling = "count_as_down" THEN b.maintenance ELSE 0)
        ObservedOf(b) == b.up + b.down
                         + (IF handling = "exclude" THEN 0 ELSE b.maintenance)
        Flushed(acc) == IF acc.current = None THEN acc
                        ELSE [out |-> Append(acc.out, acc.current), current |-> None]
        Grown(acc, b) ==
            LET start == IF acc.current = None THEN b.start ELSE acc.current.from
                before == IF acc.current = None THEN 0 ELSE acc.current.length
            IN  [acc EXCEPT !.current = [from |-> start, to |-> b.start + Day,
                     length |-> before + DayDowntime(DownOf(b), ObservedOf(b))]]
        Step(acc, b) ==
            IF DownOf(b) > 0 THEN Grown(acc, b)
            ELSE IF EndsRun(DownOf(b), ObservedOf(b)) THEN Flushed(acc) ELSE acc
    IN  Flushed(FoldLeft(Step, [out |-> <<>>, current |-> None], daily)).out

\* DowntimeSeconds: the sum of the breach log.
Downtime(daily, handling) ==
    FoldSeq(LAMBDA b, total : total + b.length, 0, Breaches(daily, handling))

\* ComputeSLA: the budget of the whole window, what the breach log spent of it,
\* and a verdict only where something was observed.
SLA(uptime, target, length, downtime) ==
    LET budget == (length * (100 - target)) \div 100 IN
    [target |-> target, budget |-> budget, consumed |-> downtime,
     remaining |-> budget - downtime,
     met |-> IF uptime.observed = 0 THEN None ELSE uptime.up * 100 >= target * uptime.observed]

\* resolveTarget: the template's, then the stored one.
TargetOf(spec, m) == IF spec.target # None THEN spec.target ELSE SLOTarget(m)

\* ComputeLatency: sums over counts; extremes and the days over target, of the
\* days that have a successful check.
Latency(total, daily, target) ==
    LET timed == SelectSeq(daily, LAMBDA b : b.up > 0)
        Slower(a, b) == a.sum * b.up > b.sum * a.up
        Pick(better(_, _)) ==
            FoldLeft(LAMBDA best, b : IF best = None THEN b
                                      ELSE IF better(b, best) THEN b ELSE best, None, timed)
    IN  [sum |-> total.sum, count |-> total.up,
         worst |-> Pick(Slower), best |-> Pick(LAMBDA a, b : Slower(b, a)),
         over |-> IF target = None THEN None
                  ELSE {b.start : b \in {c \in Range(timed) : c.sum > target * c.up}}]

\* attachP95 and TrailingP95: why there is no percentile, or None.
NoP95(m, scope, window) ==
    LET from == Max({window.from, window.to - Week * Day})
        raw == {h \in Hours : seen[m][h] # None /\ h < now
                              /\ (keep.raw = 0 \/ h >= now - keep.raw * Day)}
        daily == {b.start : b \in Rows(m, "1d")}
        covered == (daily # {} => raw # {} /\ (Min(raw) <= Min(daily) \/ Min(raw) <= from))
    IN  IF Cardinality(scope) > MaxP95 THEN "scope_too_large"
        ELSE IF ~(keep.raw = 0 \/ keep.raw >= Week) \/ ~covered THEN "insufficient_raw_retention"
        ELSE IF \A h \in raw : h \in from..(window.to - 1) => seen[m][h] \notin Up
        THEN "no_successful_checks" ELSE None

\* seriesOver: one side of a comparison, at the tier of the report.
SideOf(scope, window, tier, handling) ==
    [window |-> window,
     uptime |-> Uptime(SumOf({[WindowTotal(m, window.from, window.to, tier) EXCEPT !.start = m] :
                                  m \in scope}, window.from), handling)]

\* BuildComparison: this period and the one as long before it, or one side for
\* each monitor or group that is named.
Comparison(spec, scope, window, tier) ==
    LET length == window.to - window.from
        previous == [from |-> window.from - length, to |-> window.from]
    IN  CASE spec.compare = "previous_period" ->
                 {SideOf(scope, w, tier, spec.handling) : w \in {window, previous}}
          [] spec.compare = "monitors" ->
                 {SideOf({m}, window, tier, spec.handling) : m \in scope}
          [] OTHER -> {}

\* PostMortem: an interval is what its two instants say, unless one is missing
\* or the order is impossible.
Interval(i, field) ==
    IF i[field] = None \/ i[field] < i.started THEN None ELSE i[field] - i.started

\* Summarise: the mean over the incidents that have the figure.
MeanOf(found, field) ==
    LET known == {i \in found : Interval(i, field) # None} IN
    [known |-> Cardinality(known),
     mean |-> IF known = {} THEN None
              ELSE FoldSet(LAMBDA i, total : total + Interval(i, field), 0, known)
                       \div Cardinality(known)]

\* attachIncidents, for the types that have a log of them.
IncidentLog(spec, window) ==
    IF spec.type \notin {"post_mortem", "custom"} THEN {}
    ELSE {i \in Incidents : i.started < window.to /\ (i.resolved = None \/ i.resolved >= window.from)}

-----------------------------------------------------------------------------
(* The document *)

Section(m, spec, scope, window, res) ==
    LET total == WindowTotal(m, res.from, window.to, res.tier)
        daily == Series(m, res.from, window.to, "1d")
        uptime == Uptime(total, spec.handling)
        target == TargetOf(spec, m)
    IN  [total |-> total, uptime |-> uptime,
         breaches |-> Breaches(daily, spec.handling),
         latency |-> Latency(total, daily, spec.slow),
         hourly |-> IF window.to - window.from <= Day /\ res.tier # "1d"
                    THEN Series(m, res.from, window.to, "1h") ELSE <<>>,
         noP95 |-> NoP95(m, scope, window),
         sla |-> IF target = None \/ spec.type = "uptime" THEN None
                 ELSE SLA(uptime, target, window.to - res.from, Downtime(daily, spec.handling))]

Document(spec) ==
    LET window == WindowOf(spec)
        scope == MonitorsInScope(spec.scope)
        res == ResolveTier(spec.tier, window)
        log == IncidentLog(spec, window)
    IN  [spec |-> spec, window |-> window, res |-> res, at |-> now, scope |-> scope,
         sections |-> [m \in scope |-> Section(m, spec, scope, window, res)],
         summary |-> Uptime(SumOf({[WindowTotal(m, res.from, window.to, res.tier)
                                        EXCEPT !.start = m] : m \in scope}, 0), spec.handling),
         mttr |-> MeanOf(log, "resolved"), mttd |-> MeanOf(log, "detected"),
         comparison |-> Comparison(spec, scope, window, res.tier)]

\* An unknown period, and a custom one without boundaries, is refused.
Resolvable(spec) == spec.explicit # None \/ spec.period # "custom"

Init ==
    /\ seen \in Histories
    /\ keep \in Retentions
    /\ now = 0
    /\ rolled = [tier \in Range(Tiers) |-> 0]
    /\ doc = None

TimePasses ==
    /\ now < MaxTime /\ now < rolled["1d"] + MaxLag
    /\ now' = now + 1 /\ doc' = None
    /\ UNCHANGED <<seen, keep, rolled>>

\* Rollup: a pass computes what closed a grace period ago, the finest tier from
\* the heartbeats and each of the others from the tier before it.
RollUp(tier) ==
    LET to == IF tier = "1h" THEN now ELSE rolled["1h"] IN
    /\ rolled[tier] < to
    /\ rolled' = [rolled EXCEPT ![tier] = to] /\ doc' = None
    /\ UNCHANGED <<seen, keep, now>>

\* Build, by the runner, for a definition and the window of its run.
Build(spec) ==
    /\ doc = None /\ Resolvable(spec)
    /\ doc' = Document(spec)
    /\ UNCHANGED <<seen, keep, now, rolled>>

Next ==
    \/ TimePasses
    \/ \E tier \in Range(Tiers) : RollUp(tier)
    \/ \E spec \in Specs : Build(spec)

Spec == Init /\ [][Next]_vars

-----------------------------------------------------------------------------
(* Properties *)

SumLengths(breaches) == FoldSeq(LAMBDA b, total : total + b.length, 0, breaches)

\* The error budget and the breach log beside it tell one story: what was spent
\* is the sum of the log, whose periods come in order, apart from one another
\* by a day observed to be up, and hold their downtime (breach.go, sla.go).
BudgetMatchesTheLog ==
    doc # None =>
        \A m \in doc.scope :
            LET s == doc.sections[m] IN
            /\ s.sla # None => s.sla.consumed = SumLengths(s.breaches)
            /\ \A b \in Range(s.breaches) : b.length \in 1..(b.to - b.from)
            /\ \A i \in 1..(Len(s.breaches) - 1) :
                   \E h \in s.breaches[i].to..(s.breaches[i + 1].from - 1) :
                       h \in Hours /\ seen[m][h] \in Up \cup {"maintenance"}

\* A window of whole days that retention still reaches is reported exactly as
\* far as the rollup has come, at whichever tier answered: its counts are those
\* of the checks made in it, all of them once a pass has gone past its end.  A
\* report that fires at midnight comes before that pass, and lacks the buckets
\* that closed last (uptime.go, Sum; window.go, ResolveTier; rollup.go, window).
WholeDaysAreExact ==
    doc # None /\ doc.window.to <= doc.at /\ doc.window.to % Day = 0
               /\ doc.window.from % Day = 0 =>
        \A m \in doc.scope :
            LET s == doc.sections[m]
                reached == FloorTo(rolled[doc.res.tier], Width(doc.res.tier))
                real == Bucket(m, Max({0, doc.res.from}), Min({doc.window.to, reached}))
            IN  doc.res.from = doc.window.from => [s.total EXCEPT !.start = real.start] = real

\* "every boundary here is constructed in loc, never in UTC" (window.go): the
\* downtime a budget is charged with is downtime of the window it states.
BudgetIsOfTheWindow ==
    doc # None =>
        \A m \in doc.scope :
            LET s == doc.sections[m]
                downs == {h \in Hours : seen[m][h] = "down" /\ h < doc.at
                                        /\ doc.window.from <= h /\ h < doc.window.to}
            IN  s.sla # None /\ s.sla.consumed > 0 => downs # {}
=============================================================================
