---------------------------- MODULE MCPublishing ----------------------------
(***************************************************************************)
(* What the instance publishes: reports on a schedule (ReportSchedule),    *)
(* their files (ReportArtifacts) and definitions (ReportAdmin), and status *)
(* pages (StatusPages), all through Published, the figures of a report     *)
(* (ReportFigures), and the bulletins to subscribers (Subscribers). A      *)
(* behaviour takes the steps of one component; the others keep their       *)
(* initial state, or None where they could start in several.               *)
(***************************************************************************)
EXTENDS Subscribers, Published, TLC

CONSTANTS
    Parts,   \* the components whose behaviours a run explores
    run1, run2, firing1, firing2, runner, w1, w2, q1, q2, brand1, brand2, k1,
    k2, s1, t1, t2, m1, m2, g1, g2, tag, p1, p2, i1, i2, slug1, d1, pdf, csv

VARIABLES
    part,    \* the component whose steps this behaviour takes
    seen, keep, figuresNow, rolled, doc

\* Writes of a template: a brand, a comparison, formats, and fields left out.
TemplateWrite(type, comparison, formats, profile) ==
    [type |-> type, comparison |-> comparison, formats |-> formats, brand |-> profile]
TemplateWrites ==
    {TemplateWrite(None, None, {"pdf"}, brand1), TemplateWrite(None, None, {"pdf"}, None),
     TemplateWrite("comparative", "given", {"pdf"}, None),
     TemplateWrite("uptime", "null", None, None), TemplateWrite("uptime", None, None, None),
     TemplateWrite("comparative", "given", None, None),
     TemplateWrite(None, None, {}, None), TemplateWrite(None, None, None, "null")}

\* The estate of the reports: a group in a group, and a monitor found by its tag.
MCGroupOf     == (m1 :> g2) @@ (m2 :> None)
MCParentOf    == (g1 :> None) @@ (g2 :> g1)
MCTagsOf      == (m1 :> {}) @@ (m2 :> {tag})
MCOwnTarget   == (m1 :> None) @@ (m2 :> 50)
MCGroupTarget == (g1 :> 25) @@ (g2 :> 50)
MCHours       == 0..5

\* Three days: every course of successes and failures, and of failures and
\* gaps, of m1 beside one failure of m2; and one course of every status.
Mixed == <<"maintenance", "slow", "unknown", "maintenance", "down", "fast">>
MCHistories ==
    {[m \in {m1, m2} |-> [h \in MCHours |->
          IF m = m1 THEN course[h] ELSE IF h = 2 THEN "down" ELSE "fast"]] :
        course \in [MCHours -> {"fast", "down"}] \cup [MCHours -> {"down", None}]}
    \cup {[m \in {m1, m2} |-> [h \in MCHours |-> IF m = m2 THEN None ELSE Mixed[h + 1]]]}
MCIncidents ==
    {[started |-> 1, detected |-> 2, resolved |-> None],
     [started |-> 2, detected |-> 1, resolved |-> 3]}

Definition(period, style, zone, handling, tier) ==
    [period |-> period, style |-> style, zone |-> zone, handling |-> handling,
     tier |-> tier, explicit |-> None, type |-> "sla", target |-> None, slow |-> 2,
     compare |-> "none", scope |-> [monitors |-> {}, groups |-> {g1}, tags |-> {tag}]]
MCSpecs ==
    {Definition("day", "calendar", 0, "exclude", "auto"),
     Definition("month", "calendar", 0, "count_as_down", "1h"),
     [Definition("day", "calendar", 1, "exclude", "auto")
         EXCEPT !.type = "uptime", !.compare = "previous_period"],
     [Definition("day", "rolling", 0, "count_as_up", "1d")
         EXCEPT !.type = "custom", !.compare = "monitors"],
     [Definition("custom", "calendar", 0, "exclude", "auto")
         EXCEPT !.explicit = [from |-> 0, to |-> 6]],
     Definition("custom", "calendar", 0, "exclude", "auto")}
MCRetentions == {[raw |-> 1, hour |-> 1, day |-> 0], [raw |-> 0, hour |-> 2, day |-> 2]}

MCAsked  == [r \in {run1, run2} |-> IF r = run1 THEN {pdf, csv} ELSE {csv}]
MCLegacy == i1 :> <<p1, t1>>

\* The runs of the schedules are interchangeable.
Symmetry == Permutations({firing1, firing2})

-----------------------------------------------------------------------------
(* The components *)

Figures == INSTANCE ReportFigures WITH
    now <- figuresNow, Monitors <- {m1, m2}, Groups <- {g1, g2},
    Tags <- {tag}, GroupOf <- MCGroupOf, ParentOf <- MCParentOf,
    TagsOf <- MCTagsOf, OwnTarget <- MCOwnTarget,
    GroupTarget <- MCGroupTarget, Histories <- MCHistories, Hours <- MCHours,
    Incidents <- MCIncidents, Specs <- MCSpecs, Retentions <- MCRetentions,
    Day <- 2, Week <- 1, MaxP95 <- 2, MaxLag <- 1,
    MaxTime <- 7

ASSUME SubscribersAssumption
ASSUME Firing!ScheduleAssumption
ASSUME Artifacts!ReportAssumption
ASSUME Admin!AdminAssumption
ASSUME Publication!PagesAssumption

schedulesVars == <<schedulesProc, schedulesNow, schedulesSchedule, edit,
                   rearmed, tick, schedulesRun, firing, submitting,
                   schedulesQueue, refused, schedulesWork, log, sends,
                   schedulesErrors, schedulesCrashes>>
adminVars == <<brand, template, chosen, adminSchedule, adminRun, adminFile,
               link, hits, adminReq, adminNow, adminWrites, losses>>
figuresVars == <<seen, keep, figuresNow, rolled, doc>>
pagesVars == <<monitors, pagesPage, inc, cache, pagesReq, raised, pagesWrites,
               claimed, reverted, crossed>>
artifactsVars == <<artifactsProc, artifactsRun, artifactsWork, artifactsRow,
                   artifactsFile, old, sweep, artifactsErrors,
                   artifactsCrashes>>

AnyVars == <<part, vars, schedulesVars, adminVars, figuresVars, pagesVars, artifactsVars>>

FiguresRests ==
    /\ seen = None /\ keep = None /\ figuresNow = None /\ rolled = None
    /\ doc = None

AnyInit ==
    /\ part \in Parts
    /\ Init
    /\ Firing!Init
    /\ Admin!Init
    /\ IF part = "figures" THEN Figures!Init ELSE FiguresRests
    /\ Publication!Init
    /\ Artifacts!Init

RelayStep ==
    /\ part = "readers" /\ Next
    /\ UNCHANGED <<part, schedulesVars, adminVars, figuresVars, pagesVars,
                   artifactsVars>>

FiringStep ==
    /\ part = "schedules" /\ Firing!Next
    /\ UNCHANGED <<part, vars, adminVars, figuresVars, pagesVars,
                   artifactsVars>>

AdminStep ==
    /\ part = "admin" /\ Admin!Next
    /\ UNCHANGED <<part, vars, schedulesVars, figuresVars, pagesVars,
                   artifactsVars>>

FiguresStep ==
    /\ part = "figures" /\ Figures!Next
    /\ UNCHANGED <<part, vars, schedulesVars, adminVars, pagesVars,
                   artifactsVars>>

PublicationStep ==
    /\ part = "pages" /\ Publication!Next
    /\ UNCHANGED <<part, vars, schedulesVars, adminVars, figuresVars,
                   artifactsVars>>

ArtifactsStep ==
    /\ part = "artifacts" /\ Artifacts!Next
    /\ UNCHANGED <<part, vars, schedulesVars, adminVars, figuresVars,
                   pagesVars>>

AnyNext ==
    \/ RelayStep \/ FiringStep \/ AdminStep \/ FiguresStep \/ PublicationStep
    \/ ArtifactsStep

AnySpec == AnyInit /\ [][AnyNext]_AnyVars

-----------------------------------------------------------------------------
(* Properties *)

\* A window of whole days that retention still reaches is reported
\* exactly as far as the rollup has come, at whichever tier answered
\* (window.go, ResolveTier; uptime.go, Sum; rollup.go, window).
WholeDaysAreExact == part = "figures" => Figures!WholeDaysAreExact
=============================================================================
