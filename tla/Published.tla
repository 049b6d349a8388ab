----------------------------- MODULE Published ------------------------------
(***************************************************************************)
(* What the instance publishes: reports as they are made on a schedule,    *)
(* through the pool and out to their target (ReportSchedule), their files  *)
(* on disk (ReportArtifacts), their definitions (ReportAdmin), and status  *)
(* pages (StatusPages), under the names by which the publishing run and    *)
(* the proofs refer to them.                                               *)
(***************************************************************************)
EXTENDS Naturals, Sequences, FiniteSets

CONSTANTS
    Firings,        \* the runs a schedule or a user may create
    Runners,        \* the goroutines of the pool that takes them
    PoolDepth,      \* the capacity of its queue
    MaxSends,       \* sends per delivery target
    MaxFirings,     \* bound: firings that come due
    MaxTargetEdits, \* bound: updates of the schedule
    Runs,           \* the runs whose files are made
    Formats, Asked,
    Renderers,      \* the goroutines that make them
    SweepBatch, NoFormat,
    MaxReportErrors, MaxReportCrashes,
    NoRun,          \* no run
    Brands, Templates, Schedules, Reports, Links, Editors, TemplateFormats,
    TemplateBodies, ShareWindow, MaxShareRequests, MaxAdminTime,
    MaxAdminWrites, MaxLosses,   \* of the definitions and share links
    StatusSites, PageMonitors, Incidents, Slugs, Hostnames, IncidentStates,
    MaxPageWrites, MaxEntries,   \* of the status pages
    Nobody          \* no value

VARIABLES
    schedulesProc, schedulesNow, schedulesSchedule, edit, rearmed, tick,
    schedulesRun, firing, submitting, schedulesQueue, refused, schedulesWork,
    log, sends, schedulesErrors, schedulesCrashes,
    artifactsProc, artifactsRun, artifactsWork, artifactsRow, artifactsFile,
    old, sweep, artifactsErrors, artifactsCrashes,
    brand, template, chosen, adminSchedule, adminRun, adminFile, link, hits,
    adminReq, adminNow, adminWrites, losses,
    monitors, pagesPage, inc, cache, pagesReq, raised, pagesWrites, claimed,
    reverted, crossed

Firing == INSTANCE ReportSchedule WITH
    proc <- schedulesProc, now <- schedulesNow, schedule <- schedulesSchedule,
    run <- schedulesRun, queue <- schedulesQueue, work <- schedulesWork,
    errors <- schedulesErrors, crashes <- schedulesCrashes,
    Runs <- Firings, Workers <- Runners, QueueDepth <- PoolDepth,
    MaxAttempts <- MaxSends, MaxNow <- MaxFirings, MaxEdits <- MaxTargetEdits,
    MaxErrors <- MaxReportErrors, MaxCrashes <- MaxReportCrashes
Artifacts == INSTANCE ReportArtifacts WITH
    proc <- artifactsProc, run <- artifactsRun, work <- artifactsWork,
    row <- artifactsRow, file <- artifactsFile, errors <- artifactsErrors,
    crashes <- artifactsCrashes, Workers <- Renderers,
    MaxErrors <- MaxReportErrors, MaxCrashes <- MaxReportCrashes

Admin == INSTANCE ReportAdmin WITH
    schedule <- adminSchedule, run <- adminRun, file <- adminFile,
    req <- adminReq, now <- adminNow, writes <- adminWrites, Runs <- Reports,
    Requests <- Editors, Formats <- TemplateFormats, None <- Nobody,
    Window <- ShareWindow, MaxRequests <- MaxShareRequests,
    MaxTime <- MaxAdminTime, MaxWrites <- MaxAdminWrites
Publication == INSTANCE StatusPages WITH
    page <- pagesPage, req <- pagesReq, writes <- pagesWrites,
    Pages <- StatusSites, Monitors <- PageMonitors, Domains <- Hostnames,
    Requests <- Editors, States <- IncidentStates, MaxWrites <- MaxPageWrites,
    None <- Nobody

\* A firing of a schedule makes one run (report_schedules.go,
\* ClaimReportSchedule).
OneRunPerFiring == Firing!OneRunPerFiring

\* A run that is queued is on its way, or nobody will start it for a named
\* reason (pool.go).
QueuedIsUnderWay == Firing!QueuedIsUnderWay

\* A row on offer has its file, whatever crashes and sweeps come between
\* the two (runner.go, sweeper.go).
NoDanglingRow == Artifacts!NoDanglingRow

\* A live template keeps the brand its last write named, whichever
\* requests delete profiles meanwhile, and one profile at most is the
\* default (report_brands.go).
BrandsStay == Admin!BrandsStay

\* A page write takes effect on its hostname at once, unless a lookup
\* stored what it had loaded before it (domains.go).
DomainsFollowWrites == Publication!DomainsFollowWrites
=============================================================================
