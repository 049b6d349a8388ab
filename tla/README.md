# Uptime Cairn in TLA+

Uptime Cairn is a self-hosted uptime monitor: one Go binary with a REST API, a
control plane, an embedded probe that talks to it over gRPC, and a SQLite
database behind one writer connection. This directory models it in TLA+, checks
the models with TLC on small instances, and proves nearly all of the invariants
it checks with TLAPS, for every size. Paths are relative to `src/`; where a
section names a package alone, `internal/` goes before it.

    tlc -workers 2 -config DeliverySafety.cfg ResultDelivery   # one run
    tlapm ResultDeliveryProofs.tla                             # one proof module

`PROJECT.json` lists the components, runs, hazards and theorems, and maps every
definition that models code to the lines it models.

## 1. The system

| Part | Where | State it keeps | Operations | Modelled in |
|---|---|---|---|---|
| Result buffer and stream | `internal/probe/buffer.go`, `results.go` | unacknowledged results, a sent cursor, counts | Add (sheds at a limit), Next, Ack, Rewind; flush and health ticks; reconnect | `ResultDelivery`, `DurableOutbox` |
| Result ids | `internal/model/uuid.go` | last millisecond, counter | NewID | `ResultIds` |
| Ingest | `internal/controlplane/ingest.go`, `server.go` | `heartbeats`, `monitor_state` | StreamResults, ingestResults, apply, suppression, raise | `MonitorState`, `ResultDelivery` |
| Maintenance sweep | `internal/maintenance/sweep.go` | `monitor_state.suppressed_by` | Sweep, ApplyMaintenance | `MonitorState` |
| Assignments | `internal/controlplane/server.go`, `internal/probe/watch.go` | a stream's set, the probe's set, rejections | Notify, full set in chunks, delta, reconcile, resync | `AssignmentSync` |
| Scheduler and workers | `internal/probe/scheduler.go`, `execute.go` | a heap of tasks, running checks | pop, shed, run, reschedule, retry, drop, push | `ProbeSchedule` |
| Alert dispatcher | `internal/notify/dispatcher.go` | queue, retry timers, `notification_deliveries` | Publish, fan out, attempt, retry, Test, Stop | `AlertDispatch` |
| Report runs and artifacts | `internal/report/runner/runner.go`, `internal/report/runner/sweeper.go`, `internal/artifact`, `internal/store/sqlite/report_runs.go` | `report_runs`, `report_artifacts`, the reports directory | Execute, Store.Write, recover, expire, orphans | `ReportArtifacts` |
| Report schedules and delivery | `internal/report/runner/scheduler.go`, `pool.go`, `internal/report/delivery`, `internal/api/report_schedules.go` | `report_schedules` and their targets, the pool's queue, `report_deliveries` | Tick, claim, generate, Submit, deliver, record; create, update, delete | `ReportSchedule` |
| Checkers | `internal/probe/check` | sockets of an attempt; the registry cache | Validate, Check of each type; lookup | `Checks`, `DomainLookup` |
| Rollups and retention | `internal/rollup`, `internal/store/sqlite/rollup.go`, `history.go` | aggregate tiers; the watermark is read off them | roll up, catch up, retain, purge; history reads | `Rollup` |
| Live bus | `internal/live`, `internal/api/live.go` | subscriptions, a channel each, a dirty flag | publish, subscribe, deliver, close, summarise | `LiveBus` |
| Monitor views and lists | `internal/api`, `internal/store/sqlite` | none; a client's cursor and its last signal | list a page, embed checks, membership, group summaries | `MonitorViews`, `Listing` |
| Monitors, groups, tags | `internal/api/monitors.go`, `monitor_writes.go`, `taxonomy.go` | `monitors`, `groups`, `monitor_tags`, `monitor_channels` | create, PATCH, bulk, pause, resume, delete | `MonitorConfig` |
| Maintenance windows | `internal/api/maintenance.go`, `internal/maintenance`, `internal/cron` | `maintenance_windows`, their targets and pages | create, PATCH, cancel, delete; next occurrence; sweep | `MaintenanceWindows` |
| Notification channels | `internal/notify/config.go`, `internal/api/notifications.go` | `notification_channels`, public and sealed | create, PATCH, delete, read | `Channels` |
| Outbound webhooks | `internal/outbound`, `internal/api/webhooks.go` | `webhooks`, queue, timers, `webhook_deliveries` | publish, fan out, attempt, redeliver, switch off, edit | `Webhooks` |
| Status pages and incidents | `internal/api/statuspages.go`, `incidents.go`, `domains.go` | pages, sections, incidents, timelines, the domain cache | create, PATCH, delete, update an incident, resolve a host | `StatusPages` |
| Subscriber relay | `internal/notify/subscribers.go`, `internal/api/statuspages.go` | `status_page_subscribers`, tokens, a queue | subscribe, confirm, announce, unsubscribe | `Subscribers` |
| Report definitions and shares | `internal/api/reports.go`, `brands.go`, `report_shares.go` | templates, brands, share links | create, PATCH, delete, share, revoke, download | `ReportAdmin` |
| Report figures | `internal/report` | none | windows, tiers, uptime, budget, breaches, comparison | `ReportFigures` |
| Accounts | `internal/api/handlers_auth.go`, `auth.go`, `internal/auth` | users, sessions, recovery codes, the limiter | set up, sign in, enrol, confirm, disable, sign out | `Account` |
| API keys | `internal/api/handlers_keys.go`, `internal/auth/scope.go` | `api_keys` | create, edit, revoke, expire | `ApiKeys` |
| Importer | `internal/importer/kuma`, `internal/api/imports.go` | import jobs, what a pass has created so far | accept, map a row, write, finish | `KumaImport` |

How they meet: a worker's check result goes into the buffer (`emit` -> `Add`);
the stream carries it to `ingestResults`, which writes its heartbeat, decides
the monitor's verdict and publishes alerts; the dispatcher delivers those. An
API write to a monitor calls `Publisher.Notify`, the assignment stream carries
the change to the probe, and the probe's scheduler drops and pushes tasks. The
sweep, pause/resume and several ingests write the same `monitor_state` row with
no lock in common: each store call is a transaction, and nothing spans two.
Reports stand apart: a tick or a request queues a run, a worker of the pool
renders it and hands it to the delivery, and the sweeper reclaims its files.
Behind the same writer connection, the rollup pass counts heartbeats and deletes
them, the summariser tells browsers what changed, and the API edits the rows all
of these read; a handler reads, decides and writes with other handlers between.

What is hard here, and is what the properties are about:

- acknowledgements are a high-water mark over ids that several goroutines draw
  and enqueue in different orders;
- the stream reconnects while a receiver of the old one still holds an
  acknowledgement and a handler of the old one is still ingesting;
- read, decide, save in ingest spans several transactions, and a crash may fall
  between any two of them;
- a settle window swallows change signals, a full set arrives in several
  messages, and a digest detects divergence;
- tasks are dropped and pushed while one is with the loop or with a worker;
- two workers, retry timers and a bounded queue hold deliveries of one event;
- a report is a file and a row that no transaction spans, with a sweeper working
  from a list it read before, and a crash anywhere;
- a schedule is claimed, edited and delivered to by three goroutines;
- retention deletes what the rollup counts, and the watermark of the rollup is
  the data itself;
- a PATCH reads a row, lays the body over the copy and writes every column back,
  with checks on other rows in between and four transactions for one request;
- a cache, a header or a page of a list is shown while what it was read from
  changes;
- a secret is masked on the way out and must survive the way back in;
- a calendar, a cron expression and a reporting period cut time differently.

## 2. The modules

**ResultDelivery.** One result from `NewID` to `Ack`. State: what each emitter
has in hand, the buffer with its cursor and byte count, who holds `Buffer.mu`,
the frames and acknowledgements on the wire, the acknowledgements and the frame
that outlive a dropped stream, and which ids have a `heartbeats` row. `Add` and
`Ack` loop under the mutex; each turn of a loop is a step, and every other use of
the buffer waits for `mu = "free"`, so they remain atomic to everyone else.
Ingest is one step that stores or refuses each result, or fails having stored
some. Ghost variables record what was freed, shed, failed or overtaken.

**DurableOutbox.** What the buffer, the stream and the ingest promise together:
a result is held until it is stored or refused, and only an unimportant one may
be given up. `ResultDelivery` with one emitter and no failing ingest implements
it (`IsDurableOutbox`).

**ResultIds.** `NewID`, called by several goroutines: the clock is read outside the
lock, the counter is taken inside. The clock is the wall clock, which may be set
back, and the counter wraps. These are the only two ways out of the order.

**MonitorState.** Several calls of `ingestResults` at once, each one step per
store call (`GetState`, the decision, `WriteBatch`, one `SaveState` per monitor,
raise), against the sweep, which resolves its targets in one step and applies
them in another, and pause/resume. The decision (`Applied`, `Verdict`,
`SuppressedBy`, `EventsOf`) is a set of operators taken from `apply`,
`suppression`, `shouldResend` and the alert conditions. `Saved` is the pair of
CASE expressions in `SaveState`'s SQL.

**AssignmentSync.** A write, its `Notify`, the handler of `WatchAssignments`
(load, chunks, settle, reload, reconcile tick), the wire and `watchOnce`. A
monitor's configuration is a version and a body that the probe's checker accepts
or refuses. `applyFullSet` replaces the assignments in one lock section;
`applyDelta` sets or removes one monitor at a time, and records a rejection in a
lock section of its own, so `delta` is what is left of the delta in hand and each
turn of its loops is a step. The ghost `missed` says that a store error swallowed
an announcement.

**ProbeSchedule.** The heap, the loop that pops it, the workers, and an update
that changes the assignment map at once and the heap one monitor at a time.
Times are relative to now and the clock turns in a cycle, so time passes for
ever in finitely many states.

**AlertDispatch.** The queue, the workers that fan an event out channel by
channel, the attempts with their log rows and channel marks, the retry timers, a
test request and a stop of the process.

**ReportArtifacts.** The workers of the report pool through one `Execute` each,
one step per file-system or store call; the sweeper, which lists, marks,
unlinks, reads the live paths, walks and removes in separate steps; and the
process, which is up, stopping (its context is cancelled, and every call that
takes the context fails) or down. A pair of run and format names the row, the
path and its `.partial` twin. Two facts about time are built in: a worker takes
less than the sweeper's grace period (an hour) from file to row, and a run takes
less than the shortest retention (a day). The offsite copy is left out; it
cannot fail a format.

**ReportSchedule.** One schedule with one target, from the due query over the
claim, the submission and the pool to the delivery log, against an update of the
schedule that reads the clock in one step and writes the row in another. Time
counts firing instants. An update that names its deliveries replaces the target
row, so the target is the number of such updates, and the foreign key of
`report_deliveries` is an equality of two of them. `Execute` after its start is
one step here; the two modules share only `report_runs.state`.

**Checks.** One attempt of each checker. A world is the healthy target with up to
two things wrong (a refused dial, a cut body, a silent reply, ...), chosen when
the attempt starts; what the checker validates, in which order it meets the
world, and what it concludes are the code's. The deadline passes while it waits
for something silent, and the agent may cancel at any point.

**DomainLookup.** The cache of `domain_expiry`: read under the mutex, the
registry asked without it, the record stored under it again, with attempts
overlapping and registrations changing.

**Rollup.** Heartbeats, two tiers of buckets, the pass (window, recount, upsert,
retention in batches, purge) and the reads drawn from them. A bucket is the set
of heartbeats counted into it, so that sums, minima and maxima are one thing.

**LiveBus.** Publishers take their targets under the lock and deliver after it;
a delivery looks and then sends. The summariser takes the dirty flag, reads the
counts, may fail, and publishes. Only an ingest's transition touches the
summariser; a monitor created, deleted, paused or moved by the sweep changes the
counts silently (`MovesSilently`). A stream may open without a summary, when the
read fails.

**MonitorViews**, **Listing.** What a client reads while rows change. `Listing` is
one walk, page by page, over any of the sixteen collections: the store query is an
order (leading column, what breaks a tie, direction) and the handler says what it
filters after the page was cut. The id breaks the ties of most; nothing those of
heartbeats and webhook deliveries; the monitor those of the expiries, so that a
certificate and a domain of one monitor and one instant tie on both parts.
`MonitorViews` has the reads that make two queries: list and strip, groups and the
statuses under them, two polls of the membership signal.

**MonitorConfig**, **MaintenanceWindows**, **Channels**, **ReportAdmin**,
**StatusPages**, **Account**, **ApiKeys.** The requests that edit rows: load, lay
the body over the copy, validate, write, each store call a step, two requests at
once. A column is kept when something is checked against it. `MaintenanceWindows`
also has the evaluator of schedules and the sweep, on a calendar cut in ticks.
`StatusPages` has the domain cache; `Account` the sign-in limiter; a secret is
present, absent or the marker that hides it. A store call may fail after earlier
ones of the request were made.

**Subscribers**, **Webhooks.** The same shape as `AlertDispatch`: a queue, workers,
attempts. A subscriber is a mailbox whose owner follows the links in it, and the
model keeps what is in it; a webhook's job carries a copy of its subscription. A
redelivery by a request reads in one step and sends and records in another, beside
whatever the dispatcher holds.

**ReportFigures.** The pure part of a report on hours: every history over a few
hours for each monitor, a period, a zone and a retention; the blocks of the
document are operators from the code. A tier answers for the buckets a pass has
computed (`rolled`), not for those that have closed: the grace period and the
ticker of the roll-up are a lag behind the clock.

**KumaImport.** A pass over a sequence of files, row by row, while the API creates
and deletes what the pass looked up. A row keeps the fields that decide how it
maps. A store call of the pass may fail, as may the read of the existing names
before it and one of the links of a monitor, and a batch of history may be written
in part. What is left of a pass is a set of items, each at a stage of a file, a row
of the stage's table and a place in the row; the pass takes the first of them.

**Access**, **Monitoring**, **Outgoing**, **Published**, **Assigning**,
**Lookups.** Wrappers: each holds the `INSTANCE`s of the components of one area, the
assumptions on their constants, and the properties under one name each, so that
the runs and the proofs speak of the same thing. `Access` has accounts, API keys,
maintenance windows and the import; `Monitoring` the rollup, the live bus, the
views and the lists; `Outgoing` channels and webhooks; `Published` report
schedules, artifacts and definitions, and status pages; `Assigning` the
assignments; `Lookups` the checkers and the registry cache.

Modules named `MC...` give the constants values for TLC. Each puts several
components beside each other: it EXTENDS one of them and a wrapper or two, and a
variable `part` says which component a behaviour belongs to; the others keep one of
their initial states. The components of one such module share no state that a
property relates (section 1 says through which rows they meet, and each of those
rows is a choice, or a variable, of both modules), so interleaving them would
multiply states and show nothing; each keeps all the interleavings of its own
actors. A property about one component holds trivially on the behaviours of the
others. `Parts` in a `.cfg` selects the components of a run.
Definitions named `Mut...` beside a definition are broken variants of it: with
one substituted, the property paired with it in `PROJECT.json` fails, which is
how we know that the property says something about that definition.

## 3. What the runs check

| Run | Component | Instance | What it shows |
|---|---|---|---|
| `DeliverySafety` | `ResultDelivery` | two emitters, a buffer of 2 items and 3 bytes, three results of two sizes, one drop, one failed ingest | `LossIsExplained`: an acknowledgement frees a result that is not stored only if its batch failed or a larger id entered the buffer first. `SentIsCovered`: the cursor skips nothing |
| `Pipelines` | `ResultIds` | two callers, a counter of four values with a seed of two, five ids in two milliseconds, a clock that may be set back | `IdsIncrease`: two ids are in the order of their counters unless, between them, a reading went back or the counter came round |
| | `ResultDelivery` | one emitter, no failing ingest, one drop, fair | `IsDurableOutbox`, the refinement; `BufferDrains` |
| | `AssignmentSync` | two monitors sent in two chunks, one configuration the probe refuses, two writes, a drop, a store error, fair | `HoldsASnapshot`: between messages one snapshot of the store; while a delta is applied, the monitors dealt with as in the second of two, the others as in the first; `Converges`: the probe catches up, refusals or not |
| | `ReportArtifacts` | two runs of a format each, two workers, a failing call, a crash or shutdown, fair | `OrphansReclaimed` |
| `Alerting` | `AlertDispatch` | one event, two channels, two workers, a queue of one, two attempts, a toggle or a test of a channel, a store error, a stop, fair | `NeverDuplicated`, `NeverForgotten`, `AlertsSettle`: an alert is in one place, lost only for a named reason, and leaves |
| | `MonitorState` | a router and a service behind it, two ingests, one resent, a sweep over a window that opens and closes, a pause or resume, fair | `MaintenanceEnds` under four unlocked writers |
| | `Channels` | two channels, two requests, three writes of bodies that omit, null or mask fields | `ReadsAreSafe`: no read shows a secret, and writing back what was read changes nothing |
| | `Webhooks` | one subscription, two events, two workers, a queue of one, two attempts, one edit, one redelivery that overlaps them, one stop | `OneAttemptAtATime`: the dispatcher holds an event in one place, and never again after its success |
| `Probing` | `ProbeSchedule` | intervals 1 and 2, one worker, two updates, a retry, fair | `KeepsComingUp` |
| | `Checks` | every checker, each world with up to two things wrong, the deadline, a cancellation | `VerdictIsRight`: down is the target's fault, unknown the probe's |
| | `DomainLookup` | one domain, two overlapping attempts, a day of two ticks, two of them | `AnswersAreFresh` |
| `Monitoring` | `MonitorState` | the router and the service, two overlapping ingests, three checks, one of them manual, an abandoned ingest, a sweep over a window that opens and closes | `VerdictMatchesCount`; `MaintenanceTagged`, `OnlySweepLeavesMaintenance`; `DownIsTold`: a monitor that is down has told someone, is suppressed, or an abandoned ingest is to blame, where no result is delivered twice |
| | `Rollup` | seven ticks, three heartbeats up to two ticks late, passes of two buckets, retention, one failed statement, a deleted monitor | `DeletedWasCounted`: retention deletes nothing uncounted but for a named reason; `HistoryIsComplete`: a chart of a live monitor misses nothing that retention has left |
| | `LiveBus` | one browser, one ingest, two changes of the counts, announced or silent, a buffer of one, a failed read of the summariser or of an opening stream | `HeaderIsRight`: no older than the last announced transition |
| | `MonitorViews` | two monitors, two groups, a write between the reads of a request | `GroupTellsTheWorst` |
| | `Listing` | each of the sixteen collections, three rows over three instants, two of them of one monitor, pages of one and two, two writes during the walk | `WalkIsComplete`: a row nobody touched, alone at its place of the order, is sent exactly once |
| `Publishing` | `ReportSchedule` | two runs, one worker, a queue of one, two attempts, one firing, one edit, a failing call, a crash | `OneRunPerFiring`; `QueuedIsUnderWay` names the ways to strand a run |
| | `ReportArtifacts` | a run of two formats and one of one, two workers, an error, a crash | `NoDanglingRow`: an artifact on offer is on disk and whole |
| | `ReportAdmin` | two brands, one template, two requests, three writes, two share links | `BrandsStay` |
| | `ReportFigures` | two monitors, days of two hours, all histories of the bounds, two retentions, two zones, a roll-up up to one hour behind | `WholeDaysAreExact`: exact as far as the roll-up has come |
| | `StatusPages` | two pages with one slug and one domain, two requests, three writes | `DomainsFollowWrites` |
| | `Subscribers` | two mailboxes, an old subscription without a token, two workers, two bulletins, a page switch | `ConsentKept`, `LinksWork` |
| `Console` | `Account` | two requests on one account, two secrets, two confirmations | `FactorWasProven` |
| | `ApiKeys` | two requests, two keys, expiry | `NoKeyOutgrowsItsGrant` |
| | `MonitorConfig` | two monitors, two groups, two requests that write twice between them, a parent given at creation, store calls that fail | `TreesHold`, `PauseIsTrue` |
| | `MaintenanceWindows` | one window of any strategy, edits, five ticks, three days of two ticks, a sweep anywhere | `SuppressionFollowsSchedules` |
| | `KumaImport` | two uploads: one file; and three, of which one has a tag without a name, a tag whose slug is taken and a channel that is refused, one shares names with it, and one does not open; two jobs, dry or not, that rename or skip; a channel created or any row deleted meanwhile, a failing read, write, link or batch, or the timeout | `ReportIsTrue`: every row is reported, nothing is written that is not, and what is said to be written was |
| `FailedBatchKept` | `ResultDelivery` | one emitter, one failing ingest | refuted, section 6 |
| `OneCheckAtATime` | `ProbeSchedule` | two workers, two updates | refuted, section 6 |
| `CatchesUp` | `Rollup` | nine ticks, two heartbeats, fair | refuted, section 6 |
| `CredentialSurvives` | `MonitorConfig` | two requests | refuted, section 6 |
| `BrowserNeverStopsIngest` | `LiveBus` | one browser, one ingest | refuted, section 6 |

Why these bounds are enough. Every hazard needs at most two concurrent actors of
a kind and one fault: two emitters to enter the buffer out of order; two ingests
to overwrite each other; two messages to split a full set; two updates so that
the second meets a task of the first with the loop or a worker; a queue of one so
that it is full; one crash between a file and its row; two requests of which one
writes between the other's read and its write; a write between two pages or two
reads; a gap one bucket longer than a pass. Limits of the code (items, bytes,
chunk, batch, pool, attempts, page, bucket, counter width) are constants set so
low that the runs are at them most of the time. Three runs use symmetry:
`Monitoring` permutes the ingests and the monitors and groups of the views,
`Publishing` the runs of a schedule, `Console` requests and keys. The code does not
tell these apart and no property names one; none of the three checks liveness.

Deadlock is checked in `DeliverySafety`, whose system never stops. The other
passing runs hold components that may: all ids drawn, every event delivered,
every run done, every request answered.

**Fairness.** Assumed of what the program runs by itself: goroutines (the loop,
workers, receivers, handlers), tickers and timers; sends and checks end because
each has a timeout; `Session.retry` reopens a stream for as long as the session
lives; the sweeper ticks and files grow old; the rollup pass is on a ticker; a
stopping process ends, and a supervisor starts it again. Operations that take
`Buffer.mu` are strongly fair, as Go's mutex hands itself to a starving waiter.
Nothing is assumed of users, faults, drops or crashes. In a module that holds
several components each conjunct is the component's own, guarded by `part`.

**Stated beside these, and not in a run.** Each of these invariants holds of its
component on instances of the same size. They say less than the ones above, or
the same from another side. Those with a star are proved (section 4):
`ResultDelivery`: `BoundKept`, `TransitionsKept`, `StatsHonest`;
`MonitorState`: `CountIsWitnessed`, `AlertIsRecorded`;
`AssignmentSync`: `QuietMeansSynced`*;
`ProbeSchedule`: `AssignedIsScheduled`, `PhaseKept`;
`AlertDispatch`: `LogReadsTrue`;
`ReportSchedule`: `LogReadsTrue`*, `SendsAreLogged`*;
`ReportArtifacts`: `StateReadsTrue`*, `FinishedIsFinal`*;
`Account`: `RecoveryCodesOnce`*; `ApiKeys`: `RevokedStaysRevoked`*;
`Channels`: `ChannelsAreSendable`;
`Checks`: `ValidMeansRunnable`, `OneResolverIsEnough`*;
`DomainLookup`: `OneLookupADay`;
`KumaImport`: `TiesAreTheFiles`, `DryRunForetells`;
`MaintenanceWindows`: `OccurrenceIsFirst`, `StoredPlansRun`*;
`MonitorConfig`: `RowsAreValid`;
`MonitorViews`: `StripCoversVerdict`, `ChartFits`;
`ReportAdmin`: `TemplatesRender`*, `SharesEnd`*;
`ReportFigures`: `BudgetMatchesTheLog`;
`Rollup`: `PurgeIsThorough`;
`StatusPages`: `PagesSound`*, `IncidentsSound`; `Webhooks`: `OffForAReason`;
and the `TypeOK` of each module.

## 4. What is proved

Of every safety property that a passing run checks there is a theorem, for every
value of the constants that the assumption named below allows; the one exception is
`WholeDaysAreExact`. TLC evaluates the assumptions in the runs. The safety
invariants are not inductive as they stand, so each proof goes by a stronger one,
given here with the reason; where TLC can evaluate that one, it was tried on small
instances before it was proved. `ProbeProofs`, `PublishedProofs` and `ApiProofs`
each prove about several components, which they reach through the wrappers; the
other five each extend the module in their name.

`ResultDeliveryProofs` (`ConstantsAssumption`: the limits are naturals,
`BatchMax` and sizes positive). `TypeCorrect`; `DeliveryCorrect`, that
`DeliveryInv` is invariant; from it `LossExplained` and `SentCovered`.
`LossIsExplained` is not inductive: whether an acknowledgement is harmless was
decided when its frame was built. `DeliveryInv` therefore says of every mark on
its way (on the wire, held by a receiver, or in `Ack`'s hands) that it would free
nothing unexplained (`AcksSafe`), of every frame that its acknowledgement would
be so once the frames before it are ingested (`FramesSafe`), that the buffer is
in id order except for overtaken ids (`OrderKept`), that ids name results
(`IdsUnique`) and that the wire knows no id the buffer has not seen
(`WireKnown`). The hard step is `Flush`: the new frame's last id bounds
everything before it in the buffer, which is sent (`SentIsCovered`) or overtaken
(`OrderKept`). The result holds for any number of emitters, drops, failures and
frames.

`DeliveryImplementsOutbox`, in the same module, is the refinement: with one
emitter and no failing ingest, `Spec` implements `DurableOutbox`, for any limits
and any number of drops. These two hypotheses are what the abstract promise
needs: section 6 shows a failed batch freed, and an overtaken id is freed the same
way. `OutboxInv` adds to `DeliveryInv` that nothing is overtaken or failed, that
what the emitter holds is newer than all the buffer has seen, that a result says of
itself whether it changed something, and that frames hold ids that were given out.
Then `Emit` is `Produce`, `ShedOne` is `GiveUp`, an ingest is `Settle`; `FreeOne` is
`Release` because what `LossIsExplained` leaves to explain a loss is then only that
the result is settled; every other step is a stutter.

`MonitorStateProofs` (`MonitorStateAssumption`). `RowsStaySound`: the
invariant `RowInv` speaks of the stored rows and of every copy an ingest holds,
since a copy becomes a row later; from it `MaintenanceAlwaysTagged`,
`VerdictAlwaysMatches`, and, with the step relation, `MaintenanceLeftBySweep`.
Any number of writers, monitors and depth of dependencies.

In the same module, what people are told. `TypesStay`: all types, with the fact that an
ingest applies and saves only what it has read. `DownAlwaysTold`: `DownIsTold`,
under `MaxResends = 0`. The invariant, `DownsAccounted`, follows the failure that
took a monitor down from the copy to the row: a copy that says down has its alert
on the way or told, or the ingest still holds, unwritten, the heartbeat that says
why not (`DownsKnown`); and a heartbeat that is to be written is not already there
(`AppliedOnce`), for else `WriteBatch` keeps the old one. That is where the
hypothesis is used, and it cannot be dropped: TLC found that a result delivered
twice, the second time behind a router that has gone down, takes its monitor down
by the second counting, suppressed, while the heartbeat stored is the first one,
which says nothing of a suppression (section 6).

`AlertDispatchProofs` (`AlertDispatchAssumption`: channels are a finite set of
numbers, tests are no events, limits are naturals). `AlertsNeverDuplicated`,
`AlertsNeverForgotten`, from `DispatchInv`. An event is first one job for all its
channels, then the list a worker goes through, then a retry of one channel; so
"in one place" becomes `OnePlace`: two jobs, a job and a worker, or two workers
share an event only when both know their channels and have different ones.
`NotOver` says that the log has nothing final of what is still somewhere, but for
the channel about to be marked, and `MarksExplained` that what is marked was
logged or kept out by a store error. `NeverDuplicated` and `NeverForgotten` count
places; the theorems turn that into the above. Any numbers of events, channels,
workers, attempts, toggles, errors and stops.

`SubscribersProofs` (`SubscribersAssumption`). `ConsentAlwaysKept` and
`LinksAlwaysWork`, from `SubscribersInv`: a token belongs to one subscription for
ever, and every copy of a row (in the queue, with a worker, in a message being
retried, in a mailbox) names the same mailbox as the row, if the row is still
there, and a token the row still has. One relation, `Evolves`, says what any step
may do to the rows; that copies stay sound under it is proved once.

`MonitorConfigProofs` (`MonitorConfigAssumption`: `None` and `"top"` are nothing
else, bounds are naturals). `TreesAlwaysHold` and `PauseAlwaysTrue`, from
`ConfigInv`, which speaks of the copy each request holds: until something else is
committed, the copy's parent is the row's own or one the resolver would pass, and
its switch is the row's or the body's (`AllFit`); and a row that is enabled and
reads as paused, or the reverse, has a request whose last write will mend it
(`PauseOwed`). That no loop appears is stated for sets, no set of monitors depends
only on itself, because a set needs no induction over paths: a set that did, and has
the edited monitor, would have to hold the whole walk that the resolver followed up
from the new parent, and that walk ends. The depth of the chains is any number.

`ProbeProofs` is about what a probe knows and concludes.
- Ids (`ResultIdsAssumption`: the seeds are counters). `IdsKeepTheirOrder`, for any
  number of callers, any clock and any width of the counter: of two ids the later is
  the larger, unless between the two a reading of the clock went back or the counter
  came round. `IdsInv` adds that `lastMillis` and `counter` are those of the last id
  (`LastRemembered`); that the order carries over from neighbours to any two ids is
  `BeforeIsTransitive`.
- Registrations (`DomainAssumption`: an hour is shorter than a day, and pruning is no
  earlier than a day). `AnswersAlwaysFresh`, from `LookupInv`: what an attempt is
  about to store was read after it began, and what the cache holds was read no
  earlier than its stamp.
- Assignments (`AssignmentSyncAssumption`). `ProbeHoldsASnapshot` and
  `QuietStreamIsSynced`, from `SyncInv`. What the probe holds is the first point of a
  path, of which every message on the wire is one step, and whose end is what the
  handler believes the probe holds (`OnItsWay`); every full point of it is a set the
  control plane once loaded. A delta that is being applied is the first step of the
  path, taken a monitor at a time: the monitors that wait are those where the probe
  may still be at the point before. The second theorem also needs that versions tell what
  a monitor was (`VersionsTell`) and that a handler with nothing to wake it has the
  set of now (`HandlerCurrent`). Any number of monitors, edits, drops and losses, and
  any size of chunk.
- Checkers (`ChecksAssumption`: the budget covers a dial, a request and an answer).
  `VerdictsAreRight` and `ResolversShareTheTime`, from `AttemptInv`, which keeps for
  each step what the checker has learnt of its world by getting there: an HTTP
  attempt that reads a body was answered within the hops it may follow, the pings
  counted as answered were, and a DNS attempt that has asked some resolvers has as
  much of its budget left as there are resolvers to ask.

`PublishedProofs` is about reports and status pages.
- Artifacts (`ReportAssumption`). `OfferedIsOnDisk`, `StateTellsTheTruth` and
  `FinishedStaysFinished`, from `ArtifactsInv`: a worker about to commit a row has a
  whole file that is still its own, a format not attempted yet has neither file nor
  row, no two workers have one run (`WorkersSound`), and what the sweeper is about to
  unlink or remove was listed when nobody would write it again, and nobody has
  since (`PassSound`).
- Schedules (`ScheduleAssumption`). `FiringQueuesOneRun` from `FiringInv`: a claim
  under way read the clock after every firing so far, and a schedule waits for a
  firing that was claimed only when an update armed it again. `QueuedRunsAreUnderWay`,
  `LogTellsWhatHappened` and `SendsReachTheLog` from `PoolInv`, in which a run is with
  its creator, in the queue once or with one worker (`PlacesSound`), and a worker
  about to make or to record an attempt has the number after those logged, all of
  them failures (`DeliverySound`).
- Definitions (`AdminAssumption`). `BrandsStayPut`, `TemplatesAlwaysRender` and
  `SharesComeToAnEnd`, from `AdminInv`: what a request holds between its two steps
  makes sense whatever the row has become.
- Pages (`PagesAssumption`). `DomainsFollow` and `PagesStaySound`, from `PagesInv`: a
  lookup that will store a map holds the map of now, unless a write has crossed it.

`ApiProofs` is about what clients, browsers and the console see.
- Keys (`ApiKeysAssumption`). `KeysNeverOutgrow` and `KeysStayRevoked`, from
  `KeysInv`, which bounds the scopes of every row and of every copy a request holds
  by what signed-in users granted; that a scope implied by an implied scope is
  implied carries it along a chain of keys.
- Accounts (`AccountAssumption`). `FactorsAlwaysProven` and `RecoveryCodesWorkOnce`,
  from `AccountInv`: a request about to turn a factor on holds a secret a code was
  shown for, and a code not used yet was never used.
- Live pages (`LiveBusAssumption`). `HeadersComeRight`, from `LiveInv`: what a
  listening browser will show once its channel is read is no older than the last
  transition an ingest announced, or that transition is still on its way to the
  summariser, or the summariser owes that browser its message. Silent changes, failed
  reads and full buffers included.
- Webhooks (`WebhooksAssumption`). `DeliveriesAreSingle`, from `JobsInv`: an event is
  in one place of the dispatcher for a subscription (`OnePlace`, which counts
  places and not jobs), and what the dispatcher logged of it are the failures of
  earlier attempts (`LogBefore`). Any number of redeliveries may overlap them.
- Groups (`ViewsAssumption`). `GroupsTellTheWorst`, from `ViewsInv`: what was read of
  the groups still stands wherever nobody wrote.
- Retention (`RollupAssumption`; in particular heartbeats are kept raw for at least
  the grace and one fine bucket, as `Retention.Validate` and days against minutes
  make sure). `DeletedAlwaysCounted`, from `TiersInv`: what the fine tier has gone
  past was counted (`PassedWasCounted`), and what a pass that is not behind is about
  to delete was too (`DueWasCounted`). `HistoriesAreComplete`, from `HistoryInv`,
  which adds that a bucket counts nothing from before it and that what is gone is
  older than what is left. It assumes `LateBeats <= RawKept`, and the property speaks
  of a live monitor: TLC shows that neither can be dropped. A heartbeat that arrives
  later than raw retention makes `RawCovers` answer from the raw table
  (`internal/store/sqlite/history.go:39-77`) although what came after it is gone from
  there.
- Walks (`ListingAssumption`). `WalksAreComplete`, from `ListsInv`: the cursor splits
  the table, and a row that nobody touched and that is alone at its place has been
  sent as often as it is due when it lies before the cursor, and not at all when it
  lies after it. For any order of the sixteen, any number of rows and any limit. A
  certificate and a domain of one monitor and one instant are not alone at their
  place, and nothing is promised of them, as `internal/store/sqlite/expiries.go:33-45`
  says of the code.
- Channels (`ChannelsAssumption`). `ReadsAlwaysSafe`, from `ChannelsInv`: the public
  half of a channel names no secret, and every copy is of words.
- Windows (`MaintenanceWindowsAssumption`: the evaluator looks at least two days
  ahead, and the calendar covers the days there are). `SweepsFollowSchedules` and
  `StoredSchedulesRun`, from `WindowsInv`: the next occurrence stored with a window is
  what its schedule had at some time (`NextIs`), and the copy a sweep goes by says
  what the row says, a window the sweep passed over being closed at its time
  (`CopyTells`). The rest is about the evaluator: for a single window and for a
  recurring one no longer than a day, the occurrence it finds is open exactly when
  the schedule says that it runs.
- The import (`KumaImportAssumption`: the rows of a file are numbered, and what was
  installed came with no import). `ReportsAreTrue`, from `ImportInv`. What
  is left of a pass is the end of its plan (`TodoIsRest`); every row of a file has its
  entry or its item ahead (`RowsAreOwed`); every row the pass wrote comes from an
  item gone by, and is in the report or has its tag's entry ahead (`WrittenRows`); a
  variant gone by has an id or an entry that says it failed (`VariantsCame`), without
  which the entry of a tag might name no row and no failure; and every entry of
  something written points at it (`EntryPoints`). For any uploads, strategies, slugs
  and failures, and whatever the API writes meanwhile.

The proofs changed the models in a few places. An attempt at `VerdictsAreRight` found
arms of a CASE in `Checks` and in `ReportFigures` that overlapped, of which TLC takes
the first and the logic any. `DeletedWasCounted` did not excuse a heartbeat that came
after its bucket had been gone past, a case that the bounds of the run did not reach.

Only model-checked are, first, what needs fairness, which is out of the prover's
reach: `BufferDrains`, `Converges`, `OrphansReclaimed`, `AlertsSettle`,
`MaintenanceEnds`, `KeepsComingUp`, and the fairness of the refinement
`IsDurableOutbox`. Second, `WholeDaysAreExact`: it compares sums over the checks of a
window with sums over its buckets, and what a fold computes of a set of any size
needs an induction over that set. Third, `ProbeSchedule`, whose run property is a
liveness property, and the invariants of section 3 without a star.

## 5. What is left out

Data that no property tells apart: messages, response times, certificates,
`state_version` but in `MonitorViews`, names, how a notification reads. Time is a
number of ticks where something depends on it: no month is longer than another,
and no zone changes its clocks, so what daylight saving does to windows, crons
and reporting periods is not in the models. In `AssignmentSync` two writes have
different versions (section 6), and a handler the probe has left behind is
forgotten. In `ProbeSchedule` an update does not change intervals. In `Account` the
read of the user and the use of a recovery code by a request that turns the factor
off are one step, which no property tells from two. In `Checks` a gRPC check whose
name the probe's own resolver cannot resolve is left out. In `KumaImport` a monitor,
its tags and its channels are written in one step, in which the links may fail.
In `ReportFigures` the roll-up is at most `MaxLag` behind. In `Rollup` the
cached uptime of a monitor row is not refreshed. In `KumaImport` the command line
importer, the size of a catalogue, notes on an entry and the coercion of old
schemas are not modelled. Parts with no module:

- notification providers and message templates: network clients and wording; a
  send is an outcome in the models;
- observations: the last certificate and registration seen, overwritten by each
  result; nothing decides on them;
- report rendering, web pages, logos: layout;
- which instants a report's frequency names (`internal/report/schedule.go`):
  calendar arithmetic; firings are numbered in `ReportSchedule`;
- the offsite mirror: a copy nothing reads, whose failures are only recorded;
- secrets: cryptography; schema migrations: run once before anything else;
- wiring, configuration, metrics; the web UI, the load harness, generated code.

## 6. Differences between code and comments met on the way

Shown by a run:

- `FailedBatchKept`: `internal/controlplane/server.go:572-574` says of a failed
  ingest "The probe keeps the batch and resends it". The mark of the next batch
  that succeeds is above the failed one's ids, and frees them.
- `OneCheckAtATime`: an update while a check runs leaves its task alive beside
  the new one (`internal/probe/execute.go:258`), and the monitor is checked twice
  per interval from then on.
- `CatchesUp`: `internal/rollup/rollup.go:360-361` promises that a long backfill
  "makes progress every tick". The range of a pass starts at the newest stored
  bucket and is bounded by `maxBucketsPerRun`; when nothing was recorded for
  longer than that, the pass stores nothing, and so does every later one.
- `CredentialSurvives`: `updateMonitor` seals the configuration of every PATCH
  (`internal/api/monitor_writes.go:93`). When the body has none, what it seals is
  the stored public half, and the stored credential is overwritten with nothing;
  `docs/api/openapi.yaml:846` says "Omitted fields are left unchanged".
- `BrowserNeverStopsIngest`: `deliver` reads `closed`, releases the lock and sends
  (`internal/live/live.go:204`); `Close` may close the channel in between, and the
  send panics in the publisher. `internal/live/live.go:121-123` calls a browser's
  effect on the ingest path "the one thing ADR-005 says must never happen".

Refuted by TLC in the same way, on instances like those above; the definition
stands in the module and quotes the line:

- `Checks.OneReplyIsEnough` (`internal/probe/check/icmp.go:232`, "One reply is
  enough to call the host up"): the deadline is the socket's (:258), and the first
  reply that is lost uses all of it.
- `KumaImport.AppearsOnce`: a tag whose variant fails is recorded for the failure
  and again at the end (`internal/importer/kuma/stages.go:155-167`).
- `KumaImport.JobSaysItEnded`: an import that ran into `importTimeout` writes its
  end under the context that expired (`internal/api/imports.go:256`); the comment
  at :270-274 wants "the job reporting that".
- `StatusPages.StateIsExplained` (`internal/store/sqlite/incidents.go:276-278`): a
  PATCH that read the incident before an update writes the old state back
  (:50-54).
- `Listing.EveryDeliveryIsListed` (`internal/store/sqlite/webhooks.go:265-267`):
  two deliveries of one millisecond at the edge of a page are one too few. The
  expiries, whose key two rows of one monitor can share, say so in a comment
  (`internal/store/sqlite/expiries.go:33-45`), and `WalkIsComplete` leaves them out.
- `MonitorViews.SignalMoves` (`internal/store/sqlite/monitors.go:546-549`): a sum of
  versions is the same when one monitor leaves and another with its version
  enters.
- `MaintenanceWindows.OpenIsDue`, `NextIsFirstUnfinished`: an edit between the
  evaluation of a window and `SetNextOccurrence` leaves the old plan's occurrence
  stored (`internal/maintenance/sweep.go:89`), and an occurrence longer than a day
  is not found again on its second day (`internal/maintenance/schedule.go:66-74`,
  against :32-34).
- `MaintenanceWindows.PagesSurviveAPatch`: a PATCH without `status_page_ids` clears
  them (`internal/store/sqlite/maintenance.go:107-113`).
- `Channels.MarkerNeverStored`: a list in which some items are masked is stored as
  sent (`internal/notify/config.go:537-547`, against :187-190).
- `Channels.SecretsNotNamedStay`: two PATCHes of one channel, each with the merge of
  a stale copy (`internal/api/notifications.go:286`, against :252).
- `ReportAdmin.DeletedReportsStop`: a schedule written after its template was
  deleted keeps firing (`internal/api/report_schedules.go:208`, against
  `internal/store/sqlite/report_templates.go:164-166`).
- `ReportFigures.BudgetIsOfTheWindow`: the daily series is cut in UTC
  (`internal/report/document.go:292`), so a budget of a zoned window is charged
  with hours outside it; `internal/report/window.go:54-57` says "every boundary
  here is constructed in loc".

Part of the models, and allowed for by the properties:

- `internal/probe/watch.go:96-131`: a delta of several monitors is applied one at a
  time, and meanwhile the probe runs part of two sets (`HoldsASnapshot`).
- `internal/live/summary.go:128-130`: "Nothing transitioned since the last publish, so
  the number on screen is still right" overlooks the changes that touch nobody: a
  pause, a bulk edit, a creation or a deletion (`internal/api/monitor_writes.go:380-408`)
  and the sweep. The header shows them with the next transition (`HeaderIsRight`).
- `internal/rollup/rollup.go:69`, `:331`: a bucket is computed at the first tick that
  finds it closed for 30 seconds, so a report that fires at midnight over the day
  that just ended lacks the last buckets of it (`WholeDaysAreExact`).
- `internal/probe/buffer.go:123`: a result that entered the buffer after a larger
  id can be freed unsent; lines 120-122 rely on the order. The clock reading
  outside `NewID`'s lock (`internal/model/uuid.go:28` against :10) is another
  source of disorder.
- `internal/store/sqlite/monitors.go:356`: a stale `SaveState` can write a
  maintenance reason; `internal/maintenance/sweep.go:31-34` calls the sweep the
  only writer. The next sweep repairs it (`MaintenanceEnds`).
- An ingest in flight overwrites `paused` (`internal/api/monitor_writes.go:119-122`
  says a paused monitor shows as paused), and so does a stale PATCH; a PATCH that
  fails between its writes leaves the monitor half paused (`PauseIsTrue`).
- `internal/controlplane/ingest.go:341`: a resent failure counts twice towards
  the verdict; `internal/probe/results.go:24-25` calls resending harmless.
- `internal/probe/watch.go:51`: a monitor refused by the probe makes every
  reconcile a resync, and :59 returns without cancelling the old stream.
- `internal/controlplane/server.go:461`: two writes to a monitor in one
  millisecond have one version, and the second is not sent.
- `internal/controlplane/server.go:366`: a failed reload leaves the probe stale
  until the next write or reconnect.
- `internal/probe/execute.go:254`: a retry moves a monitor off its phase.
- `internal/notify/dispatcher.go:431`: a retry that finds the queue full is
  logged and dropped; :306: two workers may mark a channel in the wrong order, so
  that `last_error` is the older one.
- Nothing looks for a queued report run again. `internal/api/reports.go:290-295`
  says it "will be picked up", and `internal/report/runner/scheduler.go:182` by
  "the recovery pass", which selects `running` rows only
  (`internal/store/sqlite/report_runs.go:115-131`). `QueuedIsUnderWay` lists the
  ways to strand one.
- An update of a schedule that names its deliveries replaces the target rows, and
  the foreign key refuses the log row of a send in flight;
  `internal/report/runner/pool.go:179` says every attempt is already a row.
- An update that read the clock before a claim and writes after it re-arms the
  firing (`internal/api/report_schedules.go:152`, `OneRunPerFiring`).
- `internal/report/runner/runner.go:239-242`: an interrupted run "must not be left
  at `running`"; it is when the interruption reaches `recordFailure`, until the
  next start. `Pool.Wait` (`pool.go:107-110`) is called by nobody.
- `internal/store/sqlite/report_runs.go:309-311` has the sweeper unlink a file
  before it marks its row; the sweeper does the opposite, which is what
  `NoDanglingRow` needs.
- `internal/notify/subscribers.go:420`: two bulletins may both reissue the token of
  an old subscription, and the link of the first message is dead (`LinksWork`
  names the row contested).
- `internal/api/domains.go:77`: a lookup may store what it loaded before a write
  that has already invalidated the cache (`DomainsFollowWrites`).
- `internal/api/monitors.go:531`: two edits that cross between check and write can
  close a loop of parents, or nest groups twice (`TreesHold`).

Read, and not part of a property: a cancelled read of a body, or a cancelled ping,
is recorded as down (`internal/probe/check/http.go:211-219`); `max_redirects: 0`
is an error rather than "do not follow" (`docs/guides/monitor-types.md:71-73`); the
registry cache is keyed by domain alone, so a monitor that asks for WHOIS may get
the RDAP answer; a share link that expired but was not revoked still blocks a new
one; a dry run does not know the slugs of the pages of its own files.

## 7. Next

1. Proofs of what is stated beside the runs and has no star in section 3:
   `KumaImport.TiesAreTheFiles`, for which the invariant would have to say what the
   tables of ids were made from, `Webhooks.OffForAReason`,
   `StatusPages.IncidentsSound` and `ProbeSchedule.AssignedIsScheduled`.
2. Deadlines and tokens of push monitors, beside `MonitorState`.
3. Intervals that change in an update, in `ProbeSchedule`.
4. Daylight saving in `MaintenanceWindows` and `ReportFigures`, and the instants of
   a report's frequency.
