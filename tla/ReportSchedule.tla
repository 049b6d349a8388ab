--------------------------- MODULE ReportSchedule ---------------------------
(***************************************************************************)
(* Where a report run comes from and to whom it goes: the schedule and its *)
(* updates, the scheduler's tick, the "generate" request, the bounded      *)
(* pool, and the delivery of a finished run (internal/report/runner,       *)
(* internal/report/delivery, internal/api/report_schedules.go,             *)
(* internal/api/reports.go, internal/store/sqlite/report_schedules.go).    *)
(*                                                                         *)
(* One schedule with one delivery target.  Time is counted in firings: the *)
(* firing after instant n is n + 1.  The rendering of a run is one step    *)
(* here, whatever its outcome; module ReportArtifacts is about its inside. *)
(***************************************************************************)
EXTENDS Naturals, Sequences, FiniteSets

CONSTANTS
    Runs,           \* the runs that may be created
    Workers,        \* the goroutines of the pool
    QueueDepth,     \* the capacity of Pool.queue
    MaxAttempts,    \* sends per delivery target
    MaxNow,         \* firings of the schedule that come due
    MaxEdits,       \* updates of the schedule that replace its target
    MaxErrors,      \* store calls that fail
    MaxCrashes,     \* times the process ends
    NoRun

ScheduleAssumption ==
    /\ NoRun \notin Runs
    /\ QueueDepth \in Nat \ {0} /\ MaxAttempts \in Nat \ {0}
    /\ {MaxNow, MaxEdits, MaxErrors, MaxCrashes} \subseteq Nat

VARIABLES
    proc,       \* the process: "up", "stopping" (context cancelled) or "down"
    now,        \* the firing instants that have passed
    schedule,   \* the report_schedules row and the id of its target row
    tick,       \* the scheduler between its due query and its claim
    edit,       \* an update request between its clock read and its write
    run,        \* report_runs.state of each run, "none" before it is created
    firing,     \* the firing a scheduled run was claimed for, 0 if ad hoc
    submitting, \* runs created whose creator has not called Submit yet
    queue,      \* Pool.queue
    refused,    \* runs that found it full
    work,       \* what each worker is doing
    log,        \* report_deliveries: the recorded attempts of each run
    sends,      \* sends made for each run
    rearmed,    \* firings an update set again after they had been claimed
    errors, crashes

requestVars == <<schedule, edit, rearmed>>
poolVars    == <<submitting, queue, refused>>
logVars     == <<log, sends>>
vars == <<proc, now, requestVars, tick, run, firing, poolVars, work, logVars,
          errors, crashes>>

Finished == {"succeeded", "partial", "failed"}
Outcomes == {"succeeded", "skipped", "permanent", "transient"}

Idle   == [pc |-> "idle", job |-> NoRun, target |-> 0, attempt |-> 0,
           outcome |-> "none"]
NoTick == [due |-> 0, at |-> 0]
NoEdit == [next |-> 0, enabled |-> FALSE, fresh |-> FALSE]

TypeOK ==
    /\ proc \in {"up", "stopping", "down"} /\ now \in 0..MaxNow
    /\ schedule \in [next : 0..(MaxNow + 1), enabled : BOOLEAN,
                     deleted : BOOLEAN, target : 0..MaxEdits]
    /\ tick \in [due : 0..MaxNow, at : 0..MaxNow]
    /\ edit \in [next : 0..(MaxNow + 1), enabled : BOOLEAN, fresh : BOOLEAN]
    /\ run \in [Runs -> {"none", "queued", "running"} \cup Finished]
    /\ firing \in [Runs -> 0..MaxNow]
    /\ submitting \subseteq Runs /\ refused \subseteq Runs
    /\ queue \in Seq(Runs) /\ Len(queue) <= QueueDepth
    /\ work \in [Workers ->
         [pc : {"idle", "start", "execute", "handover", "send", "record"},
          job : Runs \cup {NoRun}, target : 0..MaxEdits,
          attempt : 0..MaxAttempts, outcome : {"none"} \cup Outcomes]]
    /\ log \in [Runs -> Seq([attempt : 1..MaxAttempts,
                             outcome : {"succeeded", "skipped", "failed"}])]
    /\ sends \in [Runs -> 0..MaxAttempts]
    /\ rearmed \subseteq 1..MaxNow
    /\ errors \in 0..MaxErrors /\ crashes \in 0..MaxCrashes

Init ==
    /\ proc = "up" /\ now = 0 /\ crashes = 0 /\ errors = 0
    /\ schedule = [next |-> 1, enabled |-> TRUE, deleted |-> FALSE, target |-> 0]
    /\ tick = NoTick /\ edit = NoEdit /\ rearmed = {}
    /\ run = [r \in Runs |-> "none"] /\ firing = [r \in Runs |-> 0]
    /\ submitting = {} /\ queue = <<>> /\ refused = {} /\ work = [w \in Workers |-> Idle]
    /\ log = [r \in Runs |-> <<>>] /\ sends = [r \in Runs |-> 0]

Up   == proc = "up"
Live == proc # "down"

(* A call that may fail spends one of the errors; a context that has been   *)
(* cancelled fails every call it is passed to.                              *)
Fails    == errors < MaxErrors /\ errors' = errors + 1
CtxFails == IF Up THEN Fails ELSE UNCHANGED errors

InHand(r) == \E w \in Workers : work[w].job = r

-----------------------------------------------------------------------------
(* The schedule.                                                            *)

\* Time reaches the next firing instant.
TimePasses ==
    /\ now < MaxNow
    /\ now' = now + 1
    /\ UNCHANGED <<proc, requestVars, tick, run, firing, poolVars, work, logVars,
                   errors, crashes>>

\* The condition of DueReportSchedules.
Due == schedule.enabled /\ ~schedule.deleted /\ schedule.next \in 1..now

\* Scheduler.Tick finds the schedule due.
TickReads ==
    /\ Up /\ tick = NoTick /\ Due
    /\ tick' = [due |-> schedule.next, at |-> now]
    /\ UNCHANGED <<proc, now, requestVars, run, firing, poolVars, work, logVars,
                   errors, crashes>>

\* Scheduler.fire: a template or window that cannot be read, a lost race for the
\* row or a store that refuses leave the schedule as it is for the next tick.
ClaimRefused ==
    /\ Live /\ tick # NoTick
    /\ \/ schedule.next # tick.due /\ UNCHANGED errors
       \/ CtxFails
    /\ tick' = NoTick
    /\ UNCHANGED <<proc, now, requestVars, run, firing, poolVars, work, logVars,
                   crashes>>

MutAdvanced == schedule

\* The schedule after a firing: its next one is counted from now and not from
\* the firing that was missed.
Advanced == [schedule EXCEPT !.next = tick.at + 1]

MutHanded(r) == submitting

\* The creator of a run goes on to submit it.
Handed(r) == submitting \cup {r}

\* ClaimReportSchedule commits: one transaction advances the schedule, or clears
\* it when its expression has no further firing, and queues the run it owes.
Claim(r) ==
    /\ Up /\ tick # NoTick /\ run[r] = "none"
    /\ schedule.next = tick.due
    /\ schedule' \in {Advanced, [schedule EXCEPT !.next = 0]}
    /\ run' = [run EXCEPT ![r] = "queued"]
    /\ firing' = [firing EXCEPT ![r] = tick.due]
    /\ submitting' = Handed(r)
    /\ tick' = NoTick
    /\ UNCHANGED <<proc, now, edit, rearmed, queue, refused, work, logVars, errors,
                   crashes>>

\* updateReportSchedule up to its write: the next firing is computed from the
\* clock as this request reads it.
EditReads ==
    /\ Live /\ edit = NoEdit /\ ~schedule.deleted
    /\ \E enabled, fresh \in BOOLEAN :
         /\ fresh => schedule.target < MaxEdits
         /\ edit' = [next |-> now + 1, enabled |-> enabled, fresh |-> fresh]
    /\ UNCHANGED <<proc, now, schedule, rearmed, tick, run, firing, poolVars, work,
                   logVars, errors, crashes>>

\* UpdateReportSchedule: the row is written whole, next_run_at included, unless
\* it was deleted meanwhile.  A body that names its deliveries replaces the
\* target rows by new ones.
EditWrites ==
    /\ Live /\ edit # NoEdit
    /\ edit' = NoEdit
    /\ IF schedule.deleted
         THEN UNCHANGED <<schedule, rearmed>>
         ELSE /\ schedule' = [next |-> edit.next, enabled |-> edit.enabled,
                              deleted |-> FALSE,
                              target |-> schedule.target
                                           + (IF edit.fresh THEN 1 ELSE 0)]
              /\ rearmed' = rearmed \cup
                   {n \in {edit.next} : \E r \in Runs : firing[r] = n}
    /\ UNCHANGED <<proc, now, tick, run, firing, poolVars, work, logVars, errors,
                   crashes>>

\* DeleteReportSchedule: hidden, disabled and cleared of its next firing.
DeleteSchedule ==
    /\ Live /\ ~schedule.deleted
    /\ schedule' = [schedule EXCEPT !.next = 0, !.enabled = FALSE,
                                    !.deleted = TRUE]
    /\ UNCHANGED <<proc, now, edit, rearmed, tick, run, firing, poolVars, work,
                   logVars, errors, crashes>>

-----------------------------------------------------------------------------
(* The pool.                                                                *)

\* generateReport: the run is recorded as queued before it is submitted.
Generate(r) ==
    /\ Live /\ run[r] = "none"
    /\ run' = [run EXCEPT ![r] = "queued"]
    /\ submitting' = Handed(r)
    /\ UNCHANGED <<proc, now, requestVars, tick, firing, queue, refused, work, logVars,
                   errors, crashes>>

\* Pool.Submit does not block: a full queue refuses the run, whose row stays
\* queued.
Submit(r) ==
    /\ Live /\ r \in submitting
    /\ submitting' = submitting \ {r}
    /\ IF Len(queue) < QueueDepth
         THEN queue' = Append(queue, r) /\ UNCHANGED refused
         ELSE refused' = refused \cup {r} /\ UNCHANGED queue
    /\ UNCHANGED <<proc, now, requestVars, tick, run, firing, work, logVars,
                   errors, crashes>>

\* Pool.work: after the cancellation the select may still choose the queue.
Take(w) ==
    /\ Live /\ work[w].pc = "idle" /\ queue # <<>>
    /\ work' = [work EXCEPT ![w].pc = "start", ![w].job = Head(queue)]
    /\ queue' = Tail(queue)
    /\ UNCHANGED <<proc, now, requestVars, tick, run, firing, submitting, refused, logVars,
                   errors, crashes>>

\* StartReportRun, conditional on the run still being queued; any refusal ends
\* the execution with the row as it stands.
Start(w) ==
    /\ Live /\ work[w].pc = "start"
    /\ \/ /\ Up /\ run[work[w].job] = "queued"
          /\ run' = [run EXCEPT ![work[w].job] = "running"]
          /\ work' = [work EXCEPT ![w].pc = "execute"]
          /\ UNCHANGED errors
       \/ /\ CtxFails
          /\ work' = [work EXCEPT ![w] = Idle]
          /\ UNCHANGED run
    /\ UNCHANGED <<proc, now, requestVars, tick, firing, poolVars, logVars,
                   crashes>>

\* The rest of Execute.  When a row cannot be written it returns an error, the
\* run stays running and nothing is handed over.
Execute(w) ==
    /\ Live /\ work[w].pc = "execute"
    /\ \/ /\ \E state \in Finished : run' = [run EXCEPT ![work[w].job] = state]
          /\ work' = [work EXCEPT ![w].pc = "handover"]
          /\ UNCHANGED errors
       \/ /\ CtxFails
          /\ work' = [work EXCEPT ![w] = Idle]
          /\ UNCHANGED run
    /\ UNCHANGED <<proc, now, requestVars, tick, firing, poolVars, logVars,
                   crashes>>

-----------------------------------------------------------------------------
(* Delivery of a finished run, by the worker that finished it.              *)

\* Dispatcher.Deliver: an ad hoc run goes to nobody, a cancelled context or a
\* store that refuses ends it, and a run with nothing rendered in a format the
\* target takes is a skip.
HandOver(w) ==
    LET r == work[w].job IN
    /\ Live /\ work[w].pc = "handover"
    /\ \/ /\ CtxFails \/ (firing[r] = 0 /\ UNCHANGED errors)
          /\ work' = [work EXCEPT ![w] = Idle]
       \/ /\ Up /\ firing[r] # 0 /\ UNCHANGED errors
          /\ \/ /\ run[r] # "failed"
                /\ work' = [work EXCEPT ![w].target = schedule.target,
                              ![w].attempt = 1, ![w].pc = "send"]
             \/ work' = [work EXCEPT ![w].target = schedule.target,
                           ![w].attempt = 1, ![w].pc = "record",
                           ![w].outcome = "skipped"]
    /\ UNCHANGED <<proc, now, requestVars, tick, run, firing, poolVars, logVars,
                   crashes>>

\* The top of deliverTo's loop and the send.  A cancelled context ends the loop.
Send(w) ==
    /\ Live /\ work[w].pc = "send"
    /\ IF Up
         THEN /\ sends' = [sends EXCEPT ![work[w].job] = @ + 1]
              /\ \E o \in Outcomes :
                   work' = [work EXCEPT ![w].pc = "record", ![w].outcome = o]
         ELSE work' = [work EXCEPT ![w] = Idle] /\ UNCHANGED sends
    /\ UNCHANGED <<proc, now, requestVars, tick, run, firing, poolVars, log,
                   errors, crashes>>

\* What deliverTo does once an attempt is a row: only a transient failure is
\* tried again.
AfterRecord(me) ==
    IF me.outcome = "transient" /\ me.attempt < MaxAttempts
      THEN [me EXCEPT !.pc = "send", !.outcome = "none", !.attempt = @ + 1]
      ELSE Idle

\* The foreign key of report_deliveries: the target row is still the one read.
MayRecord(me) == me.target = schedule.target

\* record: RecordReportDelivery, on a context that outlives the cancellation.
\* The foreign key refuses it when the target row has been replaced since it was
\* read, and a row that cannot be written ends the delivery.
Record(w) ==
    LET me == work[w] IN
    /\ Live /\ me.pc = "record"
    /\ \/ /\ MayRecord(me)
          /\ log' = [log EXCEPT ![me.job] = Append(@,
                [attempt |-> me.attempt,
                 outcome |-> IF me.outcome \in {"succeeded", "skipped"}
                               THEN me.outcome ELSE "failed"])]
          /\ work' = [work EXCEPT ![w] = AfterRecord(me)]
          /\ UNCHANGED errors
       \/ /\ IF MayRecord(me) THEN Fails ELSE UNCHANGED errors
          /\ work' = [work EXCEPT ![w] = Idle]
          /\ UNCHANGED log
    /\ UNCHANGED <<proc, now, requestVars, tick, run, firing, poolVars, sends,
                   crashes>>

-----------------------------------------------------------------------------
(* The process.                                                             *)

\* The context is cancelled.
Shutdown ==
    /\ Up /\ crashes < MaxCrashes
    /\ proc' = "stopping"
    /\ UNCHANGED <<now, requestVars, tick, run, firing, poolVars, work, logVars,
                   errors, crashes>>

\* The process ends, after a shutdown or in a crash: the queue, the requests and
\* the deliveries under way are gone.
Exit ==
    /\ Live /\ crashes < MaxCrashes
    /\ proc' = "down" /\ crashes' = crashes + 1
    /\ submitting' = {} /\ queue' = <<>>
    /\ work' = [w \in Workers |-> Idle]
    /\ tick' = NoTick /\ edit' = NoEdit
    /\ UNCHANGED <<now, schedule, rearmed, run, firing, refused, logVars, errors>>

\* Start-up: RecoverInterruptedReportRuns finishes the runs it finds running,
\* and only those; a failure of it is logged and the start-up goes on.
Restart ==
    /\ proc = "down"
    /\ proc' = "up"
    /\ \/ /\ run' \in [Runs -> {"none", "queued"} \cup Finished]
          /\ \A r \in Runs : IF run[r] = "running"
                               THEN run'[r] \in {"partial", "failed"}
                               ELSE run'[r] = run[r]
          /\ UNCHANGED errors
       \/ Fails /\ UNCHANGED run
    /\ UNCHANGED <<now, requestVars, tick, firing, poolVars, work, logVars,
                   crashes>>

-----------------------------------------------------------------------------
Step(w) ==
    \/ Take(w) \/ Start(w) \/ Execute(w) \/ HandOver(w) \/ Send(w) \/ Record(w)

Next ==
    \/ TimePasses \/ TickReads \/ ClaimRefused
    \/ EditReads \/ EditWrites \/ DeleteSchedule
    \/ \E r \in Runs : Claim(r) \/ Generate(r) \/ Submit(r)
    \/ \E w \in Workers : Step(w)
    \/ Shutdown \/ Exit \/ Restart

Spec == Init /\ [][Next]_vars

-----------------------------------------------------------------------------
(* The delivery log reads as what happened: attempts in order from 1,       *)
(* nothing after the attempt that settled the matter, no success without    *)
(* its send, and nothing for a run that is unfinished, that nobody          *)
(* scheduled, or, but for a skip, that failed.                              *)
LogReadsTrue ==
    \A r \in Runs :
      /\ \A i \in DOMAIN log[r] :
           /\ log[r][i].attempt = i
           /\ i < Len(log[r]) => log[r][i].outcome = "failed"
           /\ log[r][i].outcome # "skipped" => i <= sends[r] /\ run[r] # "failed"
      /\ log[r] # <<>> => run[r] \in Finished /\ firing[r] # 0

(* A firing queues one run, across crashes and restarts between the due     *)
(* query, the claim and the submission: two runs share a firing only when   *)
(* an update of the schedule that read the clock before the claim wrote     *)
(* next_run_at after it.                                                    *)
OneRunPerFiring ==
    \A r, s \in Runs :
      r # s /\ firing[r] # 0 /\ firing[r] = firing[s] => firing[r] \in rearmed

(* A send is a row of the log once its worker is done with the run, unless  *)
(* the store failed, the process ended in between, or an update replaced    *)
(* the target while the run was being delivered to it.                      *)
SendsAreLogged ==
    \A r \in Runs :
      ~InHand(r) /\ Len(log[r]) < sends[r] =>
        errors > 0 \/ crashes > 0 \/ schedule.target > 0

(* A queued run is on its way to a worker.  The exceptions are all there is *)
(* that strands one, for nothing ever looks for a queued row again: the     *)
(* queue was full, a store call failed, or the process was told to end.     *)
QueuedIsUnderWay ==
    \A r \in Runs :
      run[r] = "queued" =>
        \/ r \in submitting \/ InHand(r) \/ \E i \in DOMAIN queue : queue[i] = r
        \/ r \in refused \/ errors > 0 \/ ~Up \/ crashes > 0
=============================================================================
