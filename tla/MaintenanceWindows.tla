------------------------- MODULE MaintenanceWindows -------------------------
(***************************************************************************)
(* Maintenance windows, from the request that writes one to the monitors   *)
(* it silences: the window's endpoints (internal/api/maintenance.go), its  *)
(* rows (internal/store/sqlite/maintenance.go), the evaluator of a         *)
(* schedule (internal/maintenance/schedule.go, internal/cron) and the      *)
(* sweep (internal/maintenance/sweep.go), which recomputes who is under    *)
(* maintenance from the windows that are due, not from all of them.        *)
(*                                                                         *)
(* A PATCH is load, validate, write; a sweep reads the due windows, stores *)
(* each one's next occurrence, resolves the targets of the open ones and   *)
(* applies the result.  Every store call is one step, and between two of   *)
(* them anything may happen.                                               *)
(*                                                                         *)
(* Time is cut in ticks, Day of them to a day; a zone's clock changes, the *)
(* month field of a cron and the wording of a refusal are left out.        *)
(***************************************************************************)
EXTENDS Integers, FiniteSets, FiniteSetsExt

CONSTANTS
    Windows, Monitors,
    Targets,     \* what a window may name: monitors, groups and tags
    Requests,    \* writes of a window under way at once
    None,        \* an absent field, the null of a column
    Bodies,      \* the request bodies: [plan, suppress, targets, pages]
    Covers0,     \* Covers0[t]: the monitors target t matches at first
    Day,         \* ticks in a day
    Lookahead,   \* lookaheadDays
    MaxDuration, \* the longest occurrence validation allows
    Weekday, DayOfMonth, \* the calendar: what a day is
    MaxTime, MaxWrites, MaxMoves, MaxFailures   \* bounds

VARIABLES
    now,
    window,    \* window[w]: its row, or None
    used,      \* ids that have been handed out
    matched,   \* matched[t]: the enabled monitors target t matches, {} once it is gone
    exists,    \* the targets that exist
    silenced,  \* monitors whose suppressed_by is 'maintenance'
    req,       \* req[r]: the write r, where it is and what it holds
    sweep,     \* the sweep, the only one
    writes, moves, failures,   \* counters for the bounds
    (* For the properties; the program keeps none of it. *)
    raced,     \* windows whose next occurrence comes from a plan since replaced
    quiet      \* nothing the sweep reads has changed since it began

vars == <<now, window, used, matched, exists, silenced, req, sweep, writes,
          moves, failures, raced, quiet>>

\* A schedule, as the columns keep it; recurrence is one of them.
NoRecurrence == [weekdays |-> {}, monthdays |-> {}, cron |-> None, until |-> None]
NoPlan == [strategy |-> None, starts |-> None, ends |-> None, duration |-> None,
           recurrence |-> NoRecurrence]

NewRow == [plan |-> NoPlan, suppress |-> TRUE, targets |-> {}, pages |-> FALSE,
           next |-> None]

IdleRequest == [at |-> "idle", w |-> None, row |-> NewRow, body |-> None, fresh |-> FALSE]
IdleSweep   == [at |-> "idle", time |-> 0, todo |-> {}, copy |-> [w \in Windows |-> None],
                active |-> {}, under |-> {}]

Strategies == {"single", "daily", "weekly", "monthly", "cron"}
Instants == Nat \cup {None}

\* What a column may hold, the null of it included.
CronFits(cron) == cron # None => cron.clocks \subseteq 0 .. Day - 1
Fits(f, v) ==
    CASE f = "strategy" -> v \in Strategies \cup {None}
      [] f = "recurrence" -> v # None => v.until \in Instants /\ CronFits(v.cron)
      [] OTHER -> v \in Instants

\* The calendar has every day there is; the walk reaches past the day it begins
\* on; and a body's fields are of their types.
MaintenanceWindowsAssumption ==
    /\ Day \in Nat \ {0} /\ MaxTime \in Nat
    /\ Lookahead \in Nat /\ Lookahead >= 2
    /\ DOMAIN Weekday \subseteq Nat /\ 0 .. MaxTime \div Day \subseteq DOMAIN Weekday
    /\ None \notin Nat \cup BOOLEAN \cup Strategies
    /\ \A b \in Bodies :
          /\ \A f \in DOMAIN NoPlan \cap DOMAIN b.plan : Fits(f, b.plan[f])
          /\ b.suppress \in BOOLEAN \cup {None}

\* Every variable has its type.
TypeOK ==
    /\ now \in 0 .. MaxTime
    /\ used \subseteq Windows /\ raced \subseteq Windows
    /\ \A w \in Windows : window[w] # None => w \in used
    /\ matched \in [Targets -> SUBSET Monitors] /\ exists \subseteq Targets
    /\ silenced \subseteq Monitors
    /\ \A r \in Requests : req[r].at \in {"idle", "loaded", "checked"}
    /\ sweep.at \in {"idle", "next", "apply"}
    /\ quiet \in BOOLEAN

Init ==
    /\ now = 0
    /\ window = [w \in Windows |-> None] /\ used = {}
    /\ matched = Covers0 /\ exists = Targets /\ silenced = {}
    /\ req = [r \in Requests |-> IdleRequest]
    /\ sweep = IdleSweep
    /\ writes = 0 /\ moves = 0 /\ failures = 0
    /\ raced = {} /\ quiet = FALSE

-----------------------------------------------------------------------------
(* internal/cron *)

\* parseField: a list of parts, each a range with a step.  A bare star is the
\* whole range and restricts nothing.
FieldSet(parts) == UNION {{v \in p.from .. p.to : (v - p.from) % p.step = 0} : p \in parts}
Restricted(parts) == \E p \in parts : ~p.star \/ p.step > 1

\* MatchesDay: two restricted day fields are a union.
CronDay(e, d) ==
    LET dom == DayOfMonth[d] \in FieldSet(e.dom)
        dow == Weekday[d] \in FieldSet(e.dow)
    IN  IF Restricted(e.dom) /\ Restricted(e.dow) THEN dom \/ dow
        ELSE /\ Restricted(e.dom) => dom
             /\ Restricted(e.dow) => dow

-----------------------------------------------------------------------------
(* internal/maintenance/schedule.go *)

DayOf(t) == t \div Day

\* dayMatcher, where it does not refuse the window.
Matches(p, d) ==
    CASE p.strategy = "daily"   -> TRUE
      [] p.strategy = "weekly"  -> Weekday[d] \in p.recurrence.weekdays
      [] p.strategy = "monthly" -> DayOfMonth[d] \in p.recurrence.monthdays
      [] p.strategy = "cron"    -> CronDay(p.recurrence.cron, d)

\* startTimes: the anchor's time of day, except for a cron.
StartTimes(p) == IF p.strategy = "cron" THEN p.recurrence.cron.clocks ELSE {p.starts % Day}

\* The schedules Next returns an error for.
Unusable(p) ==
    /\ p.strategy # "single"
    /\ \/ p.duration = None
       \/ p.strategy = "weekly" /\ p.recurrence.weekdays = {}
       \/ p.strategy = "monthly" /\ p.recurrence.monthdays = {}
       \/ p.strategy = "cron" /\ p.recurrence.cron = None

\* singleEnd.
SingleEnd(p) ==
    IF p.ends # None THEN p.ends
    ELSE IF p.duration # None THEN p.starts + p.duration ELSE p.starts

End(p, start) == IF p.strategy = "single" THEN SingleEnd(p) ELSE start + p.duration

\* The walk begins the day before the later of the anchor and the cursor.
WalkFrom(p, t) == DayOf(Max({p.starts, t})) - 1

\* The starts the walk visits, in order.
Walked(p, t) ==
    {s \in {d * Day + c : d \in {e \in WalkFrom(p, t) .. WalkFrom(p, t) + Lookahead - 1 :
                                     e >= 0 /\ Matches(p, e)},
                          c \in StartTimes(p)} : s >= p.starts}

Past(p, s) == p.recurrence.until # None /\ s > p.recurrence.until

\* Next: the start of the first occurrence that has not finished by t, or None.
\* The walk stops at the first start past until.
NextStart(p, t) ==
    IF p.strategy = "single"
    THEN IF SingleEnd(p) > t THEN p.starts ELSE None
    ELSE LET stops == {s \in Walked(p, t) : Past(p, s) \/ s + p.duration > t} IN
         IF stops = {} THEN None
         ELSE IF Past(p, Min(stops)) THEN None ELSE Min(stops)

\* Covers of the occurrence Next finds: inclusive at the start, not at the end.
OpenAt(p, t) ==
    /\ ~Unusable(p) /\ NextStart(p, t) # None
    /\ NextStart(p, t) <= t /\ t < End(p, NextStart(p, t))

\* Expression.Next, the walk report schedules take over the same cron.
Firings(p, days) == {d * Day + c : d \in {e \in days : CronDay(p.recurrence.cron, e)}, c \in p.recurrence.cron.clocks}
NextFiring(p, t) ==
    LET ahead == {s \in Firings(p, DayOf(t) .. DayOf(t) + Lookahead - 1) : s > t} IN
    IF ahead = {} THEN None ELSE Min(ahead)

-----------------------------------------------------------------------------
(* The endpoints *)

Free(r) == req[r].at = "idle"

\* The body's fields over the row's.
Laid(old, new) == [f \in DOMAIN old |-> IF f \in DOMAIN new /\ new[f] # None THEN new[f] ELSE old[f]]

\* buildMaintenanceWindow without its last check.
Sound(p, targets) ==
    /\ p.strategy # None /\ p.starts # None
    /\ p.duration # None => p.duration \in 1 .. MaxDuration
    /\ IF p.strategy = "single"
       THEN /\ p.ends # None \/ p.duration # None
            /\ p.ends # None => p.ends > p.starts
       ELSE p.duration # None
    /\ targets # {}

\* ... and with it: the evaluator runs, and a recurring window must occur.
Accepted(p, targets, t) ==
    /\ Sound(p, targets)
    /\ ~Unusable(p)
    /\ p.strategy # "single" => NextStart(p, t) # None

\* The row a write stores.  next_occurrence_at is cleared; the status pages are
\* those the body names, and none when it names none.
Written(row, body) ==
    [row EXCEPT !.plan = Laid(row.plan, body.plan),
                !.suppress = IF body.suppress = None THEN @ ELSE body.suppress,
                !.targets = IF body.targets = None THEN @ ELSE body.targets,
                !.pages = body.pages = TRUE,
                !.next = None]

\* createMaintenanceWindow and updateMaintenanceWindow: the row a write starts
\* from, and its body.
Begin(r, w, row, fresh) ==
    /\ Free(r) /\ writes < MaxWrites
    /\ \E b \in Bodies :
          req' = [req EXCEPT ![r] = [at |-> "loaded", w |-> w, row |-> row, body |-> b, fresh |-> fresh]]
    /\ writes' = writes + 1
    /\ UNCHANGED <<now, window, matched, exists, silenced, sweep, moves, failures, raced, quiet>>

Create(r, w) == w \notin used /\ used' = used \cup {w} /\ Begin(r, w, NewRow, TRUE)

Load(r, w) == window[w] # None /\ UNCHANGED used /\ Begin(r, w, window[w], FALSE)

\* Validation, with MissingIDs for the targets the body names.
Validate(r) ==
    LET new == Written(req[r].row, req[r].body) IN
    /\ req[r].at = "loaded"
    /\ req' = [req EXCEPT ![r] =
           IF /\ Accepted(new.plan, new.targets, now)
              /\ req[r].body.targets # None => req[r].body.targets \subseteq exists
           THEN [@ EXCEPT !.at = "checked", !.row = new] ELSE IdleRequest]
    /\ UNCHANGED <<now, window, used, matched, exists, silenced, sweep, writes,
                   moves, failures, raced, quiet>>

\* CreateMaintenanceWindow or UpdateMaintenanceWindow: one transaction, which
\* finds no row to update when the window was deleted meanwhile.
Write(r) ==
    LET w == req[r].w IN
    /\ req[r].at = "checked"
    /\ window' = IF req[r].fresh \/ window[w] # None
                 THEN [window EXCEPT ![w] = req[r].row] ELSE window
    /\ req' = [req EXCEPT ![r] = IdleRequest]
    /\ raced' = raced \ {w}
    /\ quiet' = FALSE
    /\ UNCHANGED <<now, used, matched, exists, silenced, sweep, writes, moves, failures>>

\* deleteMaintenanceWindow: the targets cascade.
Delete(w) ==
    /\ window[w] # None /\ writes < MaxWrites
    /\ window' = [window EXCEPT ![w] = None]
    /\ writes' = writes + 1
    /\ quiet' = FALSE
    /\ UNCHANGED <<now, used, matched, exists, silenced, req, sweep, moves, failures, raced>>

\* A monitor joins or leaves a group or a tag, or is paused or resumed.
Move(t, m) ==
    /\ t \in exists /\ moves < MaxMoves
    /\ matched' = [matched EXCEPT ![t] = (@ \cup {m}) \ (@ \cap {m})]
    /\ moves' = moves + 1
    /\ quiet' = FALSE
    /\ UNCHANGED <<now, window, used, exists, silenced, req, sweep, writes, failures, raced>>

\* A target is deleted; a window keeps naming it, and it matches nothing.
DropTarget(t) ==
    /\ t \in exists /\ moves < MaxMoves
    /\ exists' = exists \ {t}
    /\ matched' = [matched EXCEPT ![t] = {}]
    /\ moves' = moves + 1
    /\ quiet' = FALSE
    /\ UNCHANGED <<now, window, used, silenced, req, sweep, writes, failures, raced>>

Tick ==
    /\ now < MaxTime /\ now' = now + 1
    /\ UNCHANGED <<window, used, matched, exists, silenced, req, sweep, writes,
                   moves, failures, raced, quiet>>

-----------------------------------------------------------------------------
(* internal/maintenance/sweep.go *)

MutDue(row, t) == row.next = None \/ row.next < t

\* DueMaintenanceWindows: never evaluated, or its next occurrence has arrived.
Due(row, t) == row.next = None \/ row.next <= t

SweepRest == <<now, used, matched, exists, req, writes, moves>>

\* A tick of the sweep, or the wake-up a write asks for: the due windows.
SweepBegins ==
    LET due == {w \in Windows : window[w] # None /\ Due(window[w], now)} IN
    /\ sweep.at = "idle"
    /\ sweep' = [IdleSweep EXCEPT !.at = "next", !.time = now, !.todo = due,
                     !.copy = [w \in Windows |-> IF w \in due THEN window[w] ELSE None]]
    /\ quiet' = TRUE
    /\ UNCHANGED <<SweepRest, window, silenced, failures, raced>>

\* One due window: Next, SetNextOccurrence, and whether it silences now.  A
\* schedule that cannot be evaluated is left as it is.
SweepWindow(w) ==
    LET p == sweep.copy[w].plan IN
    /\ sweep.at = "next" /\ w \in sweep.todo
    /\ IF Unusable(p) THEN UNCHANGED <<window, raced>>
       ELSE /\ window' = IF window[w] = None THEN window
                         ELSE [window EXCEPT ![w].next = NextStart(p, sweep.time)]
            /\ raced' = IF window[w] # None /\ window[w].plan # p
                        THEN raced \cup {w} ELSE raced \ {w}
    /\ sweep' = [sweep EXCEPT !.todo = @ \ {w},
                     !.active = IF OpenAt(p, sweep.time) /\ sweep.copy[w].suppress
                                THEN @ \cup {w} ELSE @]
    /\ UNCHANGED <<SweepRest, silenced, failures, quiet>>

\* MonitorsUnderWindows, over the targets as they are now.
SweepResolves ==
    /\ sweep.at = "next" /\ sweep.todo = {}
    /\ sweep' = [sweep EXCEPT !.at = "apply",
           !.under = UNION {matched[t] : t \in UNION {window[w].targets :
                               w \in {v \in sweep.active : window[v] # None}}}]
    /\ UNCHANGED <<SweepRest, window, silenced, failures, raced, quiet>>

\* ApplyMaintenance: the others leave.
SweepApplies ==
    /\ sweep.at = "apply"
    /\ silenced' = sweep.under
    /\ sweep' = IdleSweep
    /\ UNCHANGED <<SweepRest, window, failures, raced, quiet>>

\* A store call of the sweep fails, or the process ends under it.
SweepFails ==
    /\ sweep.at # "idle" /\ failures < MaxFailures
    /\ sweep' = IdleSweep /\ failures' = failures + 1
    /\ UNCHANGED <<SweepRest, window, silenced, raced, quiet>>

Next ==
    \/ Tick
    \/ \E r \in Requests :
          \/ \E w \in Windows : Create(r, w) \/ Load(r, w)
          \/ Validate(r) \/ Write(r)
    \/ \E w \in Windows : Delete(w) \/ SweepWindow(w)
    \/ \E t \in Targets : DropTarget(t) \/ \E m \in Monitors : Move(t, m)
    \/ SweepBegins \/ SweepResolves \/ SweepApplies \/ SweepFails

Spec == Init /\ [][Next]_vars

-----------------------------------------------------------------------------
(* Properties *)

\* What the schedule of w says, with no walk and no due set: the starts over
\* every day there is, and the windows open at t among all of them.
AllDays == DOMAIN Weekday
AllStarts(p) ==
    {s \in {d * Day + c : d \in {e \in AllDays : Matches(p, e)}, c \in StartTimes(p)} :
        s >= p.starts /\ ~Past(p, s)}
First(p, t) ==
    LET ahead == {s \in AllStarts(p) : s + p.duration > t} IN
    IF ahead = {} THEN None ELSE Min(ahead)
Running(p, t) ==
    IF p.strategy = "single" THEN p.starts <= t /\ t < SingleEnd(p)
    ELSE \E s \in AllStarts(p) : s <= t /\ t < s + p.duration

\* A window recurs, with an occurrence no longer than the day the walk looks
\* back over.
ShortRecurring(p) == p.strategy # "single" /\ p.duration <= Day

\* The occurrence Next finds is the first unfinished one of the schedule, and a
\* cron fires next at its first firing ahead: walking from the day before, the
\* stop at until, the union of the two day fields and the bound on the walk
\* lose nothing (schedule.go Next, cron.go Next and MatchesDay).
OccurrenceIsFirst ==
    \A w \in Windows : window[w] # None =>
        LET p == window[w].plan
            fires == {s \in Firings(p, AllDays) : s > now}
        IN  /\ ShortRecurring(p) => NextStart(p, now) = First(p, now)
            /\ p.strategy = "cron" => NextFiring(p, now) = IF fires = {} THEN None ELSE Min(fires)

\* The same without the restriction: what Next's own comment says of it.
NextIsFirstUnfinished ==
    \A w \in Windows :
        window[w] # None /\ window[w].plan.strategy # "single" =>
            NextStart(window[w].plan, now) = First(window[w].plan, now)

\* A window that is open is in the due set (the comments of
\* DueMaintenanceWindows and Sweep, which compute the open ones from it).
OpenIsDue ==
    \A w \in Windows : window[w] # None =>
        (OpenAt(window[w].plan, now) => Due(window[w], now))

\* The windows SuppressionFollowsSchedules leaves out: one whose next occurrence
\* an earlier sweep stored from a plan replaced under it, and one with
\* occurrences longer than a day.
Settled(w) ==
    w \notin raced /\ (window[w].plan.strategy = "single" \/ ShortRecurring(window[w].plan))

\* The monitors that a sweep should leave under maintenance.
ToBeSilenced ==
    LET open == {w \in Windows : /\ window[w] # None /\ window[w].suppress
                                 /\ Running(window[w].plan, sweep.time)}
    IN  UNION {matched[t] : t \in UNION {window[w].targets : w \in open}}

Follows ==
    (/\ sweep.at = "apply" /\ sweep'.at = "idle" /\ failures' = failures /\ quiet
     /\ \A w \in Windows : window[w] # None => Settled(w))
    => silenced' = ToBeSilenced

\* A sweep that nothing overlapped leaves under maintenance exactly the monitors
\* matched by the suppressing windows whose schedule was running when it began,
\* though it looked only at the windows that were due.
SuppressionFollowsSchedules == [][Follows]_vars

\* Every stored schedule can be evaluated, whatever mixture of an old row and a
\* partial body it came from (the sweep's "validation refuses these at the API").
StoredPlansRun ==
    \A w \in Windows : window[w] # None => ~Unusable(window[w].plan)

\* A PATCH that does not name the status pages leaves them attached.
PagesSurviveAPatch ==
    [][\A r \in Requests :
          req[r].at = "checked" /\ ~req[r].fresh /\ req[r].body.pages = None /\ Write(r)
          => \A w \in {req[r].w} : window[w] # None => window'[w].pages = window[w].pages]_vars
=============================================================================
