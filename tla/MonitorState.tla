---------------------------- MODULE MonitorState ----------------------------
(***************************************************************************)
(* What a check result does to its monitor: the state machine of ingest    *)
(* (internal/controlplane/ingest.go) and the four writers of one           *)
(* monitor_state row, which take no lock together:                         *)
(*   - ingestResults, run at once by the result stream's handler, by the   *)
(*     handler of a stream that dropped, by push and by check-now;         *)
(*   - the maintenance sweep (internal/maintenance/sweep.go);              *)
(*   - pausing and resuming (SetMonitorEnabled).                           *)
(* Every store call is one step; between two of them anything may happen.  *)
(*                                                                         *)
(* A result is known by the time of its check, which is also its heartbeat *)
(* key.  Messages, response times, certificates, state_version and the     *)
(* timestamps of the row are left out.                                     *)
(***************************************************************************)
EXTENDS Integers, Sequences, FiniteSets, FiniteSetsExt

CONSTANTS
    Monitors,
    NoMonitor,
    Parent,         \* parent_monitor_id: a monitor, or NoMonitor
    MaxDepth,       \* maxDependencyDepth
    Retries,        \* Retries[m]: failures tolerated before the verdict
    ResendAfter,    \* resend_after, 0 when off
    NotifyRecovery, \* notify_on_recovery
    Writers,        \* calls of ingestResults that may be under way at once
    BatchMax,       \* results in one batch
    MaxChecks,      \* bound: checks run
    MaxManual,      \* bound: check-now and push results among them
    MaxResends,     \* bound: batches delivered again
    MaxAbandons,    \* bound: ingests that end early, by an error or a crash
    MaxToggles,     \* bound: pauses and resumes
    MaxWindows      \* bound: window openings and closings

ASSUME MonitorStateAssumption ==
    /\ NoMonitor \notin Monitors
    /\ Parent \in [Monitors -> Monitors \cup {NoMonitor}]
    /\ Retries \in [Monitors -> Nat]
    /\ MaxDepth \in Nat /\ ResendAfter \in Nat
    /\ NotifyRecovery \in BOOLEAN
    /\ BatchMax \in Nat /\ MaxChecks \in Nat /\ MaxManual \in Nat
    /\ MaxResends \in Nat /\ MaxAbandons \in Nat
    /\ MaxToggles \in Nat /\ MaxWindows \in Nat

VARIABLES
    row,        \* monitor_state
    enabled,    \* monitors.enabled
    beats,      \* heartbeats
    alerts,     \* events published to the dispatcher
    checks,     \* the checks that ran; a check's index is its time
    delivered,  \* times of the results handed to an ingest
    window,     \* monitors targeted by a suppressing window open now
    sweep,      \* the sweep: "idle", or "apply" once targets are resolved
    under,      \* the monitors it resolved
    pc,         \* pc[w]: where the ingest w is
    todo,       \* todo[w]: results of its batch still to apply
    seen,       \* seen[w]: its map states, "unread" where it has no entry
    made,       \* made[w]: its heartbeats
    raised,     \* raised[w]: its pending alerts
    unsaved,    \* unsaved[w]: monitors it has still to save
    resends, abandons, toggles, turns, manual,   \* counters for the bounds
    (* For the properties; the program keeps none of it. *)
    forgotten   \* monitors with a pending alert an abandoned ingest held

ingestVars == <<pc, todo, seen, made, raised, unsaved>>
storeVars  == <<row, enabled, beats, alerts>>
sourceVars == <<checks, delivered, manual, resends>>
sweepVars  == <<window, sweep, under, turns>>
vars == <<storeVars, sourceVars, sweepVars, ingestVars, abandons, toggles,
          forgotten>>

\* OUTCOME_SKIPPED takes every branch OUTCOME_UNKNOWN takes, and is left out.
Outcomes == {"up", "down", "unknown"}
Statuses == {"up", "down", "pending", "paused", "maintenance"}
Reasons  == {"none", "dependency", "maintenance"}

Row    == [status : Statuses, failures : Nat, by : Reasons]
Unread == [status |-> "unread", failures |-> 0, by |-> "none"]
Times  == 1 .. Len(checks)
Beat   == [time : Times, status : Outcomes \cup {"maintenance"},
           important : BOOLEAN, by : Reasons]
Alert  == [time : Times, event : {"up", "down", "pending"}, resend : BOOLEAN]

StoreType ==
    /\ row \in [Monitors -> Row]
    /\ enabled \in [Monitors -> BOOLEAN]
    /\ beats \subseteq Beat
    /\ alerts \subseteq Alert
    /\ checks \in Seq([monitor : Monitors, outcome : Outcomes])
    /\ delivered \subseteq Times

SweepType ==
    /\ window \subseteq Monitors
    /\ sweep \in {"idle", "apply"}
    /\ under \subseteq Monitors
    /\ forgotten \subseteq Monitors

IngestType ==
    /\ pc \in [Writers -> {"idle", "read", "apply", "write", "save", "raise"}]
    /\ todo \in [Writers -> SUBSET Times]
    /\ seen \in [Writers -> [Monitors -> Row \cup {Unread}]]
    /\ made \in [Writers -> SUBSET Beat]
    /\ raised \in [Writers -> SUBSET Alert]
    /\ unsaved \in [Writers -> SUBSET Monitors]
    /\ \A w \in Writers : pc[w] \in {"read", "apply"} <=> todo[w] # {}

BoundType ==
    /\ resends \in Nat /\ abandons \in Nat /\ toggles \in Nat
    /\ turns \in Nat /\ manual \in Nat

\* Every variable has its type, and an ingest has results left to apply exactly
\* while it is applying them.
TypeOK == StoreType /\ SweepType /\ IngestType /\ BoundType

Init ==
    /\ row = [m \in Monitors |-> [status |-> "pending", failures |-> 0, by |-> "none"]]
    /\ enabled = [m \in Monitors |-> TRUE]
    /\ beats = {} /\ alerts = {} /\ checks = <<>> /\ delivered = {}
    /\ window = {} /\ sweep = "idle" /\ under = {}
    /\ pc = [w \in Writers |-> "idle"]
    /\ todo = [w \in Writers |-> {}]
    /\ seen = [w \in Writers |-> [m \in Monitors |-> Unread]]
    /\ made = [w \in Writers |-> {}]
    /\ raised = [w \in Writers |-> {}]
    /\ unsaved = [w \in Writers |-> {}]
    /\ resends = 0 /\ abandons = 0 /\ toggles = 0 /\ turns = 0 /\ manual = 0
    /\ forgotten = {}

-----------------------------------------------------------------------------
(* Where results come from *)

\* A scheduled check of an enabled monitor completes; its result is buffered.
Check(m, o) ==
    /\ enabled[m]
    /\ Len(checks) < MaxChecks
    /\ checks' = Append(checks, [monitor |-> m, outcome |-> o])
    /\ UNCHANGED <<storeVars, delivered, manual, resends, sweepVars, ingestVars,
                   abandons, toggles, forgotten>>

\* ingestResults starts on a batch, with no states read yet.
Start(w, batch) ==
    /\ pc[w] = "idle"
    /\ pc' = [pc EXCEPT ![w] = "read"]
    /\ todo' = [todo EXCEPT ![w] = batch]
    /\ delivered' = delivered \cup batch
    /\ UNCHANGED <<storeVars, sweepVars, seen, made, raised, unsaved, abandons,
                   toggles, forgotten>>

\* The next batch arrives: the oldest results not delivered yet.
Deliver(w) ==
    LET fresh == Times \ delivered IN
    /\ \E batch \in (SUBSET fresh) \ {{}} :
          /\ Cardinality(batch) <= BatchMax
          /\ \A t \in batch, u \in fresh \ batch : t < u
          /\ Start(w, batch)
    /\ UNCHANGED <<checks, manual, resends>>

\* A batch that was not acknowledged, or only partly, arrives again.
Redeliver(w) ==
    /\ resends < MaxResends
    /\ \E batch \in (SUBSET delivered) \ {{}} :
          Cardinality(batch) <= BatchMax /\ Start(w, batch)
    /\ resends' = resends + 1
    /\ UNCHANGED <<checks, manual>>

\* RecordCheck, PushHeartbeat and SweepPush ingest one result of their own,
\* whether or not the monitor is enabled (check-now does not ask).
CheckNow(w, m, o) ==
    /\ Len(checks) < MaxChecks /\ manual < MaxManual
    /\ checks' = Append(checks, [monitor |-> m, outcome |-> o])
    /\ Start(w, {Len(checks) + 1})
    /\ manual' = manual + 1
    /\ UNCHANGED resends

-----------------------------------------------------------------------------
(* The decision: apply, suppression *)

\* The chain walked by ancestorUnavailable, cut at maxDependencyDepth.
Ancestors(m) ==
    LET at[d \in 1 .. MaxDepth] ==
            IF d = 1 THEN Parent[m]
            ELSE IF at[d - 1] = NoMonitor THEN NoMonitor ELSE Parent[at[d - 1]]
    IN  {at[d] : d \in 1 .. MaxDepth} \ {NoMonitor}

\* The batch's own states come before the stored row.
StatusSeen(w, m) ==
    IF seen[w][m] # Unread THEN seen[w][m].status ELSE row[m].status

AncestorUnavailable(w, m) ==
    \E p \in Ancestors(m) : StatusSeen(w, p) \in {"down", "maintenance"}

\* suppression.
SuppressedBy(w, m) ==
    IF seen[w][m].by = "maintenance" THEN "maintenance"
    ELSE IF AncestorUnavailable(w, m) THEN "dependency" ELSE "none"

MutVerdict(m, failures) == IF failures >= Retries[m] THEN "down" ELSE "pending"

\* The verdict on this many consecutive failures of m.
Verdict(m, failures) == IF failures > Retries[m] THEN "down" ELSE "pending"

\* apply: the state after a result.  Under maintenance the verdict and the
\* count are frozen; unknown and skipped never move them.
Applied(m, s, outcome, by) ==
    IF by = "maintenance" THEN [s EXCEPT !.status = "maintenance"]
    ELSE IF outcome = "up" THEN [status |-> "up", failures |-> 0, by |-> by]
    ELSE IF outcome = "down"
         THEN [status |-> Verdict(m, s.failures + 1), failures |-> s.failures + 1, by |-> by]
         ELSE [s EXCEPT !.by = by]

\* A transition, as opposed to a result that repeats the verdict.
Important(s, n, by) == by # "maintenance" /\ n.status # s.status

ShouldResend(m, n) ==
    LET since == n.failures - (Retries[m] + 1) IN
    /\ ResendAfter > 0 /\ n.status = "down"
    /\ since > 0 /\ since % ResendAfter = 0

MutTransitionEvents(s, n) ==
    IF s.status = "up" THEN {n.status} \cap {"down", "pending"}
    ELSE {n.status} \cap (IF s.status = "down" /\ NotifyRecovery THEN {"up"} ELSE {})

\* The alert of a transition from s to n: down and pending always, up only as
\* a recovery from down.
TransitionEvents(s, n) ==
    {n.status} \cap ({"down", "pending"} \cup
                     (IF s.status = "down" /\ NotifyRecovery THEN {"up"} ELSE {}))

\* The alert a result raises, if any: none while suppressed, and none for a
\* repeat that is not due.
EventsOf(m, t, s, n, by) ==
    IF by # "none" THEN {}
    ELSE IF n.status # s.status
    THEN {[time |-> t, event |-> e, resend |-> FALSE] : e \in TransitionEvents(s, n)}
    ELSE {[time |-> t, event |-> e, resend |-> TRUE] :
             e \in {x \in {"down"} : ShouldResend(m, n)}}

-----------------------------------------------------------------------------
(* ingestResults *)

\* Results are taken in time order.
Current(w) == Min(todo[w])

\* GetState, unless an earlier result of the batch has read this monitor.
IngestRead(w) ==
    LET m == checks[Current(w)].monitor IN
    /\ pc[w] = "read"
    /\ pc' = [pc EXCEPT ![w] = "apply"]
    /\ seen' = IF seen[w][m] = Unread THEN [seen EXCEPT ![w][m] = row[m]] ELSE seen
    /\ UNCHANGED <<storeVars, sourceVars, sweepVars, todo, made, raised,
                   unsaved, abandons, toggles, forgotten>>

\* suppression reads the ancestors, and apply decides.
IngestApply(w) ==
    LET t  == Current(w)
        m  == checks[t].monitor
        o  == checks[t].outcome
        by == SuppressedBy(w, m)
        s  == seen[w][m]
        n  == Applied(m, s, o, by)
    IN
    /\ pc[w] = "apply"
    /\ seen' = [seen EXCEPT ![w][m] = n]
    /\ made' = [made EXCEPT ![w] = @ \cup
           {[time |-> t, status |-> IF by = "maintenance" THEN by ELSE o,
             important |-> Important(s, n, by), by |-> by]}]
    /\ raised' = [raised EXCEPT ![w] = @ \cup EventsOf(m, t, s, n, by)]
    /\ todo' = [todo EXCEPT ![w] = @ \ {t}]
    /\ pc' = [pc EXCEPT ![w] = IF todo[w] = {t} THEN "write" ELSE "read"]
    /\ UNCHANGED <<storeVars, sourceVars, sweepVars, unsaved, abandons,
                   toggles, forgotten>>

\* The monitors in the map states.
Touched(w) == {m \in Monitors : seen[w][m] # Unread}

\* WriteBatch: one transaction; a heartbeat that is already there stays.
IngestWrite(w) ==
    /\ pc[w] = "write"
    /\ beats' = beats \cup {b \in made[w] : \A c \in beats : c.time # b.time}
    /\ unsaved' = [unsaved EXCEPT ![w] = Touched(w)]
    /\ pc' = [pc EXCEPT ![w] = "save"]
    /\ UNCHANGED <<row, enabled, alerts, sourceVars, sweepVars, todo, seen,
                   made, raised, abandons, toggles, forgotten>>

MutSaved(r, s) == s

MutSavedReason(r, s) ==
    IF r.by = "maintenance" THEN [s EXCEPT !.status = "maintenance"] ELSE s

\* SaveState's two CASE expressions: a row the sweep put in maintenance keeps
\* its status and its reason, and takes the rest.
Saved(r, s) == IF r.by = "maintenance" THEN [r EXCEPT !.failures = s.failures] ELSE s

\* SaveState, one monitor at a time, in any order (states is a map).
IngestSave(w) ==
    /\ pc[w] = "save"
    /\ \E m \in unsaved[w] :
          /\ row' = [row EXCEPT ![m] = Saved(@, seen[w][m])]
          /\ unsaved' = [unsaved EXCEPT ![w] = @ \ {m}]
          /\ pc' = [pc EXCEPT ![w] = IF unsaved[w] = {m} THEN "raise" ELSE "save"]
    /\ UNCHANGED <<enabled, beats, alerts, sourceVars, sweepVars, todo, seen,
                   made, raised, abandons, toggles, forgotten>>

\* The ingest is over: its local state goes.
Finish(w) ==
    /\ pc' = [pc EXCEPT ![w] = "idle"]
    /\ todo' = [todo EXCEPT ![w] = {}]
    /\ seen' = [seen EXCEPT ![w] = [m \in Monitors |-> Unread]]
    /\ made' = [made EXCEPT ![w] = {}]
    /\ raised' = [raised EXCEPT ![w] = {}]
    /\ unsaved' = [unsaved EXCEPT ![w] = {}]

\* raise: the alerts are published, with heartbeats and states durable.
IngestRaise(w) ==
    /\ pc[w] = "raise"
    /\ alerts' = alerts \cup raised[w]
    /\ Finish(w)
    /\ UNCHANGED <<row, enabled, beats, sourceVars, sweepVars, abandons,
                   toggles, forgotten>>

\* The ingest ends where it is: a read, WriteBatch or SaveState returned an
\* error, or the process stopped.  Nothing it saved is undone.
Abandon(w) ==
    /\ pc[w] # "idle" /\ abandons < MaxAbandons
    /\ abandons' = abandons + 1
    /\ forgotten' = forgotten \cup {checks[a.time].monitor : a \in raised[w]}
    /\ Finish(w)
    /\ UNCHANGED <<storeVars, sourceVars, sweepVars, toggles>>

-----------------------------------------------------------------------------
(* The other writers *)

\* SetMonitorEnabled: pausing and resuming leave a monitor in maintenance
\* there, and reset the count either way.
SetMonitorEnabled(m, e) ==
    /\ toggles < MaxToggles
    /\ toggles' = toggles + 1
    /\ enabled' = [enabled EXCEPT ![m] = e]
    /\ row' = [row EXCEPT ![m] =
          [status |-> IF @.by = "maintenance" THEN "maintenance"
                      ELSE IF e THEN "pending" ELSE "paused",
           failures |-> 0, by |-> @.by]]
    /\ UNCHANGED <<beats, alerts, sourceVars, sweepVars, ingestVars, abandons,
                   forgotten>>

\* The clock opens or closes a suppressing window on m, or the operator
\* creates, cancels or deletes one.
TurnWindow(m) ==
    /\ turns < MaxWindows
    /\ turns' = turns + 1
    /\ window' = IF m \in window THEN window \ {m} ELSE window \cup {m}
    /\ UNCHANGED <<storeVars, sourceVars, sweep, under, ingestVars,
                   abandons, toggles, forgotten>>

\* Sweep: the open windows, then MonitorsUnderWindows, which skips disabled
\* monitors.
SweepResolve ==
    /\ sweep = "idle"
    /\ sweep' = "apply"
    /\ under' = {m \in window : enabled[m]}
    /\ UNCHANGED <<storeVars, sourceVars, window, turns, ingestVars,
                   abandons, toggles, forgotten>>

Enters(m) == m \in under /\ row[m].status # "paused" /\ row[m].by # "maintenance"

MutLeaves(m) == under # {} /\ m \notin under /\ row[m].by = "maintenance"

Leaves(m) == m \notin under /\ row[m].by = "maintenance"

\* ApplyMaintenance: one transaction that only touches rows whose reason is, or
\* becomes, maintenance.
SweepApply ==
    /\ sweep = "apply"
    /\ sweep' = "idle" /\ under' = {}
    /\ row' = [m \in Monitors |->
          IF Enters(m) THEN [row[m] EXCEPT !.status = "maintenance", !.by = "maintenance"]
          ELSE IF Leaves(m) THEN [row[m] EXCEPT !.status = "pending", !.by = "none"]
          ELSE row[m]]
    /\ UNCHANGED <<enabled, beats, alerts, sourceVars, window, turns,
                   ingestVars, abandons, toggles, forgotten>>

-----------------------------------------------------------------------------
Ingest(w) ==
    \/ IngestRead(w) \/ IngestApply(w) \/ IngestWrite(w) \/ IngestSave(w)
    \/ IngestRaise(w)

Next ==
    \/ \E m \in Monitors, o \in Outcomes : Check(m, o)
    \/ \E w \in Writers, m \in Monitors, o \in Outcomes : CheckNow(w, m, o)
    \/ \E w \in Writers : Deliver(w) \/ Redeliver(w) \/ Ingest(w) \/ Abandon(w)
    \/ \E m \in Monitors, e \in BOOLEAN : SetMonitorEnabled(m, e)
    \/ \E m \in Monitors : TurnWindow(m)
    \/ SweepResolve \/ SweepApply

Spec == Init /\ [][Next]_vars

\* A started ingest goes on, and the sweep's ticker keeps ticking.
FairSpec ==
    /\ Spec
    /\ WF_vars(SweepResolve) /\ WF_vars(SweepApply)
    /\ \A w \in Writers : WF_vars(Ingest(w))

-----------------------------------------------------------------------------
(* Properties *)

MonitorOf(t) == checks[t].monitor

\* A row, stored or read, is in maintenance exactly when that is its reason:
\* neither SaveState, nor SetMonitorEnabled, nor ApplyMaintenance, in any
\* order, leaves one column without the other.
MaintenanceTagged ==
    LET Agrees(r) == r.status = "maintenance" <=> r.by = "maintenance" IN
    /\ \A m \in Monitors : Agrees(row[m])
    /\ \A w \in Writers, m \in Monitors : Agrees(seen[w][m])

\* A stored verdict agrees with the stored count whatever ingests overlapped
\* (apply, SaveState): down only past the retries, up only with no failures.
VerdictMatchesCount ==
    \A m \in Monitors :
        /\ row[m].status = "down" => row[m].failures > Retries[m]
        /\ row[m].status = "up" => row[m].failures = 0

\* A check in flight cannot drag a monitor out of a window (SaveState's CASE
\* expressions, SetMonitorEnabled): only the sweep ends maintenance.
OnlySweepLeavesMaintenance ==
    [][\A m \in Monitors :
          row[m].status = "maintenance" /\ row'[m].status # "maintenance"
             => sweep = "apply" /\ m \notin under]_vars

\* Without redelivery, the count of consecutive failures never exceeds the
\* failures in the history (apply, WriteBatch before SaveState).
CountIsWitnessed ==
    \A m \in Monitors :
        row[m].failures <=
            Cardinality({b \in beats : MonitorOf(b.time) = m /\ b.status = "down"})

\* Without redelivery, every published alert can be looked up: its heartbeat is
\* stored, is not suppressed, and is marked important unless the alert repeats
\* an earlier one (ingestResults: raise comes after WriteBatch).
AlertIsRecorded ==
    \A a \in alerts : \E b \in beats :
        /\ b.time = a.time /\ b.by = "none"
        /\ a.resend \/ b.important

\* Monitors whose down is on its way to being told, was told, or was withheld.
Told == {MonitorOf(a.time) : a \in {x \in alerts : x.event = "down"}}
Telling ==
    {m \in Monitors : \E w \in Writers : \E a \in raised[w] :
                         MonitorOf(a.time) = m /\ a.event = "down"}
Withheld == {MonitorOf(b.time) : b \in {x \in beats : x.by = "dependency"}}

\* Without redelivery, a monitor is down with nobody told only if a dependency
\* withheld the alert or an ingest was abandoned between its first save and
\* raise (ingestResults).  A redelivered result can be counted a second time,
\* suppressed then, and find its heartbeat stored unsuppressed already.
DownIsTold ==
    \A m \in Monitors :
        row[m].status = "down" => m \in Told \cup Telling \cup Withheld \cup forgotten

\* When a window closes for good, its monitors leave maintenance for good, even
\* if a stale ingest writes maintenance back after the sweep (Sweep, SaveState).
MaintenanceEnds ==
    \A m \in Monitors :
        <>[](m \notin window) => <>[](row[m].status # "maintenance")
=============================================================================
