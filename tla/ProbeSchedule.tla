---------------------------- MODULE ProbeSchedule ----------------------------
(***************************************************************************)
(* When the probe checks: the heap (internal/probe/scheduler.go), the loop *)
(* that pops it and the workers that put tasks back (internal/probe/       *)
(* execute.go), against the assignment stream that drops and pushes tasks  *)
(* at any moment (applyFullSet and applyDelta, internal/probe/watch.go).   *)
(* Each lock is held for one step; between two of them anything may run.   *)
(*                                                                         *)
(* Times are relative: a task says how far off it is due, and the clock    *)
(* turns in a cycle that every interval divides, so that time never ends.  *)
(* An update leaves interval and retries as they were.                     *)
(***************************************************************************)
EXTENDS Integers, FiniteSets

CONSTANTS
    Monitors,
    Interval,       \* Interval[m]: interval_seconds
    Offset,         \* Offset[m]: hash(monitor_id) mod interval
    Retries,        \* retries
    RetryInterval,  \* retry_interval_seconds
    Cycle,          \* a multiple of every interval
    MaxConcurrent,  \* Session.maxConcurrent
    MaxApplies,     \* bound: assignment updates applied
    MaxLag          \* bound: how far a task runs past its due time

ProbeScheduleAssumption ==
    /\ Interval \in [Monitors -> Nat \ {0}]
    /\ Offset \in [Monitors -> Nat]
    /\ \A m \in Monitors : Offset[m] < Interval[m] /\ Cycle % Interval[m] = 0
    /\ Retries \in Nat /\ RetryInterval \in Nat \ {0} /\ Cycle \in Nat \ {0}
    /\ MaxConcurrent \in Nat /\ MaxApplies \in Nat /\ MaxLag \in Nat

VARIABLES
    clock,     \* the time, modulo Cycle
    assigned,  \* the keys of Session.assignments
    heap,      \* scheduler.queue
    hand,      \* the task the loop has popped, or NoTask
    stage,     \* what the loop does with it: "idle", "look" or "shed"
    running,   \* tasks whose check a worker is running
    toDrop,    \* monitors the assignment stream has still to drop
    toPush,    \* tasks it has still to push, due as of the time it read
    applies    \* updates applied; names the chains of tasks below

vars == <<clock, assigned, heap, hand, stage, running, toDrop, toPush, applies>>

\* A task; chain tells tasks apart that would otherwise be equal, and stays
\* with a task when it is rescheduled.  late is its lateness when popped, and
\* retried, for the properties, says that its chain has had a retry.
Task   == [monitor : Monitors, wait : Int, attempt : Nat, chain : Nat, late : Int,
           retried : BOOLEAN]
NoTask == [monitor |-> "none"]

\* Every variable has its type, and the worker pool is never overdrawn.
TypeOK ==
    /\ clock \in 0 .. Cycle - 1
    /\ assigned \subseteq Monitors
    /\ heap \subseteq Task /\ running \subseteq Task
    /\ hand \in Task \cup {NoTask}
    /\ stage \in {"idle", "look", "shed"}
    /\ hand = NoTask <=> stage = "idle"
    /\ Cardinality(running) <= MaxConcurrent
    /\ toDrop \subseteq Monitors /\ toPush \subseteq Task
    /\ applies \in Nat

Init ==
    /\ clock = 0 /\ assigned = {} /\ heap = {} /\ hand = NoTask /\ stage = "idle"
    /\ running = {} /\ toDrop = {} /\ toPush = {} /\ applies = 0

-----------------------------------------------------------------------------
(* Due times *)

\* firstDue: the next instant of the monitor's phase, strictly after now.
FirstWait(m) ==
    LET ahead == (Offset[m] - clock) % Interval[m] IN
    IF ahead = 0 THEN Interval[m] ELSE ahead

\* The next regular check: an interval after this one was due, or the next
\* instant of the phase if that is past.
NextWait(t) ==
    LET next == t.wait + Interval[t.monitor] IN
    IF next < 0 THEN FirstWait(t.monitor) ELSE next

MutRescheduled(t, outcome) ==
    IF outcome = "skipped" THEN {}
    ELSE {[t EXCEPT !.wait = NextWait(t), !.attempt = 1, !.late = 0]}

\* reschedule: what a finished task becomes.
Rescheduled(t, outcome) ==
    IF outcome = "down" /\ t.attempt <= Retries
    THEN {[t EXCEPT !.wait = RetryInterval, !.attempt = @ + 1, !.late = 0,
                     !.retried = TRUE]}
    ELSE {[t EXCEPT !.wait = NextWait(t), !.attempt = 1, !.late = 0]}

-----------------------------------------------------------------------------
(* The loop and the workers *)

\* pop: the earliest task, once it is due.
Pop ==
    /\ stage = "idle"
    /\ \E t \in heap :
          /\ t.wait <= 0
          /\ \A u \in heap : t.wait <= u.wait
          /\ heap' = heap \ {t}
          /\ hand' = [t EXCEPT !.late = -t.wait]
    /\ stage' = "look"
    /\ UNCHANGED <<clock, assigned, running, toDrop, toPush, applies>>

\* Unassigned between scheduling and now: the task goes.
Discard ==
    /\ stage = "look" /\ hand.monitor \notin assigned
    /\ hand' = NoTask /\ stage' = "idle"
    /\ UNCHANGED <<clock, assigned, heap, running, toDrop, toPush, applies>>

PoolFull == Cardinality(running) >= MaxConcurrent

\* Past half its interval, or with no worker free, a check is not run.
MustShed == 2 * hand.late > Interval[hand.monitor] \/ PoolFull

Start ==
    /\ stage = "look" /\ hand.monitor \in assigned /\ ~MustShed
    /\ running' = running \cup {hand}
    /\ hand' = NoTask /\ stage' = "idle"
    /\ UNCHANGED <<clock, assigned, heap, toDrop, toPush, applies>>

DecideToShed ==
    /\ stage = "look" /\ hand.monitor \in assigned /\ MustShed
    /\ stage' = "shed"
    /\ UNCHANGED <<clock, assigned, heap, hand, running, toDrop, toPush, applies>>

\* shed: a skipped result, and the task goes back.
Shed ==
    /\ stage = "shed"
    /\ heap' = heap \cup Rescheduled(hand, "skipped")
    /\ hand' = NoTask /\ stage' = "idle"
    /\ UNCHANGED <<clock, assigned, running, toDrop, toPush, applies>>

\* A check ends: its result is emitted and its task goes back, whether or not
\* the monitor is still assigned.
Complete(t, outcome) ==
    /\ running' = running \ {t}
    /\ heap' = heap \cup Rescheduled(t, outcome)
    /\ UNCHANGED <<clock, assigned, hand, stage, toDrop, toPush, applies>>

-----------------------------------------------------------------------------
(* The assignment stream *)

Applying == toDrop # {} \/ toPush # {}

\* The task a monitor starts with.
FirstTask(m) ==
    [monitor |-> m, wait |-> FirstWait(m), attempt |-> 1, chain |-> applies + 1,
     late |-> 0, retried |-> FALSE]

\* An update changes the map at once, and the heap one monitor at a time.  It
\* reads the time once, so that a task may be pushed after it was due.
Apply(set, drop, push) ==
    /\ ~Applying /\ applies < MaxApplies
    /\ applies' = applies + 1
    /\ assigned' = set /\ toDrop' = drop /\ toPush' = {FirstTask(m) : m \in push}
    /\ UNCHANGED <<clock, heap, hand, stage, running>>

ApplyFullSet(set) == Apply(set, assigned, set)

ApplyAdded(m) == m \notin assigned /\ Apply(assigned \cup {m}, {}, {m})

ApplyUpdated(m) == Apply(assigned \cup {m}, {m}, {m})

\* Removed, or updated to a configuration validate refuses.
ApplyRemoved(m) == Apply(assigned \ {m}, {m}, {})

\* scheduler.drop: every task of a monitor that is in the heap.
DropTasks(m) ==
    /\ m \in toDrop /\ toDrop' = toDrop \ {m}
    /\ heap' = {t \in heap : t.monitor # m}
    /\ UNCHANGED <<clock, assigned, hand, stage, running, toPush, applies>>

\* Tasks are pushed after every drop of the same update.
MayPush(t) == t \in toPush /\ toDrop = {}

PushFirst(t) ==
    /\ MayPush(t)
    /\ toPush' = toPush \ {t}
    /\ heap' = heap \cup {t}
    /\ UNCHANGED <<clock, assigned, hand, stage, running, toDrop, applies>>

-----------------------------------------------------------------------------
Aged(t) == [t EXCEPT !.wait = @ - 1]

\* Time passes, as long as no task falls too far behind.
Tick ==
    /\ \A t \in heap \cup running \cup toPush : t.wait > -MaxLag
    /\ stage # "idle" => hand.wait > -MaxLag
    /\ clock' = (clock + 1) % Cycle
    /\ heap' = {Aged(t) : t \in heap}
    /\ running' = {Aged(t) : t \in running}
    /\ toPush' = {Aged(t) : t \in toPush}
    /\ hand' = IF stage = "idle" THEN hand ELSE Aged(hand)
    /\ UNCHANGED <<assigned, stage, toDrop, applies>>

Outcomes == {"up", "down", "unknown"}

Next ==
    \/ Tick
    \/ Pop \/ Discard \/ Start \/ DecideToShed \/ Shed
    \/ \E t \in running, o \in Outcomes : Complete(t, o)
    \/ \E set \in SUBSET Monitors : ApplyFullSet(set)
    \/ \E m \in Monitors :
          ApplyAdded(m) \/ ApplyUpdated(m) \/ ApplyRemoved(m) \/ DropTasks(m)
    \/ \E t \in toPush : PushFirst(t)

Spec == Init /\ [][Next]_vars

\* Time passes, the goroutines run, and every check ends: it has a timeout.
Fairness ==
    /\ WF_vars(Tick) /\ WF_vars(Pop) /\ WF_vars(Discard) /\ WF_vars(Start)
    /\ WF_vars(DecideToShed) /\ WF_vars(Shed)
    /\ WF_vars(\E t \in running, o \in Outcomes : Complete(t, o))
    /\ WF_vars(\E m \in Monitors : DropTasks(m))
    /\ WF_vars(\E t \in toPush : PushFirst(t))

FairSpec == Spec /\ Fairness

-----------------------------------------------------------------------------
(* Properties *)

\* The tasks of m, wherever they are.
Tasks(m) == {t \in heap \cup running \cup (IF stage = "idle" THEN {} ELSE {hand}) : t.monitor = m}

\* No monitor is forgotten: between updates, every assigned monitor has a task
\* in the heap, in the loop's hands or with a worker, whatever updates, drops
\* and reschedules interleaved (schedule, reschedule, applyDelta, drop).
AssignedIsScheduled == ~Applying => \A m \in assigned : Tasks(m) # {}

\* Regular checks stay on their monitor's phase, hash(monitor_id) mod interval,
\* through late, shed and slow checks; only a retry takes a chain of tasks off it
\* (firstDue, reschedule).
PhaseKept ==
    \A t \in heap \cup toPush : ~t.retried =>
        (clock + t.wait - Offset[t.monitor]) % Interval[t.monitor] = 0

\* An assigned monitor comes up again and again, even through overload: its
\* tasks are never lost for good (schedule, shed, reschedule).
KeepsComingUp ==
    \A m \in Monitors : []<>(m \in assigned =>
        \/ \E t \in running : t.monitor = m
        \/ stage # "idle" /\ hand.monitor = m)

\* What interval_seconds means ("Seconds between checks"): a monitor is not
\* checked twice at the same time.
OneCheckAtATime == \A t, u \in running : t.monitor = u.monitor => t = u
=============================================================================
