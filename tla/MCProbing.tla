----------------------------- MODULE MCProbing ------------------------------
(***************************************************************************)
(* What a probe does: the schedule of its checks (ProbeSchedule), the      *)
(* checkers and what they conclude (Checks) and the registrations it looks *)
(* up (DomainLookup), the last two through Lookups. A behaviour takes the  *)
(* steps of one component; the others keep their initial state.            *)
(*                                                                         *)
(* A frequent monitor and a rarer one: two updates against one worker,     *)
(* with retries.                                                           *)
(***************************************************************************)
EXTENDS Lookups

CONSTANTS
    Parts,   \* the components whose behaviours a run explores
    often, seldom, d1, a1, a2,
    ScheduleRetries, MaxConcurrent, MaxLag   \* of the schedule

VARIABLES
    part,    \* the component whose steps this behaviour takes
    clock, assigned, heap, hand, stage, running, toDrop, toPush, applies

MCMonitors == {often, seldom}
MCInterval == [m \in MCMonitors |-> IF m = often THEN 1 ELSE 2]
MCOffset   == [m \in MCMonitors |-> IF m = often THEN 0 ELSE 1]

-----------------------------------------------------------------------------
(* The components *)

Schedule == INSTANCE ProbeSchedule WITH
    Monitors <- MCMonitors, Interval <- MCInterval, Offset <- MCOffset,
    Retries <- ScheduleRetries, RetryInterval <- 1, Cycle <- 2,
    MaxApplies <- 2

ASSUME Lookup!DomainAssumption
ASSUME Schedule!ProbeScheduleAssumption

scheduleVars == <<clock, assigned, heap, hand, stage, running, toDrop, toPush,
                  applies>>
checksVars == <<job, ctx, left, sockets, out>>

lookupVars == <<registered, changes, now, cache, table, at>>

AnyVars == <<part, lookupVars, scheduleVars, checksVars>>

AnyInit ==
    /\ part \in Parts
    /\ Lookup!Init
    /\ Schedule!Init
    /\ Checkers!Init

DomainsStep ==
    /\ part = "domains" /\ Lookup!Next
    /\ UNCHANGED <<part, scheduleVars, checksVars>>

ScheduleStep ==
    /\ part = "schedule" /\ Schedule!Next
    /\ UNCHANGED <<part, lookupVars, checksVars>>

CheckersStep ==
    /\ part = "checks" /\ Checkers!Next
    /\ UNCHANGED <<part, lookupVars, scheduleVars>>

AnyNext ==
    \/ DomainsStep \/ ScheduleStep \/ CheckersStep

AnySpec == AnyInit /\ [][AnyNext]_AnyVars

\* The fairness of the component that runs, as its module states it.
AnyFairSpec ==
    /\ AnySpec
    /\ WF_scheduleVars(part = "schedule" /\ Schedule!Tick)
    /\ WF_scheduleVars(part = "schedule" /\ Schedule!Pop)
    /\ WF_scheduleVars(part = "schedule" /\ Schedule!Discard)
    /\ WF_scheduleVars(part = "schedule" /\ Schedule!Start)
    /\ WF_scheduleVars(part = "schedule" /\ Schedule!DecideToShed)
    /\ WF_scheduleVars(part = "schedule" /\ Schedule!Shed)
    /\ WF_scheduleVars(part = "schedule" /\ (\E t \in running, o \in Schedule!Outcomes : Schedule!Complete(t, o)))
    /\ WF_scheduleVars(part = "schedule" /\ (\E m \in MCMonitors : Schedule!DropTasks(m)))
    /\ WF_scheduleVars(part = "schedule" /\ (\E t \in toPush : Schedule!PushFirst(t)))

-----------------------------------------------------------------------------
(* Properties *)

\* An assigned monitor comes up again and again, even through overload
\* (scheduler.go, execute.go).
KeepsComingUp == Schedule!KeepsComingUp

\* What interval_seconds means ("Seconds between checks"): a monitor is not
\* checked twice at the same time (scheduler.go, Apply).
OneCheckAtATime == Schedule!OneCheckAtATime
=============================================================================
