----------------------------- MODULE Assigning ------------------------------
(***************************************************************************)
(* The assignments of monitors to a probe (AssignmentSync), under the      *)
(* names by which the run of the pipelines and the proofs refer to them.   *)
(***************************************************************************)
EXTENDS Integers, Sequences, FiniteSets

CONSTANTS
    Monitors, Bodies, Valid, NoBody, ChunkSize, MaxEdits, MaxFrames,
    MaxStreamDrops, MaxErrors

VARIABLES
    store, assignmentsClock, owed, edits, signal, handler, current, unsent,
    loads, wire, staging, delta, assignments, rejections, assignmentsDrops,
    assignmentsErrors, missed

Assignments == INSTANCE AssignmentSync WITH
    clock <- assignmentsClock, drops <- assignmentsDrops,
    errors <- assignmentsErrors, MaxInFlight <- MaxFrames,
    MaxDrops <- MaxStreamDrops

\* Between two messages a probe runs one set the store had at some instant, and
\* while it applies a delta the monitors still to come are as in the set before
\* and the others as in the set after, never a third (watch.go, applyFullSet,
\* applyDelta).
HoldsASnapshot == Assignments!HoldsASnapshot
=============================================================================
