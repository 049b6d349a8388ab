---------------------------- MODULE MCPipelines -----------------------------
(***************************************************************************)
(* What must arrive: results, with the ids they carry (ResultIds), from a  *)
(* probe to the store (ResultDelivery), monitors from the store to a probe *)
(* (AssignmentSync, through Assigning), and the files of a report on disk  *)
(* and off it again (ReportArtifacts). They share no state, so a behaviour *)
(* takes the steps of one and the others keep their initial state.         *)
(*                                                                         *)
(* Two callers whose ids come round; one emitter and no failing ingest, so *)
(* that results enter the buffer in order; full sets in two chunks, with a *)
(* drop and a store error; two workers, two runs of a format each, a       *)
(* failing call and a crash.                                               *)
(***************************************************************************)
EXTENDS ResultIds, Assigning

CONSTANTS
    Parts,   \* the components whose behaviours a run explores
    e1, m1, m2, good, bad, monthly, daily, pdf, csv, w1, w2, none

VARIABLES
    part,    \* the component whose steps this behaviour takes
    nextId, hand, items, sent, bytes, shed, mu, mark, stream, up, down, late,
    stray, deliveryDrops, durable, rejected, failures, failed, changed, freed,
    dropped, overtaken, top,
    artifactsProc, artifactsRun, work, artifactsRow, artifactsFile, old,
    sweep, artifactsErrors, crashes

MCAsked == [r \in {monthly, daily} |-> IF r = monthly THEN {pdf} ELSE {csv}]

-----------------------------------------------------------------------------
(* The components *)

Delivery == INSTANCE ResultDelivery WITH
    drops <- deliveryDrops, Emitters <- {e1}, MaxItems <- 2, MaxBytes <- 9,
    Sizes <- {1}, BatchMax <- 1, MaxResults <- 2, MaxInFlight <- 2,
    MaxDrops <- 1, MaxFailures <- 0
Artifacts == INSTANCE ReportArtifacts WITH
    proc <- artifactsProc, run <- artifactsRun, row <- artifactsRow,
    file <- artifactsFile, errors <- artifactsErrors,
    Runs <- {monthly, daily}, Formats <- {pdf, csv}, Asked <- MCAsked,
    Workers <- {w1, w2}, SweepBatch <- 2, MaxErrors <- 1, MaxCrashes <- 1,
    NoRun <- none, NoFormat <- none

ASSUME Assignments!AssignmentSyncAssumption
ASSUME Artifacts!ReportAssumption

deliveryVars == <<nextId, hand, items, sent, bytes, shed, mu, mark, stream,
                  up, down, late, stray, deliveryDrops, durable, rejected,
                  failures, failed, changed, freed, dropped, overtaken, top>>
assignmentsVars == <<store, assignmentsClock, owed, edits, signal, handler,
                     current, unsent, loads, wire, staging, delta,
                     assignments, rejections, assignmentsDrops, assignmentsErrors, missed>>
artifactsVars == <<artifactsProc, artifactsRun, work, artifactsRow,
                   artifactsFile, old, sweep, artifactsErrors, crashes>>

AnyVars == <<part, vars, deliveryVars, assignmentsVars, artifactsVars>>

\* Every component starts as its own module says, and one of them runs.
AnyInit ==
    /\ part \in Parts
    /\ Init
    /\ Delivery!Init
    /\ Assignments!Init
    /\ Artifacts!Init

IdsStep ==
    /\ part = "ids" /\ Next
    /\ UNCHANGED <<part, deliveryVars, assignmentsVars, artifactsVars>>

DeliveryStep ==
    /\ part = "delivery" /\ Delivery!Next
    /\ UNCHANGED <<part, vars, assignmentsVars, artifactsVars>>

AssignmentsStep ==
    /\ part = "assignments" /\ Assignments!Next
    /\ UNCHANGED <<part, vars, deliveryVars, artifactsVars>>

ArtifactsStep ==
    /\ part = "artifacts" /\ Artifacts!Next
    /\ UNCHANGED <<part, vars, deliveryVars, assignmentsVars>>

AnyNext ==
    \/ IdsStep \/ DeliveryStep \/ AssignmentsStep \/ ArtifactsStep

AnySpec == AnyInit /\ [][AnyNext]_AnyVars

\* The fairness of the component that runs, as its module states it.
AnyFairSpec ==
    /\ AnySpec
    /\ \A w \in {e1} : SF_deliveryVars(part = "delivery" /\ Delivery!AppendResult(w))
    /\ WF_deliveryVars(part = "delivery" /\ Delivery!ShedOne)
    /\ WF_deliveryVars(part = "delivery" /\ Delivery!AddReturns)
    /\ SF_deliveryVars(part = "delivery" /\ Delivery!OpenStream)
    /\ SF_deliveryVars(part = "delivery" /\ Delivery!Flush)
    /\ SF_deliveryVars(part = "delivery" /\ Delivery!ReceiveAck)
    /\ WF_deliveryVars(part = "delivery" /\ Delivery!FreeOne)
    /\ WF_deliveryVars(part = "delivery" /\ Delivery!AckReturns)
    /\ WF_deliveryVars(part = "delivery" /\ Delivery!IngestBatch)
    /\ WF_assignmentsVars(part = "assignments" /\ Assignments!Notify)
    /\ WF_assignmentsVars(part = "assignments" /\ Assignments!OpenStream)
    /\ WF_assignmentsVars(part = "assignments" /\ Assignments!LoadSet)
    /\ WF_assignmentsVars(part = "assignments" /\ Assignments!SendChunk)
    /\ WF_assignmentsVars(part = "assignments" /\ Assignments!Wake)
    /\ WF_assignmentsVars(part = "assignments" /\ Assignments!Settle)
    /\ WF_assignmentsVars(part = "assignments" /\ Assignments!Reload)
    /\ WF_assignmentsVars(part = "assignments" /\ Assignments!Reconcile)
    /\ WF_assignmentsVars(part = "assignments" /\ Assignments!ReceiveChunk)
    /\ WF_assignmentsVars(part = "assignments" /\ Assignments!ReceiveDelta)
    /\ WF_assignmentsVars(part = "assignments" /\ Assignments!ApplyOne)
    /\ WF_assignmentsVars(part = "assignments" /\ Assignments!ReceiveReconcile)
    /\ WF_assignmentsVars(part = "assignments" /\ Assignments!TakeRejections)
    /\ \A w \in {w1, w2} : WF_artifactsVars(part = "artifacts" /\ Artifacts!Step(w))
    /\ WF_artifactsVars(part = "artifacts" /\ (\E p \in Artifacts!Paths : Artifacts!GracePasses(p)))
    /\ WF_artifactsVars(part = "artifacts" /\ Artifacts!SweepStep)
    /\ WF_artifactsVars(part = "artifacts" /\ (artifactsProc = "stopping" /\ Artifacts!Exit))
    /\ WF_artifactsVars(part = "artifacts" /\ Artifacts!Restart)

-----------------------------------------------------------------------------
(* Properties *)

\* Buffer, stream and ingest together are the durable outbox of
\* protocol.md (buffer.go, results.go, ingest.go): its specification is a
\* property of the detailed one.
IsDurableOutbox == Delivery!IsDurableOutbox

\* Under fair scheduling what was emitted leaves the buffer, through a
\* dropped stream (results.go, streamOnce).
BufferDrains == part = "delivery" => Delivery!BufferDrains

\* Once writes stop, the probe comes to run what the store holds
\* (server.go, WatchAssignments).
Converges == part = "assignments" => Assignments!Converges

\* What a crash leaves behind on disk is reclaimed (artifact/store.go,
\* Orphans).
OrphansReclaimed == part = "artifacts" => Artifacts!OrphansReclaimed
=============================================================================
