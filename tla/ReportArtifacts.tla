-------------------------- MODULE ReportArtifacts --------------------------
(***************************************************************************)
(* How the files of a report come to exist and are reclaimed: the runner   *)
(* that renders the formats of one run, the artifact directory, the        *)
(* sweeper, and the recovery pass of a start-up (internal/report/runner,   *)
(* internal/artifact, internal/store/sqlite/report_runs.go).               *)
(*                                                                         *)
(* An artifact is a row of report_artifacts and a file under the reports   *)
(* directory.  A run produces at most one artifact per format, so a pair   *)
(* <<run, format>> names the row, the path and the path's ".partial" twin. *)
(* Rows and files outlive the process, everything else dies with it.       *)
(* Where a run comes from and to whom it goes is module ReportSchedule.    *)
(***************************************************************************)
EXTENDS Naturals, FiniteSets

CONSTANTS
    Runs,           \* the runs that have been queued
    Formats,        \* the formats there are
    Asked,          \* the formats the template of a run asks for
    Workers,        \* the goroutines of the pool
    SweepBatch,     \* the rows one pass expires
    MaxErrors,      \* store and file-system calls that fail
    MaxCrashes,     \* times the process ends
    NoRun, NoFormat

ReportAssumption ==
    /\ Asked \in [Runs -> (SUBSET Formats) \ {{}}]
    /\ NoRun \notin Runs /\ NoFormat \notin Formats
    /\ SweepBatch \in Nat /\ MaxErrors \in Nat /\ MaxCrashes \in Nat

VARIABLES
    proc,       \* the process: "up", "stopping" (context cancelled) or "down"
    run,        \* report_runs.state of each run
    work,       \* what each worker is doing
    row,        \* report_artifacts.state of each artifact
    file,       \* what the reports directory holds at its path
    old,        \* paths whose file is older than the sweeper's grace period
    sweep,      \* the sweeper's pass
    errors, crashes

vars == <<proc, run, work, row, file, old, sweep, errors, crashes>>

Paths    == Runs \X Formats
Finished == {"succeeded", "partial", "failed"}

(* A worker holds the run, the formats not attempted yet and the ones       *)
(* rendered, the format in hand, and the state it will finish with.         *)
Idle == [pc |-> "idle", job |-> NoRun, left |-> {}, got |-> {},
         cur |-> NoFormat, verdict |-> "none"]

(* A pass of the sweeper holds the paths it has yet to visit, the files old *)
(* enough at its start, and the paths the database named.                   *)
Resting == [pc |-> "idle", due |-> {}, cut |-> {}, live |-> {}]

TypeOK ==
    /\ proc \in {"up", "stopping", "down"}
    /\ run \in [Runs -> {"queued", "running"} \cup Finished]
    /\ work \in [Workers ->
         [pc : {"idle", "compose", "formats", "place", "row", "failure",
                "finish"},
          job : Runs \cup {NoRun}, left : SUBSET Formats, got : SUBSET Formats,
          cur : Formats \cup {NoFormat}, verdict : {"none"} \cup Finished]]
    /\ row \in [Paths -> {"none", "rendered", "failed", "expired"}]
    /\ file \in [Paths -> {"none", "partial", "whole"}]
    /\ old \subseteq Paths
    /\ sweep \in [pc : {"idle", "expire", "unlink", "walk", "remove"},
                  due : SUBSET Paths, cut : SUBSET Paths, live : SUBSET Paths]
    /\ errors \in 0..MaxErrors /\ crashes \in 0..MaxCrashes

Init ==
    /\ proc = "up" /\ crashes = 0 /\ errors = 0
    /\ run = [r \in Runs |-> "queued"] /\ work = [w \in Workers |-> Idle]
    /\ row = [p \in Paths |-> "none"] /\ file = [p \in Paths |-> "none"]
    /\ old = {} /\ sweep = Resting

Up   == proc = "up"
Live == proc # "down"

(* A call that may fail spends one of the errors; a context that has been   *)
(* cancelled fails every call it is passed to.                              *)
Fails    == errors < MaxErrors /\ errors' = errors + 1
CtxFails == IF Up THEN Fails ELSE UNCHANGED errors

Current(w) == <<work[w].job, work[w].cur>>
InHand(r)  == \E w \in Workers : work[w].job = r
Writing(p) == \E w \in Workers : Current(w) = p
Rendered(r) == {f \in Formats : row[<<r, f>>] = "rendered"}

-----------------------------------------------------------------------------
(* The runner.                                                              *)

\* The condition of StartReportRun.
MayStart(r) == run[r] = "queued"

\* The pool hands a run to a worker and StartReportRun moves it from queued to
\* running.  A refused start leaves the run as it is and the worker idle.
Start(w, r) ==
    /\ Up /\ work[w].pc = "idle" /\ MayStart(r)
    /\ run' = [run EXCEPT ![r] = "running"]
    /\ work' = [work EXCEPT ![w].pc = "compose", ![w].job = r,
                            ![w].left = Asked[r]]
    /\ UNCHANGED <<proc, row, file, old, sweep, errors, crashes>>

Finishing(w, state) ==
    work' = [work EXCEPT ![w].pc = "finish", ![w].verdict = state]

\* compose and formatsFor: a template that cannot be read, a figure that cannot
\* be computed or an empty list of formats fails the whole run.
Compose(w) ==
    /\ Live /\ work[w].pc = "compose"
    /\ \/ Up /\ work' = [work EXCEPT ![w].pc = "formats"]
       \/ Finishing(w, "failed")
    /\ UNCHANGED <<proc, run, row, file, old, sweep, errors, crashes>>

\* What a run that ends with these formats rendered is called, interrupted or not.
Verdict(w) ==
    IF work[w].got = {} THEN "failed"
    ELSE IF work[w].got # Asked[work[w].job] THEN "partial"
    ELSE "succeeded"

\* Execute's loop at its top: out of formats, or cancelled with some left.
LoopEnds(w) ==
    /\ Live /\ work[w].pc = "formats"
    /\ work[w].left = {} \/ ~Up
    /\ Finishing(w, Verdict(w))
    /\ UNCHANGED <<proc, run, row, file, old, sweep, errors, crashes>>

\* One more format: it is rendered, or not, and Store.Write puts the bytes at the
\* temporary name.  A write that fails removes it.
WritePartial(w, f) ==
    /\ Up /\ work[w].pc = "formats" /\ f \in work[w].left
    /\ \/ /\ file' = [file EXCEPT ![<<work[w].job, f>>] = "partial"]
          /\ work' = [work EXCEPT ![w].pc = "place", ![w].cur = f,
                                  ![w].left = @ \ {f}]
       \/ /\ work' = [work EXCEPT ![w].pc = "failure", ![w].cur = f,
                                  ![w].left = @ \ {f}]
          /\ UNCHANGED file
    /\ UNCHANGED <<proc, run, row, old, sweep, errors, crashes>>

\* The rename, which may fail with the temporary file removed, and the sync of
\* the directory, which may fail with the file in place.
PlaceFile(w) ==
    /\ Live /\ work[w].pc = "place"
    /\ \/ /\ file' = [file EXCEPT ![Current(w)] = "whole"]
          /\ work' = [work EXCEPT ![w].pc = "row"]
          /\ UNCHANGED errors
       \/ /\ Fails
          /\ \E left \in {"none", "whole"} :
               file' = [file EXCEPT ![Current(w)] = left]
          /\ work' = [work EXCEPT ![w].pc = "failure"]
    /\ UNCHANGED <<proc, run, row, old, sweep, crashes>>

\* CreateReportArtifact, after the bytes are durable.  The offsite copy that
\* follows cannot fail the format.
CreateRow(w) ==
    /\ Live /\ work[w].pc = "row"
    /\ \/ /\ Up
          /\ row' = [row EXCEPT ![Current(w)] = "rendered"]
          /\ work' = [work EXCEPT ![w].pc = "formats", ![w].cur = NoFormat,
                                  ![w].got = @ \cup {work[w].cur}]
          /\ UNCHANGED errors
       \/ /\ CtxFails
          /\ work' = [work EXCEPT ![w].pc = "failure"]
          /\ UNCHANGED row
    /\ UNCHANGED <<proc, run, file, old, sweep, crashes>>

\* recordFailure.  When that row cannot be written Execute returns its error,
\* and the run stays running.
RecordFailure(w) ==
    /\ Live /\ work[w].pc = "failure"
    /\ \/ /\ Up
          /\ row' = [row EXCEPT ![Current(w)] = "failed"]
          /\ work' = [work EXCEPT ![w].pc = "formats", ![w].cur = NoFormat]
          /\ UNCHANGED errors
       \/ /\ CtxFails
          /\ work' = [work EXCEPT ![w] = Idle]
          /\ UNCHANGED row
    /\ UNCHANGED <<proc, run, file, old, sweep, crashes>>

\* FinishReportRun, on a context that outlives the cancellation and without a
\* condition on the state it replaces.
Finish(w) ==
    /\ Live /\ work[w].pc = "finish"
    /\ \/ /\ run' = [run EXCEPT ![work[w].job] = work[w].verdict]
          /\ UNCHANGED errors
       \/ Fails /\ UNCHANGED run
    /\ work' = [work EXCEPT ![w] = Idle]
    /\ UNCHANGED <<proc, row, file, old, sweep, crashes>>

-----------------------------------------------------------------------------
(* The sweeper.                                                             *)

\* The grace period passes for a file.  It is an hour, and a worker takes less
\* than that from the file it writes to the row it commits.
GracePasses(p) ==
    /\ file[p] # "none" /\ p \notin old /\ ~Writing(p)
    /\ old' = old \cup {p}
    /\ UNCHANGED <<proc, run, work, row, file, sweep, errors, crashes>>

\* ExpirableArtifacts may list a row once its retention date is past.  That is a
\* day away at least when the row is written: longer than a run takes.
Expirable == {p \in old : row[p] = "rendered" /\ ~InHand(p[1])}

\* Sweep begins: one instant decides the cut-off of both passes.
SweepStarts ==
    /\ Up /\ sweep.pc = "idle"
    /\ \E due \in SUBSET Expirable :
         /\ Cardinality(due) <= SweepBatch
         /\ sweep' = [Resting EXCEPT !.pc = "expire", !.due = due, !.cut = old]
    /\ UNCHANGED <<proc, run, work, row, file, old, errors, crashes>>

\* expire: the row becomes a tombstone before its file goes.  A row that cannot
\* be marked is passed over.
MarkExpired(p) ==
    /\ Up /\ sweep.pc = "expire" /\ p \in sweep.due
    /\ \/ /\ row' = [row EXCEPT ![p] = "expired"]
          /\ sweep' = [sweep EXCEPT !.pc = "unlink"]
          /\ UNCHANGED errors
       \/ Fails /\ sweep' = [sweep EXCEPT !.due = @ \ {p}] /\ UNCHANGED row
    /\ UNCHANGED <<proc, run, work, file, old, crashes>>

Remove(p) == file' = [file EXCEPT ![p] = "none"] /\ old' = old \ {p}

\* The file of the tombstone just written; one that cannot be removed is left
\* to the orphan pass.
UnlinkExpired(p) ==
    /\ Live /\ sweep.pc = "unlink" /\ p \in sweep.due /\ row[p] = "expired"
    /\ \/ Remove(p) /\ UNCHANGED errors
       \/ Fails /\ UNCHANGED <<file, old>>
    /\ sweep' = [sweep EXCEPT !.pc = "expire", !.due = @ \ {p}]
    /\ UNCHANGED <<proc, run, work, row, crashes>>

\* orphans: the paths the database believes in, read before the walk.
ReadLive ==
    /\ Up /\ sweep.pc = "expire" /\ sweep.due = {}
    /\ \/ /\ sweep' = [sweep EXCEPT !.pc = "walk",
                          !.live = {p \in Paths : row[p] = "rendered"}]
          /\ UNCHANGED errors
       \/ Fails /\ sweep' = Resting
    /\ UNCHANGED <<proc, run, work, row, file, old, crashes>>

MutOrphansYoung == {p \in Paths \ sweep.live : file[p] # "none"}

MutOrphansWhole == {p \in sweep.cut \ sweep.live : file[p] = "whole"}

\* Store.Orphans: the files no live path names, older than the cut-off.
Orphans == {p \in sweep.cut \ sweep.live : file[p] # "none"}

Walk ==
    /\ Live /\ sweep.pc = "walk"
    /\ sweep' = [Resting EXCEPT !.pc = "remove", !.due = Orphans]
    /\ UNCHANGED <<proc, run, work, row, file, old, errors, crashes>>

RemoveOrphan(p) ==
    /\ Up /\ sweep.pc = "remove" /\ p \in sweep.due
    /\ \/ Remove(p) /\ UNCHANGED errors
       \/ Fails /\ UNCHANGED <<file, old>>
    /\ sweep' = [sweep EXCEPT !.due = @ \ {p}]
    /\ UNCHANGED <<proc, run, work, row, crashes>>

\* The pass is over, or the cancelled context ends it.
SweepEnds ==
    /\ \/ Live /\ sweep.pc = "remove" /\ sweep.due = {}
       \/ proc = "stopping" /\ sweep.pc \in {"expire", "remove"}
    /\ sweep' = Resting
    /\ UNCHANGED <<proc, run, work, row, file, old, errors, crashes>>

-----------------------------------------------------------------------------
(* The process.                                                             *)

\* The context is cancelled.  Nothing waits for the pool after that.
Shutdown ==
    /\ Up /\ crashes < MaxCrashes
    /\ proc' = "stopping"
    /\ UNCHANGED <<run, work, row, file, old, sweep, errors, crashes>>

\* The process ends, after a shutdown or in a crash, wherever its goroutines are.
Exit ==
    /\ Live /\ crashes < MaxCrashes
    /\ proc' = "down" /\ crashes' = crashes + 1
    /\ work' = [w \in Workers |-> Idle]
    /\ sweep' = Resting
    /\ UNCHANGED <<run, row, file, old, errors>>

\* What RecoverInterruptedReportRuns makes of a run: partial where an artifact
\* survived, failed where none did.
Recovered(r) ==
    IF run[r] # "running" THEN run[r]
    ELSE IF Rendered(r) # {} THEN "partial" ELSE "failed"

\* Start-up: RecoverInterruptedReportRuns finishes what it finds running, before
\* any worker starts; a failure of it is logged and the start-up goes on.
Restart ==
    /\ proc = "down"
    /\ proc' = "up"
    /\ \/ run' = [r \in Runs |-> Recovered(r)] /\ UNCHANGED errors
       \/ Fails /\ UNCHANGED run
    /\ UNCHANGED <<work, row, file, old, sweep, crashes>>

-----------------------------------------------------------------------------
Step(w) ==
    \/ \E r \in Runs : Start(w, r)
    \/ Compose(w) \/ LoopEnds(w)
    \/ \E f \in Formats : WritePartial(w, f)
    \/ PlaceFile(w) \/ CreateRow(w) \/ RecordFailure(w)
    \/ Finish(w)

SweepStep ==
    \/ SweepStarts \/ ReadLive \/ Walk \/ SweepEnds
    \/ \E p \in Paths : MarkExpired(p) \/ UnlinkExpired(p) \/ RemoveOrphan(p)

Next ==
    \/ \E w \in Workers : Step(w)
    \/ \E p \in Paths : GracePasses(p)
    \/ SweepStep
    \/ Shutdown \/ Exit \/ Restart

Spec == Init /\ [][Next]_vars

(* Goroutines run, the sweeper's ticker ticks, files age, a stopping        *)
(* process ends and a stopped one is started again.                         *)
Fairness ==
    /\ \A w \in Workers : WF_vars(Step(w))
    /\ WF_vars(\E p \in Paths : GracePasses(p))
    /\ WF_vars(SweepStep)
    /\ WF_vars(proc = "stopping" /\ Exit)
    /\ WF_vars(Restart)

FairSpec == Spec /\ Fairness

-----------------------------------------------------------------------------
(* An artifact the database offers is on disk, whole, whatever crash, stale *)
(* list of the sweeper or failed call came before: storeArtifact writes the *)
(* file before its row, expire retires the row before its file, and the     *)
(* orphan pass spares what is younger than the grace period.                *)
NoDanglingRow ==
    \A p \in Paths : row[p] = "rendered" => file[p] = "whole"

(* The state of a run tells the truth about its artifacts, also when Execute *)
(* was interrupted or RecoverInterruptedReportRuns finished it: "succeeded"  *)
(* produced every format, "partial" produced one, "failed" has none on       *)
(* offer, and a run that has not started has touched nothing.                *)
StateReadsTrue ==
    \A r \in Runs :
      LET produced == {f \in Formats : row[<<r, f>>] \in {"rendered", "expired"}}
      IN  /\ run[r] = "succeeded" => produced = Asked[r]
          /\ run[r] = "partial" => produced # {}
          /\ run[r] = "failed" => Rendered(r) = {}
          /\ run[r] = "queued" =>
               \A f \in Formats : row[<<r, f>>] = "none" /\ file[<<r, f>>] = "none"

(* A finished run stays as it finished: no recovery pass, late worker or    *)
(* second execution rewrites the state a client was shown, although         *)
(* FinishReportRun does not look at the state it replaces.                  *)
FinishedIsFinal ==
    [][\A r \in Runs : run[r] \in Finished => run'[r] = run[r]]_vars

Orphan(p) == file[p] # "none" /\ row[p] # "rendered" /\ ~Writing(p)

(* Files that no row names and no worker is about to name do not stay: what *)
(* a crash, a failed insert, a failed sync or a failed unlink leaves behind *)
(* is reclaimed by a later sweep.                                           *)
OrphansReclaimed ==
    (\E p \in Paths : Orphan(p)) ~> (\A p \in Paths : ~Orphan(p))
=============================================================================
