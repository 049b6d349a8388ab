-------------------------- MODULE PublishedProofs --------------------------
(***************************************************************************)
(* Proofs about what the instance publishes, for any rows, requests,       *)
(* workers, failed calls and crashes: the files of a run and the state it  *)
(* reads as (ReportArtifacts), the schedule, the pool and the delivery log *)
(* (ReportSchedule), the definitions of reports and their share links      *)
(* (ReportAdmin), and status pages (StatusPages).  Published names them    *)
(* all; they share no variable, and a theorem is about the behaviours of   *)
(* one of them.                                                            *)
(***************************************************************************)
EXTENDS Published, Integers, TLAPS

-----------------------------------------------------------------------------
(* The files of a run *)

RunStates == {"queued", "running"} \cup Artifacts!Finished
RowStates == {"none", "rendered", "failed", "expired"}

\* What a worker remembers.
Job ==
    [pc : {"idle", "compose", "formats", "place", "row", "failure", "finish"},
     job : Runs \cup {NoRun}, left : SUBSET Formats, got : SUBSET Formats,
     cur : Formats \cup {NoFormat}, verdict : {"none"} \cup Artifacts!Finished]

\* What the sweeper remembers.
Pass ==
    [pc : {"idle", "expire", "unlink", "walk", "remove"},
     due : SUBSET Artifacts!Paths, cut : SUBSET Artifacts!Paths,
     live : SUBSET Artifacts!Paths]

\* The formats of a run that are on offer.
Offered(r, rows) == {f \in Formats : rows[<<r, f>>] = "rendered"}

\* A worker with a run in hand: the run is running, what the worker counts as
\* rendered is what is on offer, and the formats ahead of it are untouched.
JobSound(x, runs, rows, files) ==
    /\ x.job \in Runs /\ runs[x.job] = "running"
    /\ x.got = Offered(x.job, rows)
    /\ \A f \in Formats : rows[<<x.job, f>>] # "expired"
    /\ \A f \in x.left : rows[<<x.job, f>>] = "none" /\ files[<<x.job, f>>] = "none"
    /\ x.pc = "compose" => x.got = {}

\* The format in hand has no row yet, and is whole when its row is next.
FormatSound(x, rows, files) ==
    IF x.pc \in {"place", "row", "failure"}
      THEN /\ x.cur \in Formats /\ x.cur \notin x.left
           /\ rows[<<x.job, x.cur>>] = "none"
           /\ x.pc = "row" => files[<<x.job, x.cur>>] = "whole"
      ELSE x.cur = NoFormat

\* The state a run is about to finish with.
VerdictSound(x) ==
    x.pc = "finish" =>
      /\ x.verdict \in Artifacts!Finished
      /\ x.verdict = "succeeded" => x.got = Asked[x.job]
      /\ x.verdict = "partial" => x.got # {}
      /\ x.verdict = "failed" => x.got = {}

WorkerSound(x, runs, rows, files) ==
    /\ x \in Job
    /\ x.pc = "idle" => x = Artifacts!Idle
    /\ x.pc # "idle" => JobSound(x, runs, rows, files)
    /\ FormatSound(x, rows, files)
    /\ VerdictSound(x)

\* What the state of one run says (StateReadsTrue, run by run).
ReadsTrue(r, state, rows, files) ==
    LET produced == {f \in Formats : rows[<<r, f>>] \in {"rendered", "expired"}}
    IN  /\ state = "succeeded" => produced = Asked[r]
        /\ state = "partial" => produced # {}
        /\ state = "failed" => Offered(r, rows) = {}
        /\ state = "queued" =>
             \A f \in Formats : rows[<<r, f>>] = "none" /\ files[<<r, f>>] = "none"

\* Nobody will write this path again, though its row may still be written ...
Settled(p, runs, works) ==
    /\ runs[p[1]] # "queued"
    /\ \A w \in Renderers : works[w].job = p[1] => p[2] \notin works[w].left /\ works[w].cur # p[2]

\* ... or its whole run is over.
Over(p, runs, works) ==
    runs[p[1]] # "queued" /\ \A w \in Renderers : works[w].job # p[1]

\* What the pass of the sweeper knows of the paths it has yet to visit.
PassSound(s, runs, works, rows) ==
    /\ s \in Pass
    /\ \A p \in s.cut : Settled(p, runs, works)
    /\ s.pc \in {"expire", "unlink"} =>
         \A p \in s.due : Over(p, runs, works) /\ rows[p] \in {"rendered", "expired"}
    /\ s.pc = "walk" => \A p \in s.cut : rows[p] = "rendered" => p \in s.live
    /\ s.pc = "remove" => \A p \in s.due : Settled(p, runs, works) /\ rows[p] # "rendered"

\* The tables and the directory.
TablesSound ==
    /\ artifactsProc \in {"up", "stopping", "down"}
    /\ artifactsRun \in [Runs -> RunStates]
    /\ artifactsRow \in [Artifacts!Paths -> RowStates]
    /\ artifactsFile \in [Artifacts!Paths -> {"none", "partial", "whole"}]
    /\ artifactsErrors \in 0 .. MaxReportErrors /\ artifactsCrashes \in 0 .. MaxReportCrashes
    /\ \A r \in Runs : ReadsTrue(r, artifactsRun[r], artifactsRow, artifactsFile)
    /\ \A p \in Artifacts!Paths : artifactsRow[p] = "rendered" => artifactsFile[p] = "whole"
    /\ old \subseteq Artifacts!Paths /\ \A p \in old : Settled(p, artifactsRun, artifactsWork)

\* The workers: no two have one run in hand, and none outlives the process.
WorkersSound ==
    /\ artifactsWork \in [Renderers -> Job]
    /\ \A w \in Renderers : WorkerSound(artifactsWork[w], artifactsRun, artifactsRow, artifactsFile)
    /\ \A v, w \in Renderers : v # w /\ artifactsWork[v].job = artifactsWork[w].job
           => artifactsWork[v].job = NoRun
    /\ artifactsProc = "down" => \A w \in Renderers : artifactsWork[w] = Artifacts!Idle

\* The inductive invariant.
ArtifactsInv == TablesSound /\ WorkersSound
    /\ PassSound(sweep, artifactsRun, artifactsWork, artifactsRow)

\* Only the row, the artifacts and the files of one run change.
OnlyOf(r, runs, rows, files, runs2, rows2, files2) ==
    /\ \A q \in Runs \ {r} : runs2[q] = runs[q]
    /\ \A q \in Runs \ {r}, f \in Formats :
         rows2[<<q, f>>] = rows[<<q, f>>] /\ files2[<<q, f>>] = files[<<q, f>>]

\* What holds of a worker and of a run holds whatever happens to other runs.
LEMMA OtherWorkers ==
    ASSUME NEW x, NEW r, NEW runs, NEW rows, NEW files, NEW runs2, NEW rows2, NEW files2,
           WorkerSound(x, runs, rows, files), x.job # r,
           OnlyOf(r, runs, rows, files, runs2, rows2, files2)
    PROVE  WorkerSound(x, runs2, rows2, files2)
  <1>1. CASE x.pc = "idle"
    BY <1>1 DEF WorkerSound, FormatSound, VerdictSound
  <1>2. CASE x.pc # "idle"
    <2>1. x.job \in Runs \ {r}
      BY <1>2 DEF WorkerSound, JobSound
    <2>2. Offered(x.job, rows2) = Offered(x.job, rows)
      BY <2>1 DEF Offered, OnlyOf
    <2>3. \A f \in x.left : f \in Formats
      BY DEF WorkerSound, Job
    <2>4. JobSound(x, runs2, rows2, files2)
      BY <1>2, <2>1, <2>2, <2>3 DEF WorkerSound, JobSound, OnlyOf
    <2>5. FormatSound(x, rows2, files2)
      BY <2>1 DEF WorkerSound, FormatSound, OnlyOf
    <2> QED
      BY <2>4, <2>5 DEF WorkerSound
  <1> QED
    BY <1>1, <1>2

LEMMA OtherRuns ==
    ASSUME NEW q, NEW state, NEW rows, NEW files, NEW rows2, NEW files2,
           ReadsTrue(q, state, rows, files),
           \A f \in Formats : rows2[<<q, f>>] = rows[<<q, f>>] /\ files2[<<q, f>>] = files[<<q, f>>]
    PROVE  ReadsTrue(q, state, rows2, files2)
  <1>1. {f \in Formats : rows2[<<q, f>>] \in {"rendered", "expired"}}
          = {f \in Formats : rows[<<q, f>>] \in {"rendered", "expired"}}
    OBVIOUS
  <1>2. Offered(q, rows2) = Offered(q, rows)
    BY DEF Offered
  <1> QED
    BY <1>1, <1>2 DEF ReadsTrue

\* A step of one worker, on the run it has in hand or takes.
LEMMA WorkerMoves ==
    ASSUME ArtifactsInv, Artifacts!ReportAssumption,
           NEW w \in Renderers, NEW r \in Runs, NEW x,
           artifactsWork' = [artifactsWork EXCEPT ![w] = x],
           UNCHANGED <<artifactsProc, old, sweep, artifactsCrashes>>,
           artifactsProc # "down", artifactsErrors' \in 0 .. MaxReportErrors,
           artifactsWork[w].job = r \/ (artifactsRun[r] = "queued" /\ artifactsWork[w].job = NoRun),
           artifactsRun' \in [Runs -> RunStates], artifactsRow' \in [Artifacts!Paths -> RowStates],
           artifactsFile' \in [Artifacts!Paths -> {"none", "partial", "whole"}],
           artifactsRun'[r] # "queued",
           OnlyOf(r, artifactsRun, artifactsRow, artifactsFile, artifactsRun', artifactsRow',
               artifactsFile'),
           x.job \in {r, NoRun}, WorkerSound(x, artifactsRun', artifactsRow', artifactsFile'),
           ReadsTrue(r, artifactsRun'[r], artifactsRow', artifactsFile'),
           \A f \in Formats : artifactsRow'[<<r, f>>] = "rendered" =>
             /\ artifactsFile'[<<r, f>>] = "whole"
             /\ artifactsRow[<<r, f>>] = "rendered"
                    \/ (artifactsWork[w].job = r /\ f = artifactsWork[w].cur),
           x.job = r /\ artifactsWork[w].job = r =>
             x.left \subseteq artifactsWork[w].left
                 /\ x.cur \in artifactsWork[w].left \cup {artifactsWork[w].cur, NoFormat}
    PROVE  ArtifactsInv'
  <1> DEFINE S(p)  == Settled(p, artifactsRun, artifactsWork)
             S2(p) == Settled(p, artifactsRun', artifactsWork')
  <1>1. /\ artifactsWork'[w] = x /\ artifactsWork' \in [Renderers -> Job]
        /\ \A v \in Renderers : v # w => artifactsWork'[v] = artifactsWork[v]
    BY DEF ArtifactsInv, WorkersSound, WorkerSound
  <1>2. NoRun \notin Runs /\ NoFormat \notin Formats
    BY DEF Artifacts!ReportAssumption
  <1>3. \A v \in Renderers : v # w => artifactsWork[v].job # r
    <2> SUFFICES ASSUME NEW v \in Renderers, v # w, artifactsWork[v].job = r PROVE FALSE
      OBVIOUS
    <2>1. artifactsWork[w].job # r
      BY <1>2 DEF ArtifactsInv, WorkersSound
    <2>2. artifactsRun[r] = "queued"
      BY <2>1
    <2>3. artifactsWork[v].pc # "idle"
      BY <1>2 DEF ArtifactsInv, WorkersSound, WorkerSound, Artifacts!Idle
    <2>4. artifactsRun[r] = "running"
      BY <2>3 DEF ArtifactsInv, WorkersSound, WorkerSound, JobSound
    <2> QED
      BY <2>2, <2>4
  <1>4. ASSUME NEW p \in Artifacts!Paths, S(p)
        PROVE  S2(p) /\ (artifactsRow'[p] = "rendered" => artifactsRow[p] = "rendered")
    <2>1. p = <<p[1], p[2]>> /\ p[1] \in Runs /\ p[2] \in Formats
      BY DEF Artifacts!Paths
    <2>2. CASE p[1] = r
      <3>1. artifactsRun[r] # "queued" /\ artifactsWork[w].job = r
        BY <1>4, <2>2 DEF Settled
      <3>2. p[2] \notin artifactsWork[w].left /\ artifactsWork[w].cur # p[2]
        BY <1>4, <2>2, <3>1 DEF Settled
      <3>3. x.job = r => p[2] \notin x.left /\ x.cur # p[2]
        BY <1>2, <2>1, <3>1, <3>2
      <3>4. S2(p)
        BY <1>1, <1>3, <2>2, <3>3 DEF Settled
      <3> QED
        BY <2>1, <2>2, <3>2, <3>4
    <2>3. CASE p[1] # r
      <3>1. artifactsRun'[p[1]] = artifactsRun[p[1]] /\ artifactsRow'[p] = artifactsRow[p]
        BY <2>1, <2>3 DEF OnlyOf
      <3>2. x.job # p[1]
        BY <1>2, <2>1, <2>3
      <3> QED
        BY <1>1, <1>4, <3>1, <3>2 DEF Settled
    <2> QED
      BY <2>2, <2>3
  <1>5. ASSUME NEW p \in Artifacts!Paths, Over(p, artifactsRun, artifactsWork)
        PROVE  Over(p, artifactsRun', artifactsWork') /\ artifactsRow'[p] = artifactsRow[p]
    <2>1. p = <<p[1], p[2]>> /\ p[1] \in Runs /\ p[2] \in Formats
      BY DEF Artifacts!Paths
    <2>2. p[1] # r
      BY <1>5 DEF Over
    <2>3. x.job # p[1]
      BY <1>2, <2>1, <2>2
    <2> QED
      BY <1>1, <1>5, <2>1, <2>2, <2>3 DEF Over, OnlyOf
  <1>6. WorkersSound'
    <2>1. ASSUME NEW v \in Renderers PROVE WorkerSound(artifactsWork'[v], artifactsRun', artifactsRow',
                     artifactsFile')
      <3>1. CASE v = w
        BY <1>1, <3>1
      <3>2. CASE v # w
        <4>1. artifactsWork[v].job # r /\ WorkerSound(artifactsWork[v], artifactsRun, artifactsRow,
                  artifactsFile)
          BY <1>3, <3>2 DEF ArtifactsInv, WorkersSound
        <4>2. WorkerSound(artifactsWork[v], artifactsRun', artifactsRow', artifactsFile')
          BY <4>1, OtherWorkers
        <4> QED
          BY <1>1, <3>2, <4>2
      <3> QED
        BY <3>1, <3>2
    <2>2. ASSUME NEW u \in Renderers, NEW v \in Renderers, u # v,
                 artifactsWork'[u].job = artifactsWork'[v].job
          PROVE  artifactsWork'[u].job = NoRun
      <3>1. CASE u # w /\ v # w
        BY <1>1, <2>2, <3>1 DEF ArtifactsInv, WorkersSound
      <3>2. CASE u = w \/ v = w
        BY <1>1, <1>3, <2>2, <3>2
      <3> QED
        BY <3>1, <3>2
    <2> QED
      BY <1>1, <2>1, <2>2 DEF WorkersSound
  <1>7. PassSound(sweep', artifactsRun', artifactsWork', artifactsRow')
    <2>1. PassSound(sweep, artifactsRun, artifactsWork, artifactsRow) /\ sweep' = sweep
      BY DEF ArtifactsInv
    <2>2. sweep.due \subseteq Artifacts!Paths /\ sweep.cut \subseteq Artifacts!Paths
      BY <2>1 DEF PassSound, Pass
    <2> QED
      BY <1>4, <1>5, <2>1, <2>2 DEF PassSound
  <1>8. ASSUME NEW q \in Runs PROVE ReadsTrue(q, artifactsRun'[q], artifactsRow', artifactsFile')
    <2>1. CASE q = r
      BY <2>1
    <2>2. CASE q # r
      <3>1. ReadsTrue(q, artifactsRun[q], artifactsRow, artifactsFile)
                /\ artifactsRun'[q] = artifactsRun[q]
        BY <2>2 DEF ArtifactsInv, TablesSound, OnlyOf
      <3>2. ReadsTrue(q, artifactsRun[q], artifactsRow', artifactsFile')
        BY <2>2, <3>1, OtherRuns DEF OnlyOf
      <3> QED
        BY <3>1, <3>2
    <2> QED
      BY <2>1, <2>2
  <1>9. ASSUME NEW p \in Artifacts!Paths, artifactsRow'[p] = "rendered"
        PROVE artifactsFile'[p] = "whole"
    <2>1. p = <<p[1], p[2]>> /\ p[1] \in Runs /\ p[2] \in Formats
      BY DEF Artifacts!Paths
    <2>2. CASE p[1] = r
      BY <1>9, <2>1, <2>2
    <2>3. CASE p[1] # r
      <3>1. artifactsRow'[p] = artifactsRow[p] /\ artifactsFile'[p] = artifactsFile[p]
        BY <2>1, <2>3 DEF OnlyOf
      <3> QED
        BY <1>9, <3>1 DEF ArtifactsInv, TablesSound
    <2> QED
      BY <2>2, <2>3
  <1>10. TablesSound'
    <2>1. old' \subseteq Artifacts!Paths /\ \A p \in old' : Settled(p, artifactsRun', artifactsWork')
      BY <1>4 DEF ArtifactsInv, TablesSound
    <2> QED
      BY <1>8, <1>9, <2>1 DEF ArtifactsInv, TablesSound
  <1> QED
    BY <1>6, <1>7, <1>10 DEF ArtifactsInv

\* What a worker with a run in hand knows.
LEMMA JobInHand ==
    ASSUME ArtifactsInv, Artifacts!ReportAssumption, NEW w \in Renderers, artifactsWork[w].pc # "idle"
    PROVE  /\ artifactsWork[w] \in Job /\ artifactsWork[w].job \in Runs
                  /\ artifactsRun[artifactsWork[w].job] = "running"
           /\ WorkerSound(artifactsWork[w], artifactsRun, artifactsRow, artifactsFile)
           /\ JobSound(artifactsWork[w], artifactsRun, artifactsRow, artifactsFile)
           /\ FormatSound(artifactsWork[w], artifactsRow, artifactsFile)
           /\ Asked[artifactsWork[w].job] \subseteq Formats
           /\ artifactsRun \in [Runs -> RunStates] /\ artifactsRow \in [Artifacts!Paths -> RowStates]
           /\ artifactsFile \in [Artifacts!Paths -> {"none", "partial", "whole"}]
           /\ \A p \in Artifacts!Paths : artifactsRow[p] = "rendered" => artifactsFile[p] = "whole"
           /\ artifactsErrors \in 0 .. MaxReportErrors
  <1>1. WorkerSound(artifactsWork[w], artifactsRun, artifactsRow, artifactsFile)
    BY DEF ArtifactsInv, WorkersSound
  <1>2. artifactsWork[w].job \in Runs
    BY <1>1 DEF WorkerSound, JobSound
  <1>3. Asked[artifactsWork[w].job] \subseteq Formats
    BY <1>2 DEF Artifacts!ReportAssumption
  <1> QED
    BY <1>1, <1>2, <1>3 DEF ArtifactsInv, TablesSound, WorkerSound, JobSound

\* A call that may fail counts what fails.
LEMMA ErrorsCounted ==
    ASSUME artifactsErrors \in 0 .. MaxReportErrors, Artifacts!ReportAssumption,
           Artifacts!Fails \/ Artifacts!CtxFails \/ UNCHANGED artifactsErrors
    PROVE  artifactsErrors' \in 0 .. MaxReportErrors
  BY DEF Artifacts!Fails, Artifacts!CtxFails, Artifacts!ReportAssumption

\* A run that is running may have any artifacts.
LEMMA RunningReads ==
    ASSUME NEW r, NEW rows, NEW files
    PROVE  ReadsTrue(r, "running", rows, files)
  BY DEF ReadsTrue

\* A step of a worker that changes nothing but what the worker remembers.
LEMMA WorkerTurns ==
    ASSUME ArtifactsInv, Artifacts!ReportAssumption,
           NEW w \in Renderers, artifactsWork[w].pc # "idle", NEW x, artifactsProc # "down",
           artifactsWork' = [artifactsWork EXCEPT ![w] = x],
           UNCHANGED <<artifactsProc, artifactsRun, artifactsRow, artifactsFile, old, sweep,
               artifactsCrashes>>,
           artifactsErrors' \in 0 .. MaxReportErrors,
           WorkerSound(x, artifactsRun, artifactsRow, artifactsFile),
           \/ x.job = artifactsWork[w].job /\ x.left = artifactsWork[w].left
                  /\ x.cur \in {artifactsWork[w].cur, NoFormat}
           \/ x = Artifacts!Idle
    PROVE  ArtifactsInv'
  <1> DEFINE r == artifactsWork[w].job
  <1>1. r \in Runs /\ artifactsRun[r] = "running"
    BY JobInHand
  <1>2. OnlyOf(r, artifactsRun, artifactsRow, artifactsFile, artifactsRun', artifactsRow',
            artifactsFile')
    BY DEF OnlyOf
  <1>3. ReadsTrue(r, artifactsRun'[r], artifactsRow', artifactsFile')
    BY <1>1, RunningReads
  <1>4. \A f \in Formats : artifactsRow'[<<r, f>>] = "rendered" => artifactsFile'[<<r, f>>] = "whole"
    BY <1>1, JobInHand DEF Artifacts!Paths
  <1>5. /\ x.job \in {r, NoRun}
        /\ x.job = r => /\ x.left \subseteq artifactsWork[w].left
                        /\ x.cur \in artifactsWork[w].left \cup {artifactsWork[w].cur, NoFormat}
    BY <1>1 DEF Artifacts!Idle, Artifacts!ReportAssumption
  <1>6. WorkerSound(x, artifactsRun', artifactsRow', artifactsFile')
    OBVIOUS
  <1>7. /\ artifactsRun' \in [Runs -> RunStates] /\ artifactsRow' \in [Artifacts!Paths -> RowStates]
        /\ artifactsFile' \in [Artifacts!Paths -> {"none", "partial", "whole"}]
        /\ artifactsRun'[r] # "queued"
    BY <1>1, JobInHand
  <1> HIDE DEF r
  <1> QED
    BY <1>1, <1>2, <1>3, <1>4, <1>5, <1>6, <1>7, WorkerMoves DEF r

\* Nobody is worse off with nothing in hand.
LEMMA IdleSound ==
    ASSUME Artifacts!ReportAssumption, NEW runs, NEW rows, NEW files
    PROVE  WorkerSound(Artifacts!Idle, runs, rows, files)
  BY DEF WorkerSound, FormatSound, VerdictSound, Artifacts!Idle, Job

\* A worker that is done with its formats, on a verdict that is true of them.
LEMMA TurnsToFinish ==
    ASSUME ArtifactsInv, Artifacts!ReportAssumption,
           NEW w \in Renderers, artifactsWork[w].pc \in {"compose", "formats"}, artifactsProc # "down",
           NEW state \in Artifacts!Finished, Artifacts!Finishing(w, state),
           state = "succeeded" => artifactsWork[w].got = Asked[artifactsWork[w].job],
           state = "partial" => artifactsWork[w].got # {},
           state = "failed" => artifactsWork[w].got = {},
           UNCHANGED <<artifactsProc, artifactsRun, artifactsRow, artifactsFile, old, sweep,
               artifactsErrors, artifactsCrashes>>
    PROVE  ArtifactsInv'
  <1> DEFINE x == [artifactsWork[w] EXCEPT !.pc = "finish", !.verdict = state]
  <1>1. /\ artifactsWork[w] \in Job /\ JobSound(artifactsWork[w], artifactsRun, artifactsRow,
               artifactsFile) /\ artifactsErrors \in 0 .. MaxReportErrors
        /\ artifactsWork[w].cur = NoFormat
    BY JobInHand DEF FormatSound
  <1>2. artifactsWork' = [artifactsWork EXCEPT ![w] = x]
    BY DEF Artifacts!Finishing, ArtifactsInv, WorkersSound
  <1>3. /\ x \in Job /\ x.pc = "finish" /\ x.verdict = state /\ x.job = artifactsWork[w].job
        /\ x.left = artifactsWork[w].left /\ x.got = artifactsWork[w].got
               /\ x.cur = artifactsWork[w].cur
    BY <1>1 DEF Job
  <1> HIDE DEF x
  <1>4. WorkerSound(x, artifactsRun, artifactsRow, artifactsFile)
    BY <1>1, <1>3 DEF WorkerSound, JobSound, FormatSound, VerdictSound
  <1> QED
    BY <1>1, <1>2, <1>3, <1>4, WorkerTurns

LEMMA StartSound ==
    ASSUME ArtifactsInv, Artifacts!ReportAssumption, NEW w \in Renderers, NEW r \in Runs,
           Artifacts!Start(w, r)
    PROVE  ArtifactsInv'
  <1> DEFINE x == [Artifacts!Idle EXCEPT !.pc = "compose", !.job = r, !.left = Asked[r]]
  <1>1. /\ artifactsProc = "up" /\ artifactsWork[w].pc = "idle" /\ artifactsRun[r] = "queued"
        /\ artifactsRun' = [artifactsRun EXCEPT ![r] = "running"]
        /\ artifactsWork' = [artifactsWork EXCEPT ![w].pc = "compose", ![w].job = r,
               ![w].left = Asked[r]]
        /\ UNCHANGED <<artifactsProc, artifactsRow, artifactsFile, old, sweep, artifactsErrors,
               artifactsCrashes>>
    BY DEF Artifacts!Start, Artifacts!Up, Artifacts!MayStart
  <1>2. artifactsWork[w] = Artifacts!Idle
    BY <1>1 DEF ArtifactsInv, WorkersSound, WorkerSound
  <1>3. artifactsWork' = [artifactsWork EXCEPT ![w] = x]
    BY <1>1, <1>2 DEF ArtifactsInv, WorkersSound
  <1>4. Asked[r] \subseteq Formats
    BY DEF Artifacts!ReportAssumption
  <1>5. /\ x \in Job /\ x.pc = "compose" /\ x.job = r /\ x.left = Asked[r] /\ x.got = {}
        /\ x.cur = NoFormat
    BY <1>4 DEF Job, Artifacts!Idle
  <1>6. \A f \in Formats : artifactsRow[<<r, f>>] = "none" /\ artifactsFile[<<r, f>>] = "none"
    BY <1>1 DEF ArtifactsInv, TablesSound, ReadsTrue
  <1>7. /\ artifactsRun \in [Runs -> RunStates] /\ artifactsRow \in [Artifacts!Paths -> RowStates]
        /\ artifactsFile \in [Artifacts!Paths -> {"none", "partial", "whole"}]
        /\ artifactsErrors \in 0 .. MaxReportErrors
    BY DEF ArtifactsInv, TablesSound
  <1>8. artifactsRun' \in [Runs -> RunStates] /\ artifactsRun'[r] = "running"
            /\ \A q \in Runs \ {r} : artifactsRun'[q] = artifactsRun[q]
    BY <1>1, <1>7 DEF RunStates
  <1>9. OnlyOf(r, artifactsRun, artifactsRow, artifactsFile, artifactsRun', artifactsRow',
            artifactsFile')
    BY <1>1, <1>8 DEF OnlyOf
  <1> HIDE DEF x
  <1>10. WorkerSound(x, artifactsRun', artifactsRow', artifactsFile')
    <2>1. Offered(x.job, artifactsRow') = {}
      BY <1>1, <1>5, <1>6 DEF Offered
    <2>2. JobSound(x, artifactsRun', artifactsRow', artifactsFile')
      BY <1>1, <1>4, <1>5, <1>6, <1>8, <2>1 DEF JobSound
    <2> QED
      BY <1>5, <2>2 DEF WorkerSound, FormatSound, VerdictSound
  <1>11. ReadsTrue(r, artifactsRun'[r], artifactsRow', artifactsFile')
    BY <1>8, RunningReads
  <1>12. artifactsWork[w].job = NoRun /\ r # NoRun
    BY <1>2 DEF Artifacts!Idle, Artifacts!ReportAssumption
  <1>13. \A f \in Formats : artifactsRow'[<<r, f>>] # "rendered"
    BY <1>1, <1>6
  <1>14. /\ artifactsProc # "down" /\ artifactsErrors' \in 0 .. MaxReportErrors /\ x.job \in {r, NoRun}
         /\ artifactsRun[r] = "queued" /\ artifactsWork[w].job = NoRun
                /\ ~(x.job = r /\ artifactsWork[w].job = r)
         /\ artifactsRow' \in [Artifacts!Paths -> RowStates]
         /\ artifactsFile' \in [Artifacts!Paths -> {"none", "partial", "whole"}]
         /\ artifactsRun' \in [Runs -> RunStates] /\ artifactsRun'[r] # "queued"
    BY <1>1, <1>5, <1>7, <1>8, <1>12
  <1>15. artifactsWork[w].job = r \/ (artifactsRun[r] = "queued" /\ artifactsWork[w].job = NoRun)
    BY <1>14
  <1>16. x.job = r /\ artifactsWork[w].job = r =>
           x.left \subseteq artifactsWork[w].left
               /\ x.cur \in artifactsWork[w].left \cup {artifactsWork[w].cur, NoFormat}
    BY <1>14
  <1>17. \A f \in Formats : artifactsRow'[<<r, f>>] = "rendered" =>
           /\ artifactsFile'[<<r, f>>] = "whole"
           /\ artifactsRow[<<r, f>>] = "rendered"
                  \/ (artifactsWork[w].job = r /\ f = artifactsWork[w].cur)
    BY <1>13
  <1>18. UNCHANGED <<artifactsProc, old, sweep, artifactsCrashes>>
    BY <1>1
  <1> QED
    BY <1>3, <1>9, <1>10, <1>11, <1>14, <1>15, <1>16, <1>17, <1>18, WorkerMoves

LEMMA ComposeSound ==
    ASSUME ArtifactsInv, Artifacts!ReportAssumption, NEW w \in Renderers, Artifacts!Compose(w)
    PROVE  ArtifactsInv'
  <1>1. /\ artifactsProc # "down" /\ artifactsWork[w].pc = "compose"
        /\ UNCHANGED <<artifactsProc, artifactsRun, artifactsRow, artifactsFile, old, sweep,
               artifactsErrors, artifactsCrashes>>
    BY DEF Artifacts!Compose, Artifacts!Live
  <1>2. /\ artifactsWork[w] \in Job /\ JobSound(artifactsWork[w], artifactsRun, artifactsRow,
               artifactsFile) /\ artifactsErrors \in 0 .. MaxReportErrors
        /\ artifactsWork[w].cur = NoFormat /\ artifactsWork[w].got = {}
    BY <1>1, JobInHand DEF FormatSound, JobSound
  <1>3. CASE artifactsWork' = [artifactsWork EXCEPT ![w].pc = "formats"]
    <2> DEFINE x == [artifactsWork[w] EXCEPT !.pc = "formats"]
    <2>1. artifactsWork' = [artifactsWork EXCEPT ![w] = x]
      BY <1>3 DEF ArtifactsInv, WorkersSound
    <2>2. /\ x \in Job /\ x.pc = "formats" /\ x.job = artifactsWork[w].job
          /\ x.left = artifactsWork[w].left /\ x.got = artifactsWork[w].got
                 /\ x.cur = artifactsWork[w].cur
      BY <1>2 DEF Job
    <2> HIDE DEF x
    <2>3. WorkerSound(x, artifactsRun, artifactsRow, artifactsFile)
      BY <1>2, <2>2 DEF WorkerSound, JobSound, FormatSound, VerdictSound
    <2> QED
      BY <1>1, <1>2, <2>1, <2>2, <2>3, WorkerTurns
  <1>4. CASE Artifacts!Finishing(w, "failed")
    BY <1>1, <1>2, <1>4, TurnsToFinish DEF Artifacts!Finished
  <1> QED
    BY <1>3, <1>4 DEF Artifacts!Compose

LEMMA LoopEndsSound ==
    ASSUME ArtifactsInv, Artifacts!ReportAssumption, NEW w \in Renderers, Artifacts!LoopEnds(w)
    PROVE  ArtifactsInv'
  <1>1. /\ artifactsProc # "down" /\ artifactsWork[w].pc = "formats"
               /\ Artifacts!Finishing(w, Artifacts!Verdict(w))
        /\ UNCHANGED <<artifactsProc, artifactsRun, artifactsRow, artifactsFile, old, sweep,
               artifactsErrors, artifactsCrashes>>
    BY DEF Artifacts!LoopEnds, Artifacts!Live
  <1>2. /\ Artifacts!Verdict(w) \in Artifacts!Finished
        /\ Artifacts!Verdict(w) = "succeeded" => artifactsWork[w].got = Asked[artifactsWork[w].job]
        /\ Artifacts!Verdict(w) = "partial" => artifactsWork[w].got # {}
        /\ Artifacts!Verdict(w) = "failed" => artifactsWork[w].got = {}
    BY DEF Artifacts!Verdict, Artifacts!Finished
  <1> QED
    BY <1>1, <1>2, TurnsToFinish

\* A format is attempted: its bytes are at the temporary name, or it failed.
LEMMA WritePartialSound ==
    ASSUME ArtifactsInv, Artifacts!ReportAssumption, NEW w \in Renderers, NEW f \in Formats,
           Artifacts!WritePartial(w, f)
    PROVE  ArtifactsInv'
  <1> DEFINE r == artifactsWork[w].job
  <1>1. /\ artifactsProc # "down" /\ artifactsWork[w].pc = "formats" /\ f \in artifactsWork[w].left
        /\ UNCHANGED <<artifactsProc, artifactsRun, artifactsRow, old, sweep, artifactsErrors,
               artifactsCrashes>>
    BY DEF Artifacts!WritePartial, Artifacts!Live, Artifacts!Up
  <1>2. /\ artifactsWork[w] \in Job /\ JobSound(artifactsWork[w], artifactsRun, artifactsRow,
               artifactsFile) /\ artifactsErrors \in 0 .. MaxReportErrors
        /\ r \in Runs /\ artifactsRun[r] = "running" /\ artifactsWork[w].cur = NoFormat
        /\ artifactsRow[<<r, f>>] = "none" /\ artifactsFile[<<r, f>>] = "none"
        /\ artifactsRun \in [Runs -> RunStates] /\ artifactsRow \in [Artifacts!Paths -> RowStates]
        /\ artifactsFile \in [Artifacts!Paths -> {"none", "partial", "whole"}]
        /\ \A p \in Artifacts!Paths : artifactsRow[p] = "rendered" => artifactsFile[p] = "whole"
    BY <1>1, JobInHand DEF JobSound, FormatSound
  <1>3. PICK next \in {"place", "failure"} :
          /\ artifactsWork' = [artifactsWork EXCEPT ![w].pc = next, ![w].cur = f, ![w].left = @ \ {f}]
          /\ artifactsFile' \in {artifactsFile, [artifactsFile EXCEPT ![<<r, f>>] = "partial"]}
    BY DEF Artifacts!WritePartial
  <1> DEFINE x == [artifactsWork[w] EXCEPT !.pc = next, !.cur = f, !.left = @ \ {f}]
  <1>4. artifactsWork' = [artifactsWork EXCEPT ![w] = x]
    BY <1>3 DEF ArtifactsInv, WorkersSound
  <1>5. /\ x \in Job /\ x.pc = next /\ x.job = r /\ x.left = artifactsWork[w].left \ {f}
        /\ x.got = artifactsWork[w].got /\ x.cur = f
    BY <1>2 DEF Job
  <1>6. <<r, f>> \in Artifacts!Paths
    BY <1>2 DEF Artifacts!Paths
  <1>7. /\ artifactsFile' \in [Artifacts!Paths -> {"none", "partial", "whole"}]
        /\ \A p \in Artifacts!Paths : p # <<r, f>> => artifactsFile'[p] = artifactsFile[p]
    BY <1>2, <1>3, <1>6
  <1>8. \A q \in Runs, g \in Formats : <<q, g>> \in Artifacts!Paths
    BY DEF Artifacts!Paths
  <1>9. OnlyOf(r, artifactsRun, artifactsRow, artifactsFile, artifactsRun', artifactsRow',
            artifactsFile')
    BY <1>1, <1>7, <1>8 DEF OnlyOf
  <1> HIDE DEF x
  <1>10. \A g \in Formats : artifactsRow'[<<r, g>>] = "rendered" =>
           artifactsFile'[<<r, g>>] = "whole" /\ artifactsRow[<<r, g>>] = "rendered"
    <2> SUFFICES ASSUME NEW g \in Formats, artifactsRow'[<<r, g>>] = "rendered"
                 PROVE  artifactsFile'[<<r, g>>] = "whole" /\ artifactsRow[<<r, g>>] = "rendered"
      OBVIOUS
    <2>1. artifactsRow[<<r, g>>] = "rendered" /\ g # f
      BY <1>1, <1>2
    <2>2. <<r, g>> \in Artifacts!Paths /\ <<r, g>> # <<r, f>>
      BY <1>2, <1>8, <2>1
    <2> QED
      BY <1>2, <1>7, <2>1, <2>2
  <1>11. WorkerSound(x, artifactsRun', artifactsRow', artifactsFile')
    <2>1. Offered(r, artifactsRow') = Offered(r, artifactsRow)
      BY <1>1
    <2>2. \A g \in x.left : g \in artifactsWork[w].left /\ g # f /\ g \in Formats
      BY <1>2, <1>5 DEF Job
    <2>3. \A g \in x.left : artifactsRow'[<<r, g>>] = "none" /\ artifactsFile'[<<r, g>>] = "none"
      <3> SUFFICES ASSUME NEW g \in x.left
                   PROVE  artifactsRow'[<<r, g>>] = "none" /\ artifactsFile'[<<r, g>>] = "none"
        OBVIOUS
      <3>1. artifactsRow[<<r, g>>] = "none" /\ artifactsFile[<<r, g>>] = "none"
        BY <1>2, <2>2 DEF JobSound
      <3>2. <<r, g>> \in Artifacts!Paths /\ <<r, g>> # <<r, f>>
        BY <1>2, <1>8, <2>2
      <3> QED
        BY <1>1, <1>7, <3>1, <3>2
    <2>4. JobSound(x, artifactsRun', artifactsRow', artifactsFile')
      BY <1>1, <1>2, <1>5, <2>1, <2>3 DEF JobSound
    <2>5. FormatSound(x, artifactsRow', artifactsFile')
      BY <1>1, <1>2, <1>5 DEF FormatSound
    <2> QED
      BY <1>5, <2>4, <2>5 DEF WorkerSound, VerdictSound
  <1>12. ReadsTrue(r, artifactsRun'[r], artifactsRow', artifactsFile')
    BY <1>1, <1>2, RunningReads
  <1>13. x.left \subseteq artifactsWork[w].left
             /\ x.cur \in artifactsWork[w].left \cup {artifactsWork[w].cur, NoFormat}
    BY <1>1, <1>5
  <1>14. /\ artifactsRun' \in [Runs -> RunStates] /\ artifactsRow' \in [Artifacts!Paths -> RowStates]
         /\ artifactsRun'[r] # "queued" /\ artifactsErrors' \in 0 .. MaxReportErrors
    BY <1>1, <1>2
  <1> HIDE DEF r
  <1> QED
    BY <1>1, <1>2, <1>4, <1>5, <1>7, <1>9, <1>10, <1>11, <1>12, <1>13, <1>14, WorkerMoves DEF r

\* The file of the format in hand is in place, or is not.
LEMMA PlaceFileSound ==
    ASSUME ArtifactsInv, Artifacts!ReportAssumption, NEW w \in Renderers, Artifacts!PlaceFile(w)
    PROVE  ArtifactsInv'
  <1> DEFINE r == artifactsWork[w].job
             f == artifactsWork[w].cur
  <1>1. /\ artifactsProc # "down" /\ artifactsWork[w].pc = "place"
               /\ UNCHANGED <<artifactsProc, artifactsRun, artifactsRow, old, sweep, artifactsCrashes>>
    BY DEF Artifacts!PlaceFile, Artifacts!Live
  <1>2. /\ artifactsWork[w] \in Job /\ JobSound(artifactsWork[w], artifactsRun, artifactsRow,
               artifactsFile) /\ artifactsErrors \in 0 .. MaxReportErrors
        /\ r \in Runs /\ artifactsRun[r] = "running" /\ f \in Formats /\ f \notin artifactsWork[w].left
        /\ artifactsRow[<<r, f>>] = "none"
        /\ artifactsRun \in [Runs -> RunStates] /\ artifactsRow \in [Artifacts!Paths -> RowStates]
        /\ artifactsFile \in [Artifacts!Paths -> {"none", "partial", "whole"}]
        /\ \A p \in Artifacts!Paths : artifactsRow[p] = "rendered" => artifactsFile[p] = "whole"
    BY <1>1, JobInHand DEF FormatSound
  <1>3. PICK next \in {"row", "failure"}, left \in {"none", "whole"} :
          /\ artifactsWork' = [artifactsWork EXCEPT ![w].pc = next]
          /\ artifactsFile' = [artifactsFile EXCEPT ![<<r, f>>] = left]
          /\ next = "row" => left = "whole"
          /\ UNCHANGED artifactsErrors \/ Artifacts!Fails
    BY DEF Artifacts!PlaceFile, Artifacts!Current
  <1> DEFINE x == [artifactsWork[w] EXCEPT !.pc = next]
  <1>4. artifactsWork' = [artifactsWork EXCEPT ![w] = x]
    BY <1>3 DEF ArtifactsInv, WorkersSound
  <1>5. /\ x \in Job /\ x.pc = next /\ x.job = r /\ x.left = artifactsWork[w].left
        /\ x.got = artifactsWork[w].got /\ x.cur = f
    BY <1>2 DEF Job
  <1>6. \A q \in Runs, g \in Formats : <<q, g>> \in Artifacts!Paths
    BY DEF Artifacts!Paths
  <1>7. /\ artifactsFile' \in [Artifacts!Paths -> {"none", "partial", "whole"}]
               /\ artifactsFile'[<<r, f>>] = left
        /\ \A p \in Artifacts!Paths : p # <<r, f>> => artifactsFile'[p] = artifactsFile[p]
    BY <1>2, <1>3, <1>6
  <1>8. OnlyOf(r, artifactsRun, artifactsRow, artifactsFile, artifactsRun', artifactsRow',
            artifactsFile')
    BY <1>1, <1>6, <1>7 DEF OnlyOf
  <1>9. artifactsErrors' \in 0 .. MaxReportErrors
    BY <1>2, <1>3, ErrorsCounted
  <1> HIDE DEF x, f
  <1>10. \A g \in Formats : artifactsRow'[<<r, g>>] = "rendered" =>
           artifactsFile'[<<r, g>>] = "whole" /\ artifactsRow[<<r, g>>] = "rendered"
    <2> SUFFICES ASSUME NEW g \in Formats, artifactsRow'[<<r, g>>] = "rendered"
                 PROVE  artifactsFile'[<<r, g>>] = "whole" /\ artifactsRow[<<r, g>>] = "rendered"
      OBVIOUS
    <2>1. artifactsRow[<<r, g>>] = "rendered" /\ g # f
      BY <1>1, <1>2
    <2>2. <<r, g>> \in Artifacts!Paths /\ <<r, g>> # <<r, f>>
      BY <1>2, <1>6, <2>1
    <2> QED
      BY <1>2, <1>7, <2>1, <2>2
  <1>11. WorkerSound(x, artifactsRun', artifactsRow', artifactsFile')
    <2>1. Offered(r, artifactsRow') = Offered(r, artifactsRow)
      BY <1>1
    <2>2. \A g \in x.left : g \in artifactsWork[w].left /\ g # f /\ g \in Formats
      BY <1>2, <1>5 DEF Job
    <2>3. \A g \in x.left : artifactsRow'[<<r, g>>] = "none" /\ artifactsFile'[<<r, g>>] = "none"
      <3> SUFFICES ASSUME NEW g \in x.left
                   PROVE  artifactsRow'[<<r, g>>] = "none" /\ artifactsFile'[<<r, g>>] = "none"
        OBVIOUS
      <3>1. artifactsRow[<<r, g>>] = "none" /\ artifactsFile[<<r, g>>] = "none"
        BY <1>2, <2>2 DEF JobSound
      <3>2. <<r, g>> \in Artifacts!Paths /\ <<r, g>> # <<r, f>>
        BY <1>2, <1>6, <2>2
      <3> QED
        BY <1>1, <1>7, <3>1, <3>2
    <2>4. JobSound(x, artifactsRun', artifactsRow', artifactsFile')
      BY <1>1, <1>2, <1>5, <2>1, <2>3 DEF JobSound
    <2>5. FormatSound(x, artifactsRow', artifactsFile')
      BY <1>1, <1>2, <1>3, <1>5, <1>7 DEF FormatSound
    <2> QED
      BY <1>5, <2>4, <2>5 DEF WorkerSound, VerdictSound
  <1>12. ReadsTrue(r, artifactsRun'[r], artifactsRow', artifactsFile')
    BY <1>1, <1>2, RunningReads
  <1>13. x.left \subseteq artifactsWork[w].left
             /\ x.cur \in artifactsWork[w].left \cup {artifactsWork[w].cur, NoFormat}
    BY <1>5 DEF f
  <1>14. /\ artifactsRun' \in [Runs -> RunStates] /\ artifactsRow' \in [Artifacts!Paths -> RowStates]
         /\ artifactsRun'[r] # "queued"
    BY <1>1, <1>2
  <1> HIDE DEF r
  <1> QED
    BY <1>1, <1>2, <1>4, <1>5, <1>7, <1>8, <1>9, <1>10, <1>11, <1>12, <1>13, <1>14,
       WorkerMoves DEF r

\* The row of the format in hand is written, and the loop goes on.
LEMMA RowIsWritten ==
    ASSUME ArtifactsInv, Artifacts!ReportAssumption, NEW w \in Renderers, artifactsProc # "down",
           artifactsWork[w].pc \in {"row", "failure"}, NEW state \in {"rendered", "failed"},
           state = "rendered" => artifactsWork[w].pc = "row",
           NEW got, got = IF state = "rendered" THEN artifactsWork[w].got \cup {artifactsWork[w].cur} ELSE artifactsWork[w].got,
           artifactsRow' = [artifactsRow EXCEPT ![<<artifactsWork[w].job,
               artifactsWork[w].cur>>] = state],
           artifactsWork' = [artifactsWork EXCEPT ![w] = [artifactsWork[w] EXCEPT !.pc = "formats",
               !.cur = NoFormat,
                                                                                  !.got = got]],
           UNCHANGED <<artifactsProc, artifactsRun, artifactsFile, old, sweep, artifactsErrors,
               artifactsCrashes>>
    PROVE  ArtifactsInv'
  <1> DEFINE r == artifactsWork[w].job
             f == artifactsWork[w].cur
             x == [artifactsWork[w] EXCEPT !.pc = "formats", !.cur = NoFormat, !.got = got]
  <1>1. /\ artifactsWork[w] \in Job /\ JobSound(artifactsWork[w], artifactsRun, artifactsRow,
               artifactsFile) /\ artifactsErrors \in 0 .. MaxReportErrors
        /\ r \in Runs /\ artifactsRun[r] = "running" /\ f \in Formats /\ f \notin artifactsWork[w].left
        /\ artifactsRow[<<r, f>>] = "none"
        /\ artifactsWork[w].pc = "row" => artifactsFile[<<r, f>>] = "whole"
        /\ artifactsRun \in [Runs -> RunStates] /\ artifactsRow \in [Artifacts!Paths -> RowStates]
        /\ artifactsFile \in [Artifacts!Paths -> {"none", "partial", "whole"}]
        /\ \A p \in Artifacts!Paths : artifactsRow[p] = "rendered" => artifactsFile[p] = "whole"
    BY JobInHand DEF FormatSound
  <1>2. got \subseteq Formats
    BY <1>1 DEF Job
  <1>3. /\ x \in Job /\ x.pc = "formats" /\ x.job = r /\ x.left = artifactsWork[w].left
        /\ x.got = got /\ x.cur = NoFormat
    BY <1>1, <1>2 DEF Job
  <1>4. \A q \in Runs, g \in Formats : <<q, g>> \in Artifacts!Paths
    BY DEF Artifacts!Paths
  <1>5. /\ artifactsRow' \in [Artifacts!Paths -> RowStates] /\ artifactsRow'[<<r, f>>] = state
        /\ \A p \in Artifacts!Paths : p # <<r, f>> => artifactsRow'[p] = artifactsRow[p]
    BY <1>1, <1>4 DEF RowStates
  <1>6. OnlyOf(r, artifactsRun, artifactsRow, artifactsFile, artifactsRun', artifactsRow',
            artifactsFile')
    BY <1>4, <1>5 DEF OnlyOf
  <1>7. ASSUME NEW g \in Formats, g # f PROVE artifactsRow'[<<r, g>>] = artifactsRow[<<r, g>>]
    BY <1>1, <1>4, <1>5, <1>7
  <1> HIDE DEF x, f
  <1>8. \A g \in Formats : artifactsRow'[<<r, g>>] = "rendered" =>
          artifactsFile'[<<r, g>>] = "whole" /\ (artifactsRow[<<r, g>>] = "rendered" \/ g = f)
    <2> SUFFICES ASSUME NEW g \in Formats, artifactsRow'[<<r, g>>] = "rendered"
                 PROVE  artifactsFile'[<<r, g>>] = "whole"
                            /\ (artifactsRow[<<r, g>>] = "rendered" \/ g = f)
      OBVIOUS
    <2>1. CASE g = f
      <3>1. state = "rendered"
        BY <1>5, <2>1
      <3>2. artifactsFile[<<r, f>>] = "whole"
        BY <1>1, <3>1
      <3> QED
        BY <2>1, <3>2
    <2>2. CASE g # f
      <3>1. artifactsRow[<<r, g>>] = "rendered"
        BY <1>7, <2>2
      <3> QED
        BY <1>1, <1>4, <3>1
    <2> QED
      BY <2>1, <2>2
  <1>9. WorkerSound(x, artifactsRun', artifactsRow', artifactsFile')
    <2>1. got = Offered(r, artifactsRow')
      <3>1. artifactsWork[w].got = {g \in Formats : artifactsRow[<<r, g>>] = "rendered"}
        BY <1>1 DEF JobSound, Offered
      <3>2. ASSUME NEW g \in Formats PROVE g \in got <=> artifactsRow'[<<r, g>>] = "rendered"
        <4>1. CASE g = f
          <5>1. artifactsRow'[<<r, g>>] = state /\ g \notin artifactsWork[w].got
            BY <1>1, <1>5, <3>1, <4>1
          <5> QED
            BY <4>1, <5>1 DEF f
        <4>2. CASE g # f
          <5>1. g \in got <=> g \in artifactsWork[w].got
            BY <4>2 DEF f
          <5> QED
            BY <1>7, <3>1, <4>2, <5>1
        <4> QED
          BY <4>1, <4>2
      <3> QED
        BY <1>2, <3>2 DEF Offered
    <2>2. \A g \in Formats : artifactsRow'[<<r, g>>] # "expired"
      BY <1>1, <1>5, <1>7 DEF JobSound
    <2>3. \A g \in x.left : artifactsRow'[<<r, g>>] = "none" /\ artifactsFile'[<<r, g>>] = "none"
      <3> SUFFICES ASSUME NEW g \in x.left
                   PROVE  artifactsRow'[<<r, g>>] = "none" /\ artifactsFile'[<<r, g>>] = "none"
        OBVIOUS
      <3>1. g \in Formats /\ g # f
        BY <1>1, <1>3 DEF Job
      <3>2. artifactsRow[<<r, g>>] = "none" /\ artifactsFile[<<r, g>>] = "none"
        BY <1>1, <1>3 DEF JobSound
      <3> QED
        BY <1>7, <3>1, <3>2
    <2>4. JobSound(x, artifactsRun', artifactsRow', artifactsFile')
      BY <1>1, <1>3, <2>1, <2>2, <2>3 DEF JobSound
    <2> QED
      BY <1>3, <2>4 DEF WorkerSound, FormatSound, VerdictSound
  <1>10. ReadsTrue(r, artifactsRun'[r], artifactsRow', artifactsFile')
    BY <1>1, RunningReads
  <1>11. /\ artifactsRun' \in [Runs -> RunStates] /\ artifactsRun'[r] # "queued"
                /\ artifactsErrors' \in 0 .. MaxReportErrors
         /\ artifactsFile' \in [Artifacts!Paths -> {"none", "partial", "whole"}]
         /\ x.left \subseteq artifactsWork[w].left
                /\ x.cur \in artifactsWork[w].left \cup {artifactsWork[w].cur, NoFormat}
         /\ artifactsWork' = [artifactsWork EXCEPT ![w] = x]
    BY <1>1, <1>3 DEF x
  <1>12. \A g \in Formats : artifactsRow'[<<r, g>>] = "rendered" =>
           /\ artifactsFile'[<<r, g>>] = "whole"
           /\ artifactsRow[<<r, g>>] = "rendered"
                  \/ (artifactsWork[w].job = r /\ g = artifactsWork[w].cur)
    BY <1>8 DEF f
  <1> HIDE DEF r
  <1> QED
    BY <1>1, <1>3, <1>5, <1>6, <1>9, <1>10, <1>11, <1>12, WorkerMoves DEF r

LEMMA CreateRowSound ==
    ASSUME ArtifactsInv, Artifacts!ReportAssumption, NEW w \in Renderers, Artifacts!CreateRow(w)
    PROVE  ArtifactsInv'
  <1>1. /\ artifactsProc # "down" /\ artifactsWork[w].pc = "row"
               /\ UNCHANGED <<artifactsProc, artifactsRun, artifactsFile, old, sweep, artifactsCrashes>>
    BY DEF Artifacts!CreateRow, Artifacts!Live
  <1>2. CASE /\ artifactsRow' = [artifactsRow EXCEPT ![Artifacts!Current(w)] = "rendered"]
             /\ artifactsWork' = [artifactsWork EXCEPT ![w].pc = "formats", ![w].cur = NoFormat,
                                                       ![w].got = @ \cup {artifactsWork[w].cur}]
             /\ UNCHANGED artifactsErrors
    <2> DEFINE got == artifactsWork[w].got \cup {artifactsWork[w].cur}
    <2>1. artifactsWork' = [artifactsWork EXCEPT ![w] = [artifactsWork[w] EXCEPT !.pc = "formats",
              !.cur = NoFormat, !.got = got]]
      BY <1>2 DEF ArtifactsInv, WorkersSound
    <2>2. artifactsRow' = [artifactsRow EXCEPT ![<<artifactsWork[w].job,
              artifactsWork[w].cur>>] = "rendered"]
      BY <1>2 DEF Artifacts!Current
    <2>3. got = IF "rendered" = "rendered" THEN artifactsWork[w].got \cup {artifactsWork[w].cur} ELSE artifactsWork[w].got
      OBVIOUS
    <2> HIDE DEF got
    <2> QED
      BY <1>1, <1>2, <2>1, <2>2, <2>3, RowIsWritten
  <1>3. CASE /\ Artifacts!CtxFails
             /\ artifactsWork' = [artifactsWork EXCEPT ![w].pc = "failure"]
             /\ UNCHANGED artifactsRow
    <2> DEFINE x == [artifactsWork[w] EXCEPT !.pc = "failure"]
    <2>1. /\ artifactsWork[w] \in Job /\ JobSound(artifactsWork[w], artifactsRun, artifactsRow,
                 artifactsFile) /\ artifactsErrors \in 0 .. MaxReportErrors
          /\ FormatSound(artifactsWork[w], artifactsRow, artifactsFile)
      BY <1>1, JobInHand
    <2>2. artifactsWork' = [artifactsWork EXCEPT ![w] = x]
      BY <1>3 DEF ArtifactsInv, WorkersSound
    <2>3. /\ x \in Job /\ x.pc = "failure" /\ x.job = artifactsWork[w].job
          /\ x.left = artifactsWork[w].left /\ x.got = artifactsWork[w].got
                 /\ x.cur = artifactsWork[w].cur
      BY <2>1 DEF Job
    <2> HIDE DEF x
    <2>4. WorkerSound(x, artifactsRun, artifactsRow, artifactsFile)
      BY <1>1, <2>1, <2>3 DEF WorkerSound, JobSound, FormatSound, VerdictSound
    <2>5. artifactsErrors' \in 0 .. MaxReportErrors
      BY <1>3, <2>1, ErrorsCounted
    <2> QED
      BY <1>1, <1>3, <2>2, <2>3, <2>4, <2>5, WorkerTurns
  <1> QED
    BY <1>2, <1>3 DEF Artifacts!CreateRow

LEMMA RecordFailureSound ==
    ASSUME ArtifactsInv, Artifacts!ReportAssumption, NEW w \in Renderers, Artifacts!RecordFailure(w)
    PROVE  ArtifactsInv'
  <1>1. /\ artifactsProc # "down" /\ artifactsWork[w].pc = "failure"
        /\ UNCHANGED <<artifactsProc, artifactsRun, artifactsFile, old, sweep, artifactsCrashes>>
    BY DEF Artifacts!RecordFailure, Artifacts!Live
  <1>2. CASE /\ artifactsRow' = [artifactsRow EXCEPT ![Artifacts!Current(w)] = "failed"]
             /\ artifactsWork' = [artifactsWork EXCEPT ![w].pc = "formats", ![w].cur = NoFormat]
             /\ UNCHANGED artifactsErrors
    <2> DEFINE got == artifactsWork[w].got
    <2>1. artifactsWork[w] \in Job
      BY <1>1, JobInHand
    <2>2. artifactsWork' = [artifactsWork EXCEPT ![w] = [artifactsWork[w] EXCEPT !.pc = "formats",
              !.cur = NoFormat, !.got = got]]
      <3>1. [artifactsWork[w] EXCEPT !.pc = "formats", !.cur = NoFormat, !.got = got]
              = [artifactsWork[w] EXCEPT !.pc = "formats", !.cur = NoFormat]
        BY <2>1 DEF Job
      <3> QED
        BY <1>2, <3>1 DEF ArtifactsInv, WorkersSound
    <2>3. artifactsRow' = [artifactsRow EXCEPT ![<<artifactsWork[w].job,
              artifactsWork[w].cur>>] = "failed"]
      BY <1>2 DEF Artifacts!Current
    <2>4. got = IF "failed" = "rendered" THEN artifactsWork[w].got \cup {artifactsWork[w].cur} ELSE artifactsWork[w].got
      OBVIOUS
    <2> HIDE DEF got
    <2> QED
      BY <1>1, <1>2, <2>2, <2>3, <2>4, RowIsWritten
  <1>3. CASE Artifacts!CtxFails /\ artifactsWork' = [artifactsWork EXCEPT ![w] = Artifacts!Idle]
                 /\ UNCHANGED artifactsRow
    <2>1. artifactsErrors' \in 0 .. MaxReportErrors
      BY <1>1, <1>3, JobInHand, ErrorsCounted
    <2> QED
      BY <1>1, <1>3, <2>1, IdleSound, WorkerTurns
  <1> QED
    BY <1>2, <1>3 DEF Artifacts!RecordFailure

\* The state a run finishes with is true of its artifacts, whatever it replaces.
LEMMA FinishSound ==
    ASSUME ArtifactsInv, Artifacts!ReportAssumption, NEW w \in Renderers, Artifacts!Finish(w)
    PROVE  ArtifactsInv'
  <1> DEFINE r == artifactsWork[w].job
             v == artifactsWork[w].verdict
  <1>1. /\ artifactsProc # "down" /\ artifactsWork[w].pc = "finish"
               /\ artifactsWork' = [artifactsWork EXCEPT ![w] = Artifacts!Idle]
        /\ UNCHANGED <<artifactsProc, artifactsRow, artifactsFile, old, sweep, artifactsCrashes>>
    BY DEF Artifacts!Finish, Artifacts!Live
  <1>2. /\ JobSound(artifactsWork[w], artifactsRun, artifactsRow, artifactsFile)
               /\ VerdictSound(artifactsWork[w]) /\ artifactsErrors \in 0 .. MaxReportErrors
        /\ r \in Runs /\ artifactsRun \in [Runs -> RunStates]
               /\ artifactsRow \in [Artifacts!Paths -> RowStates]
        /\ artifactsFile \in [Artifacts!Paths -> {"none", "partial", "whole"}]
        /\ \A p \in Artifacts!Paths : artifactsRow[p] = "rendered" => artifactsFile[p] = "whole"
    BY <1>1, JobInHand DEF WorkerSound
  <1>3. CASE artifactsRun' = [artifactsRun EXCEPT ![r] = v] /\ UNCHANGED artifactsErrors
    <2>1. v \in Artifacts!Finished
      BY <1>1, <1>2 DEF VerdictSound
    <2>2. /\ artifactsRun' \in [Runs -> RunStates] /\ artifactsRun'[r] = v /\ v # "queued"
          /\ \A q \in Runs \ {r} : artifactsRun'[q] = artifactsRun[q]
      BY <1>2, <1>3, <2>1 DEF RunStates, Artifacts!Finished
    <2>3. OnlyOf(r, artifactsRun, artifactsRow, artifactsFile, artifactsRun', artifactsRow',
              artifactsFile')
      BY <1>1, <2>2 DEF OnlyOf
    <2>4. ReadsTrue(r, v, artifactsRow', artifactsFile')
      <3>1. {f \in Formats : artifactsRow'[<<r, f>>] \in {"rendered", "expired"}} = artifactsWork[w].got
        BY <1>1, <1>2 DEF JobSound, Offered
      <3>2. Offered(r, artifactsRow') = artifactsWork[w].got
        BY <1>1, <1>2 DEF JobSound
      <3> QED
        BY <1>1, <1>2, <2>2, <3>1, <3>2 DEF ReadsTrue, VerdictSound
    <2>5. \A f \in Formats : artifactsRow'[<<r, f>>] = "rendered" =>
            artifactsFile'[<<r, f>>] = "whole" /\ artifactsRow[<<r, f>>] = "rendered"
      BY <1>1, <1>2 DEF Artifacts!Paths
    <2>6. /\ Artifacts!Idle.job = NoRun /\ NoRun # r
          /\ WorkerSound(Artifacts!Idle, artifactsRun', artifactsRow', artifactsFile')
      BY <1>2, IdleSound DEF Artifacts!Idle, Artifacts!ReportAssumption
    <2> DEFINE x == Artifacts!Idle
    <2>7. /\ artifactsWork' = [artifactsWork EXCEPT ![w] = x] /\ x.job \in {r, NoRun} /\ ~(x.job = r)
          /\ WorkerSound(x, artifactsRun', artifactsRow', artifactsFile')
      BY <1>1, <2>6
    <2>8. /\ artifactsRun'[r] # "queued"
                 /\ ReadsTrue(r, artifactsRun'[r], artifactsRow', artifactsFile')
                        /\ artifactsErrors' \in 0 .. MaxReportErrors
          /\ artifactsRow' \in [Artifacts!Paths -> RowStates]
          /\ artifactsFile' \in [Artifacts!Paths -> {"none", "partial", "whole"}]
      BY <1>1, <1>2, <1>3, <2>2, <2>4
    <2> HIDE DEF x, r
    <2> QED
      BY <1>1, <1>2, <2>2, <2>3, <2>5, <2>7, <2>8, WorkerMoves DEF r
  <1>4. CASE Artifacts!Fails /\ UNCHANGED artifactsRun
    <2>1. artifactsErrors' \in 0 .. MaxReportErrors
      BY <1>2, <1>4, ErrorsCounted
    <2> QED
      BY <1>1, <1>4, <2>1, IdleSound, WorkerTurns
  <1> QED
    BY <1>3, <1>4 DEF Artifacts!Finish

-----------------------------------------------------------------------------
\* Where the pass is in its list is all that changes.
LEMMA PassMoves ==
    ASSUME ArtifactsInv, UNCHANGED <<artifactsProc, artifactsRun, artifactsWork, artifactsRow,
               artifactsFile, old, artifactsCrashes>>,
           artifactsErrors' \in 0 .. MaxReportErrors,
           PassSound(sweep', artifactsRun, artifactsWork, artifactsRow)
    PROVE  ArtifactsInv'
  <1>1. TablesSound'
    BY DEF ArtifactsInv, TablesSound
  <1>2. WorkersSound'
    BY DEF ArtifactsInv, WorkersSound
  <1> QED
    BY <1>1, <1>2 DEF ArtifactsInv

\* A pass that has nothing to visit knows nothing it could be wrong about.
LEMMA RestSound ==
    ASSUME NEW runs, NEW works, NEW rows
    PROVE  PassSound(Artifacts!Resting, runs, works, rows)
  BY DEF PassSound, Pass, Artifacts!Resting

\* A file that is there and that nobody writes is one nobody will write.
LEMMA GraceSound ==
    ASSUME ArtifactsInv, Artifacts!ReportAssumption, NEW p \in Artifacts!Paths,
           Artifacts!GracePasses(p)
    PROVE  ArtifactsInv'
  <1>1. /\ artifactsFile[p] # "none" /\ ~Artifacts!Writing(p) /\ old' = old \cup {p}
        /\ UNCHANGED <<artifactsProc, artifactsRun, artifactsWork, artifactsRow, artifactsFile, sweep,
               artifactsErrors, artifactsCrashes>>
    BY DEF Artifacts!GracePasses
  <1>2. p = <<p[1], p[2]>> /\ p[1] \in Runs /\ p[2] \in Formats
    BY DEF Artifacts!Paths
  <1>3. artifactsRun[p[1]] # "queued"
    BY <1>1, <1>2 DEF ArtifactsInv, TablesSound, ReadsTrue
  <1>4. ASSUME NEW w \in Renderers, artifactsWork[w].job = p[1]
        PROVE  p[2] \notin artifactsWork[w].left /\ artifactsWork[w].cur # p[2]
    <2>1. artifactsWork[w].pc # "idle"
      BY <1>2, <1>4 DEF ArtifactsInv, WorkersSound, WorkerSound, Artifacts!Idle,
                        Artifacts!ReportAssumption
    <2>2. JobSound(artifactsWork[w], artifactsRun, artifactsRow, artifactsFile)
      BY <2>1, JobInHand
    <2>3. artifactsWork[w].cur # p[2]
      BY <1>1, <1>2, <1>4 DEF Artifacts!Writing, Artifacts!Current
    <2> QED
      BY <1>1, <1>2, <1>4, <2>2, <2>3 DEF JobSound
  <1>5. Settled(p, artifactsRun, artifactsWork)
    BY <1>3, <1>4 DEF Settled
  <1>6. TablesSound'
    BY <1>1, <1>5 DEF ArtifactsInv, TablesSound
  <1>7. WorkersSound'
    BY <1>1 DEF ArtifactsInv, WorkersSound
  <1> QED
    BY <1>1, <1>6, <1>7 DEF ArtifactsInv

\* A pass begins with rows whose runs are over.
LEMMA SweepStartsSound ==
    ASSUME ArtifactsInv, Artifacts!SweepStarts
    PROVE  ArtifactsInv'
  <1>1. PICK due \in SUBSET Artifacts!Expirable :
          sweep' = [Artifacts!Resting EXCEPT !.pc = "expire", !.due = due, !.cut = old]
    BY DEF Artifacts!SweepStarts
  <1>2. UNCHANGED <<artifactsProc, artifactsRun, artifactsWork, artifactsRow, artifactsFile, old,
            artifactsErrors, artifactsCrashes>>
    BY DEF Artifacts!SweepStarts
  <1>3. old \subseteq Artifacts!Paths /\ \A p \in old : Settled(p, artifactsRun, artifactsWork)
    BY DEF ArtifactsInv, TablesSound
  <1>4. \A p \in due : p \in old /\ artifactsRow[p] = "rendered" /\ Over(p, artifactsRun, artifactsWork)
    BY <1>3 DEF Artifacts!Expirable, Artifacts!InHand, Over, Settled
  <1>5. due \subseteq Artifacts!Paths
    BY <1>3, <1>4
  <1>6. /\ sweep' \in Pass /\ sweep'.pc = "expire" /\ sweep'.due = due /\ sweep'.cut = old
    BY <1>1, <1>3, <1>5 DEF Artifacts!Resting, Pass
  <1>7. PassSound(sweep', artifactsRun, artifactsWork, artifactsRow)
    BY <1>3, <1>4, <1>6 DEF PassSound
  <1> QED
    BY <1>2, <1>7, PassMoves DEF ArtifactsInv, TablesSound

\* The pass goes on with a shorter list.
LEMMA ShorterList ==
    ASSUME NEW runs, NEW works, NEW rows, NEW s, PassSound(s, runs, works, rows), NEW p, NEW s2,
           s2 = [s EXCEPT !.due = @ \ {p}]
    PROVE  PassSound(s2, runs, works, rows)
  <1>1. /\ s2 \in Pass /\ s2.pc = s.pc /\ s2.due = s.due \ {p} /\ s2.cut = s.cut
        /\ s2.live = s.live
    BY DEF PassSound, Pass
  <1> QED
    BY <1>1 DEF PassSound

\* A tombstone: nothing is on offer that was not, and a run has produced what
\* it had produced.
LEMMA MarkExpiredSound ==
    ASSUME ArtifactsInv, Artifacts!ReportAssumption, NEW p \in Artifacts!Paths,
           Artifacts!MarkExpired(p)
    PROVE  ArtifactsInv'
  <1>1. /\ sweep.pc = "expire" /\ p \in sweep.due
        /\ UNCHANGED <<artifactsProc, artifactsRun, artifactsWork, artifactsFile, old,
               artifactsCrashes>>
    BY DEF Artifacts!MarkExpired
  <1>2. /\ PassSound(sweep, artifactsRun, artifactsWork, artifactsRow)
               /\ artifactsErrors \in 0 .. MaxReportErrors
        /\ artifactsRow \in [Artifacts!Paths -> RowStates]
    BY DEF ArtifactsInv, TablesSound
  <1>3. Over(p, artifactsRun, artifactsWork) /\ artifactsRow[p] \in {"rendered", "expired"}
    BY <1>1, <1>2 DEF PassSound
  <1>4. CASE /\ artifactsRow' = [artifactsRow EXCEPT ![p] = "expired"] /\ UNCHANGED artifactsErrors
             /\ sweep' = [sweep EXCEPT !.pc = "unlink"]
    <2> DEFINE r == p[1]
    <2>1. p = <<r, p[2]>> /\ r \in Runs /\ p[2] \in Formats
      BY DEF Artifacts!Paths
    <2>2. /\ artifactsRow' \in [Artifacts!Paths -> RowStates] /\ artifactsRow'[p] = "expired"
          /\ \A q \in Artifacts!Paths : q # p => artifactsRow'[q] = artifactsRow[q]
      BY <1>2, <1>4 DEF RowStates
    <2>3. \A q \in Runs, f \in Formats : <<q, f>> \in Artifacts!Paths
      BY DEF Artifacts!Paths
    <2>4. OnlyOf(r, artifactsRun, artifactsRow, artifactsFile, artifactsRun', artifactsRow',
              artifactsFile')
      BY <1>1, <2>1, <2>2, <2>3 DEF OnlyOf
    <2>5. ASSUME NEW w \in Renderers PROVE WorkerSound(artifactsWork'[w], artifactsRun', artifactsRow',
                     artifactsFile')
      <3>1. WorkerSound(artifactsWork[w], artifactsRun, artifactsRow, artifactsFile)
                /\ artifactsWork[w].job # r
        BY <1>3 DEF ArtifactsInv, WorkersSound, Over
      <3>2. WorkerSound(artifactsWork[w], artifactsRun', artifactsRow', artifactsFile')
        BY <2>4, <3>1, OtherWorkers
      <3> QED
        BY <1>1, <3>2
    <2>6. WorkersSound'
      BY <1>1, <2>5 DEF ArtifactsInv, WorkersSound
    <2>7. ReadsTrue(r, artifactsRun'[r], artifactsRow', artifactsFile')
      <3>1. ReadsTrue(r, artifactsRun[r], artifactsRow, artifactsFile) /\ artifactsRun[r] # "queued"
        BY <1>3, <2>1 DEF ArtifactsInv, TablesSound, Over
      <3>2. \A f \in Formats :
              artifactsRow'[<<r, f>>] \in {"rendered", "expired"}
                  <=> artifactsRow[<<r, f>>] \in {"rendered", "expired"}
        BY <1>3, <2>1, <2>2, <2>3
      <3>3. {f \in Formats : artifactsRow'[<<r, f>>] \in {"rendered", "expired"}}
              = {f \in Formats : artifactsRow[<<r, f>>] \in {"rendered", "expired"}}
        BY <3>2
      <3>4. Offered(r, artifactsRow') \subseteq Offered(r, artifactsRow)
        <4> SUFFICES ASSUME NEW f \in Formats, artifactsRow'[<<r, f>>] = "rendered"
                     PROVE  artifactsRow[<<r, f>>] = "rendered"
          BY DEF Offered
        <4>1. <<r, f>> \in Artifacts!Paths /\ <<r, f>> # p
          BY <2>1, <2>2, <2>3
        <4> QED
          BY <2>2, <4>1
      <3>5. artifactsRun'[r] = artifactsRun[r]
        BY <1>1
      <3> HIDE DEF r
      <3> QED
        BY <3>1, <3>3, <3>4, <3>5 DEF ReadsTrue
    <2>8. ASSUME NEW q \in Runs PROVE ReadsTrue(q, artifactsRun'[q], artifactsRow', artifactsFile')
      <3>1. CASE q = r
        BY <2>7, <3>1
      <3>2. CASE q # r
        <4>1. ReadsTrue(q, artifactsRun[q], artifactsRow, artifactsFile)
                  /\ artifactsRun'[q] = artifactsRun[q]
          BY <1>1 DEF ArtifactsInv, TablesSound
        <4>2. ReadsTrue(q, artifactsRun[q], artifactsRow', artifactsFile')
          BY <2>4, <3>2, <4>1, OtherRuns DEF OnlyOf
        <4> QED
          BY <4>1, <4>2
      <3> QED
        BY <3>1, <3>2
    <2>9. \A q \in Artifacts!Paths : artifactsRow'[q] = "rendered" => q # p
              /\ artifactsRow[q] = "rendered"
      BY <2>2
    <2>10. TablesSound'
      BY <1>1, <1>4, <2>2, <2>8, <2>9 DEF ArtifactsInv, TablesSound
    <2>11. PassSound(sweep', artifactsRun', artifactsWork', artifactsRow')
      <3>1. /\ sweep' \in Pass /\ sweep'.pc = "unlink" /\ sweep'.due = sweep.due
            /\ sweep'.cut = sweep.cut /\ sweep.due \subseteq Artifacts!Paths
        BY <1>2, <1>4 DEF PassSound, Pass
      <3>2. \A q \in sweep.due : Over(q, artifactsRun, artifactsWork)
                /\ artifactsRow'[q] \in {"rendered", "expired"}
        BY <1>1, <1>2, <2>2, <3>1 DEF PassSound
      <3> QED
        BY <1>1, <1>2, <3>1, <3>2 DEF PassSound
    <2> QED
      BY <2>6, <2>10, <2>11 DEF ArtifactsInv
  <1>5. CASE /\ Artifacts!Fails /\ sweep' = [sweep EXCEPT !.due = @ \ {p}] /\ UNCHANGED artifactsRow
    <2>1. artifactsErrors' \in 0 .. MaxReportErrors
      BY <1>2, <1>5, ErrorsCounted
    <2>2. PassSound(sweep', artifactsRun, artifactsWork, artifactsRow)
      BY <1>2, <1>5, ShorterList
    <2> QED
      BY <1>1, <1>5, <2>1, <2>2, PassMoves
  <1> QED
    BY <1>4, <1>5 DEF Artifacts!MarkExpired

\* Removing the file of a path nobody will write and no row offers.
LEMMA FileGoes ==
    ASSUME ArtifactsInv, Artifacts!ReportAssumption, NEW p \in Artifacts!Paths,
           Settled(p, artifactsRun, artifactsWork), artifactsRow[p] # "rendered",
           \/ Artifacts!Remove(p) /\ UNCHANGED artifactsErrors
           \/ Artifacts!Fails /\ UNCHANGED <<artifactsFile, old>>,
           UNCHANGED <<artifactsProc, artifactsRun, artifactsWork, artifactsRow, artifactsCrashes>>,
           PassSound(sweep', artifactsRun, artifactsWork, artifactsRow)
    PROVE  ArtifactsInv'
  <1>1. artifactsErrors \in 0 .. MaxReportErrors
            /\ artifactsFile \in [Artifacts!Paths -> {"none", "partial", "whole"}]
    BY DEF ArtifactsInv, TablesSound
  <1>2. CASE Artifacts!Fails /\ UNCHANGED <<artifactsFile, old>>
    <2>1. artifactsErrors' \in 0 .. MaxReportErrors
      BY <1>1, <1>2, ErrorsCounted
    <2> QED
      BY <1>2, <2>1, PassMoves
  <1>3. CASE Artifacts!Remove(p) /\ UNCHANGED artifactsErrors
    <2>1. /\ artifactsFile' \in [Artifacts!Paths -> {"none", "partial", "whole"}]
                 /\ artifactsFile'[p] = "none"
          /\ \A q \in Artifacts!Paths : q # p => artifactsFile'[q] = artifactsFile[q]
          /\ old' = old \ {p}
      BY <1>1, <1>3 DEF Artifacts!Remove
    <2>2. p = <<p[1], p[2]>> /\ p[1] \in Runs /\ p[2] \in Formats
      BY DEF Artifacts!Paths
    <2>3. \A q \in Runs, f \in Formats : <<q, f>> \in Artifacts!Paths
      BY DEF Artifacts!Paths
    <2>4. ASSUME NEW w \in Renderers PROVE WorkerSound(artifactsWork'[w], artifactsRun', artifactsRow',
                     artifactsFile')
      <3>1. WorkerSound(artifactsWork[w], artifactsRun, artifactsRow, artifactsFile)
        BY DEF ArtifactsInv, WorkersSound
      <3>2. CASE artifactsWork[w].pc = "idle"
        BY <3>1, <3>2 DEF WorkerSound, FormatSound
      <3>3. CASE artifactsWork[w].pc # "idle"
        <4>1. /\ artifactsWork[w] \in Job /\ artifactsWork[w].job \in Runs
                     /\ JobSound(artifactsWork[w], artifactsRun, artifactsRow, artifactsFile)
              /\ FormatSound(artifactsWork[w], artifactsRow, artifactsFile)
          BY <3>1, <3>3 DEF WorkerSound, JobSound
        <4>2. \A f \in artifactsWork[w].left : artifactsRow[<<artifactsWork[w].job, f>>] = "none"
                  /\ artifactsFile[<<artifactsWork[w].job, f>>] = "none"
          BY <4>1 DEF JobSound
        <4>3. \A f \in artifactsWork[w].left : artifactsFile'[<<artifactsWork[w].job, f>>] = "none"
          <5> SUFFICES ASSUME NEW f \in artifactsWork[w].left
                       PROVE artifactsFile'[<<artifactsWork[w].job, f>>] = "none"
            OBVIOUS
          <5>1. <<artifactsWork[w].job, f>> \in Artifacts!Paths
            BY <2>3, <4>1 DEF Job
          <5> QED
            BY <2>1, <4>2, <5>1
        <4>4. JobSound(artifactsWork[w], artifactsRun, artifactsRow, artifactsFile')
          BY <4>1, <4>3 DEF JobSound
        <4>5. FormatSound(artifactsWork[w], artifactsRow, artifactsFile')
          <5>1. CASE artifactsWork[w].pc = "row"
            <6>1. /\ artifactsWork[w].cur \in Formats
                         /\ <<artifactsWork[w].job, artifactsWork[w].cur>> \in Artifacts!Paths
                  /\ artifactsFile[<<artifactsWork[w].job, artifactsWork[w].cur>>] = "whole"
              BY <2>3, <4>1, <5>1 DEF FormatSound
            <6>2. <<artifactsWork[w].job, artifactsWork[w].cur>> # p
              BY <2>2, <4>1, <6>1 DEF Settled
            <6>3. artifactsFile'[<<artifactsWork[w].job, artifactsWork[w].cur>>] = "whole"
              BY <2>1, <6>1, <6>2
            <6> QED
              BY <4>1, <5>1, <6>3 DEF FormatSound
          <5>2. CASE artifactsWork[w].pc # "row"
            BY <4>1, <5>2 DEF FormatSound
          <5> QED
            BY <5>1, <5>2
        <4> QED
          BY <3>1, <3>3, <4>4, <4>5 DEF WorkerSound
      <3> QED
        BY <3>2, <3>3
    <2>5. WorkersSound'
      BY <2>4 DEF ArtifactsInv, WorkersSound
    <2>6. ASSUME NEW q \in Runs PROVE ReadsTrue(q, artifactsRun'[q], artifactsRow', artifactsFile')
      <3>1. ReadsTrue(q, artifactsRun[q], artifactsRow, artifactsFile)
        BY DEF ArtifactsInv, TablesSound
      <3>2. \A f \in Formats : artifactsFile'[<<q, f>>] \in {artifactsFile[<<q, f>>], "none"}
        BY <2>1, <2>3
      <3> QED
        BY <3>1, <3>2 DEF ReadsTrue
    <2>7. TablesSound'
      <3>1. \A q \in Artifacts!Paths : artifactsRow'[q] = "rendered" => artifactsFile'[q] = "whole"
        BY <2>1 DEF ArtifactsInv, TablesSound
      <3> QED
        BY <1>3, <2>1, <2>6, <3>1 DEF ArtifactsInv, TablesSound
    <2> QED
      BY <2>5, <2>7 DEF ArtifactsInv
  <1> QED
    BY <1>2, <1>3

LEMMA UnlinkExpiredSound ==
    ASSUME ArtifactsInv, Artifacts!ReportAssumption, NEW p \in Artifacts!Paths,
           Artifacts!UnlinkExpired(p)
    PROVE  ArtifactsInv'
  <1>1. /\ sweep.pc = "unlink" /\ p \in sweep.due /\ artifactsRow[p] = "expired"
        /\ sweep' = [sweep EXCEPT !.pc = "expire", !.due = @ \ {p}]
    BY DEF Artifacts!UnlinkExpired
  <1>2. PassSound(sweep, artifactsRun, artifactsWork, artifactsRow)
    BY DEF ArtifactsInv
  <1>3. Settled(p, artifactsRun, artifactsWork)
    BY <1>1, <1>2 DEF PassSound, Over, Settled
  <1>4. /\ sweep' \in Pass /\ sweep'.pc = "expire" /\ sweep'.due = sweep.due \ {p}
        /\ sweep'.cut = sweep.cut
    BY <1>1, <1>2 DEF PassSound, Pass
  <1>5. PassSound(sweep', artifactsRun, artifactsWork, artifactsRow)
    BY <1>1, <1>2, <1>4 DEF PassSound
  <1> QED
    BY <1>1, <1>3, <1>5, FileGoes DEF Artifacts!UnlinkExpired

LEMMA RemoveOrphanSound ==
    ASSUME ArtifactsInv, Artifacts!ReportAssumption, NEW p \in Artifacts!Paths,
           Artifacts!RemoveOrphan(p)
    PROVE  ArtifactsInv'
  <1>1. sweep.pc = "remove" /\ p \in sweep.due /\ sweep' = [sweep EXCEPT !.due = @ \ {p}]
    BY DEF Artifacts!RemoveOrphan
  <1>2. PassSound(sweep, artifactsRun, artifactsWork, artifactsRow)
    BY DEF ArtifactsInv
  <1>3. Settled(p, artifactsRun, artifactsWork) /\ artifactsRow[p] # "rendered"
    BY <1>1, <1>2 DEF PassSound
  <1>4. PassSound(sweep', artifactsRun, artifactsWork, artifactsRow)
    BY <1>1, <1>2, ShorterList
  <1> QED
    BY <1>3, <1>4, FileGoes DEF Artifacts!RemoveOrphan

\* The list of live paths is read before the walk: what it misses has no row,
\* and gets none while the pass runs.
LEMMA ReadLiveSound ==
    ASSUME ArtifactsInv, Artifacts!ReportAssumption, Artifacts!ReadLive
    PROVE  ArtifactsInv'
  <1>1. PassSound(sweep, artifactsRun, artifactsWork, artifactsRow)
            /\ artifactsErrors \in 0 .. MaxReportErrors
    BY DEF ArtifactsInv, TablesSound
  <1>2. UNCHANGED <<artifactsProc, artifactsRun, artifactsWork, artifactsRow, artifactsFile, old,
            artifactsCrashes>>
    BY DEF Artifacts!ReadLive
  <1>3. CASE /\ UNCHANGED artifactsErrors
             /\ sweep' = [sweep EXCEPT !.pc = "walk",
                            !.live = {p \in Artifacts!Paths : artifactsRow[p] = "rendered"}]
    <2>1. /\ sweep' \in Pass /\ sweep'.pc = "walk" /\ sweep'.cut = sweep.cut
          /\ sweep'.live = {p \in Artifacts!Paths : artifactsRow[p] = "rendered"}
          /\ sweep.cut \subseteq Artifacts!Paths
      BY <1>1, <1>3 DEF PassSound, Pass
    <2>2. PassSound(sweep', artifactsRun, artifactsWork, artifactsRow)
      BY <1>1, <2>1 DEF PassSound
    <2> QED
      BY <1>1, <1>2, <1>3, <2>2, PassMoves
  <1>4. CASE Artifacts!Fails /\ sweep' = Artifacts!Resting
    <2>1. artifactsErrors' \in 0 .. MaxReportErrors
      BY <1>1, <1>4, ErrorsCounted
    <2> QED
      BY <1>2, <1>4, <2>1, RestSound, PassMoves
  <1> QED
    BY <1>3, <1>4 DEF Artifacts!ReadLive

LEMMA WalkSound ==
    ASSUME ArtifactsInv, Artifacts!Walk
    PROVE  ArtifactsInv'
  <1>1. /\ sweep.pc = "walk" /\ PassSound(sweep, artifactsRun, artifactsWork, artifactsRow)
               /\ artifactsErrors \in 0 .. MaxReportErrors
        /\ sweep' = [Artifacts!Resting EXCEPT !.pc = "remove", !.due = Artifacts!Orphans]
        /\ UNCHANGED <<artifactsProc, artifactsRun, artifactsWork, artifactsRow, artifactsFile, old,
               artifactsErrors, artifactsCrashes>>
    BY DEF Artifacts!Walk, ArtifactsInv, TablesSound
  <1>2. \A p \in Artifacts!Orphans :
          p \in Artifacts!Paths /\ Settled(p, artifactsRun, artifactsWork)
              /\ artifactsRow[p] # "rendered"
    BY <1>1 DEF Artifacts!Orphans, PassSound, Pass
  <1>3. /\ sweep' \in Pass /\ sweep'.pc = "remove" /\ sweep'.due = Artifacts!Orphans
        /\ sweep'.cut = {}
    BY <1>1, <1>2 DEF Artifacts!Resting, Pass
  <1>4. PassSound(sweep', artifactsRun, artifactsWork, artifactsRow)
    BY <1>2, <1>3 DEF PassSound
  <1> QED
    BY <1>1, <1>4, PassMoves

\* The process ends: what workers and the sweeper knew is gone.
LEMMA ExitSound ==
    ASSUME ArtifactsInv, Artifacts!ReportAssumption, Artifacts!Exit
    PROVE  ArtifactsInv'
  <1>1. /\ artifactsProc' = "down" /\ artifactsCrashes < MaxReportCrashes
               /\ artifactsCrashes' = artifactsCrashes + 1
        /\ artifactsWork' = [w \in Renderers |-> Artifacts!Idle] /\ sweep' = Artifacts!Resting
        /\ UNCHANGED <<artifactsRun, artifactsRow, artifactsFile, old, artifactsErrors>>
    BY DEF Artifacts!Exit
  <1>2. artifactsCrashes' \in 0 .. MaxReportCrashes
    BY <1>1 DEF ArtifactsInv, TablesSound, Artifacts!ReportAssumption
  <1>3. \A p \in Artifacts!Paths : Settled(p, artifactsRun, artifactsWork)
            => Settled(p, artifactsRun', artifactsWork')
    <2> SUFFICES ASSUME NEW p \in Artifacts!Paths, Settled(p, artifactsRun, artifactsWork)
                 PROVE  Settled(p, artifactsRun', artifactsWork')
      OBVIOUS
    <2>1. p[1] \in Runs
      BY DEF Artifacts!Paths
    <2>2. \A w \in Renderers : artifactsWork'[w].job # p[1]
      BY <1>1, <2>1 DEF Artifacts!Idle, Artifacts!ReportAssumption
    <2> QED
      BY <1>1, <2>2 DEF Settled
  <1>4. TablesSound'
    BY <1>1, <1>2, <1>3 DEF ArtifactsInv, TablesSound
  <1>5. WorkersSound'
    <2>1. \A w \in Renderers : artifactsWork'[w] = Artifacts!Idle
      BY <1>1
    <2>2. \A w \in Renderers : WorkerSound(artifactsWork'[w], artifactsRun', artifactsRow',
              artifactsFile')
      BY <2>1, IdleSound
    <2>3. Artifacts!Idle.job = NoRun
      BY DEF Artifacts!Idle
    <2>4. artifactsWork' \in [Renderers -> Job]
      BY <1>1, IdleSound DEF WorkerSound
    <2> QED
      BY <1>1, <2>1, <2>2, <2>3, <2>4 DEF WorkersSound
  <1>6. PassSound(sweep', artifactsRun', artifactsWork', artifactsRow')
    BY <1>1, RestSound
  <1> QED
    BY <1>4, <1>5, <1>6 DEF ArtifactsInv

\* RecoverInterruptedReportRuns tells the truth about what it finds running.
LEMMA RestartSound ==
    ASSUME ArtifactsInv, Artifacts!ReportAssumption, Artifacts!Restart
    PROVE  ArtifactsInv'
  <1>1. /\ artifactsProc = "down" /\ artifactsProc' = "up"
               /\ UNCHANGED <<artifactsWork, artifactsRow, artifactsFile, old, sweep, artifactsCrashes>>
        /\ \/ artifactsRun' = [r \in Runs |-> Artifacts!Recovered(r)] /\ UNCHANGED artifactsErrors
           \/ Artifacts!Fails /\ UNCHANGED artifactsRun
    BY DEF Artifacts!Restart
  <1>2. /\ artifactsRun \in [Runs -> RunStates] /\ artifactsErrors \in 0 .. MaxReportErrors
        /\ \A w \in Renderers : artifactsWork[w] = Artifacts!Idle
    BY <1>1 DEF ArtifactsInv, TablesSound, WorkersSound
  <1>3. artifactsErrors' \in 0 .. MaxReportErrors
    BY <1>1, <1>2, ErrorsCounted
  <1>4. ASSUME NEW r \in Runs
        PROVE  /\ artifactsRun'[r] \in RunStates
                      /\ (artifactsRun'[r] = "queued" <=> artifactsRun[r] = "queued")
               /\ ReadsTrue(r, artifactsRun'[r], artifactsRow', artifactsFile')
    <2>1. ReadsTrue(r, artifactsRun[r], artifactsRow, artifactsFile) /\ artifactsRun[r] \in RunStates
      BY <1>2 DEF ArtifactsInv, TablesSound
    <2>2. CASE artifactsRun'[r] = artifactsRun[r]
      BY <1>1, <2>1, <2>2
    <2>3. CASE artifactsRun'[r] # artifactsRun[r]
      <3>1. artifactsRun[r] = "running"
                /\ artifactsRun'[r] = IF Artifacts!Rendered(r) # {} THEN "partial" ELSE "failed"
        BY <1>1, <2>3 DEF Artifacts!Recovered
      <3>2. Artifacts!Rendered(r) = Offered(r, artifactsRow')
        BY <1>1 DEF Artifacts!Rendered, Offered
      <3>3. Offered(r, artifactsRow') \subseteq {f \in Formats : artifactsRow'[<<r,
                f>>] \in {"rendered", "expired"}}
        BY DEF Offered
      <3>4. ReadsTrue(r, artifactsRun'[r], artifactsRow', artifactsFile')
        BY <3>1, <3>2, <3>3 DEF ReadsTrue
      <3> QED
        BY <3>1, <3>4 DEF RunStates, Artifacts!Finished
    <2> QED
      BY <2>2, <2>3
  <1>5. artifactsRun' \in [Runs -> RunStates]
    BY <1>1, <1>2, <1>4
  <1>6. \A p \in Artifacts!Paths : /\ Settled(p, artifactsRun, artifactsWork) => Settled(p, artifactsRun', artifactsWork')
                                   /\ Over(p, artifactsRun, artifactsWork)
                                          => Over(p, artifactsRun', artifactsWork')
    BY <1>1, <1>4 DEF Settled, Over, Artifacts!Paths
  <1>7. TablesSound'
    BY <1>1, <1>3, <1>4, <1>5, <1>6 DEF ArtifactsInv, TablesSound
  <1>8. WorkersSound'
    <2>1. \A w \in Renderers : WorkerSound(artifactsWork'[w], artifactsRun', artifactsRow',
              artifactsFile')
      BY <1>1, <1>2, IdleSound
    <2> QED
      BY <1>1, <2>1 DEF ArtifactsInv, WorkersSound
  <1>9. PassSound(sweep', artifactsRun', artifactsWork', artifactsRow')
    BY <1>1, <1>6 DEF ArtifactsInv, PassSound, Pass
  <1> QED
    BY <1>7, <1>8, <1>9 DEF ArtifactsInv

LEMMA ArtifactsInvInit ==
    ASSUME Artifacts!ReportAssumption, Artifacts!Init
    PROVE  ArtifactsInv
  <1>1. TablesSound
    <2>1. \A r \in Runs : ReadsTrue(r, artifactsRun[r], artifactsRow, artifactsFile)
      BY DEF Artifacts!Init, ReadsTrue, Artifacts!Paths
    <2> QED
      BY <2>1 DEF Artifacts!Init, TablesSound, RunStates, RowStates, Artifacts!ReportAssumption
  <1>2. WorkersSound
    <2>1. \A w \in Renderers : artifactsWork[w] = Artifacts!Idle
      BY DEF Artifacts!Init
    <2>2. Artifacts!Idle.job = NoRun
      BY DEF Artifacts!Idle
    <2>3. \A w \in Renderers : WorkerSound(artifactsWork[w], artifactsRun, artifactsRow, artifactsFile)
      BY <2>1, IdleSound
    <2>4. artifactsWork \in [Renderers -> Job]
      BY IdleSound DEF WorkerSound, Artifacts!Init
    <2>5. artifactsProc = "up"
      BY DEF Artifacts!Init
    <2> QED
      BY <2>1, <2>2, <2>3, <2>4, <2>5 DEF WorkersSound
  <1> QED
    BY <1>1, <1>2, RestSound DEF ArtifactsInv, Artifacts!Init

LEMMA WorkerStepSound ==
    ASSUME ArtifactsInv, Artifacts!ReportAssumption, NEW w \in Renderers, Artifacts!Step(w)
    PROVE  ArtifactsInv'
  BY StartSound, ComposeSound, LoopEndsSound, WritePartialSound, PlaceFileSound, CreateRowSound,
     RecordFailureSound, FinishSound DEF Artifacts!Step

LEMMA SweepStepSound ==
    ASSUME ArtifactsInv, Artifacts!ReportAssumption, Artifacts!SweepStep
    PROVE  ArtifactsInv'
  <1>1. CASE Artifacts!SweepEnds
    BY <1>1, RestSound, PassMoves DEF Artifacts!SweepEnds, ArtifactsInv, TablesSound
  <1> QED
    BY <1>1, SweepStartsSound, ReadLiveSound, WalkSound, MarkExpiredSound, UnlinkExpiredSound,
       RemoveOrphanSound DEF Artifacts!SweepStep

LEMMA ArtifactsInvStep ==
    ASSUME ArtifactsInv, Artifacts!ReportAssumption, [Artifacts!Next]_(Artifacts!vars)
    PROVE  ArtifactsInv'
  <1>1. CASE UNCHANGED Artifacts!vars
    BY <1>1 DEF Artifacts!vars, ArtifactsInv, TablesSound, WorkersSound
  <1>2. CASE Artifacts!Shutdown
    <2>1. artifactsProc = "up" /\ artifactsProc' = "stopping"
          /\ UNCHANGED <<artifactsRun, artifactsWork, artifactsRow, artifactsFile, old, sweep,
                 artifactsErrors, artifactsCrashes>>
      BY <1>2 DEF Artifacts!Shutdown, Artifacts!Up
    <2> QED
      BY <2>1 DEF ArtifactsInv, TablesSound, WorkersSound
  <1> QED
    BY <1>1, <1>2, WorkerStepSound, SweepStepSound, GraceSound, ExitSound, RestartSound
    DEF Artifacts!Next

LEMMA ArtifactsInvAlways ==
    ASSUME Artifacts!ReportAssumption PROVE Artifacts!Spec => []ArtifactsInv
  <1>1. Artifacts!Init => ArtifactsInv
    BY ArtifactsInvInit
  <1>2. ArtifactsInv /\ [Artifacts!Next]_(Artifacts!vars) => ArtifactsInv'
    BY ArtifactsInvStep
  <1> QED
    BY <1>1, <1>2, PTL DEF Artifacts!Spec

(* The runner, the sweeper and the tables stay within their types.          *)
THEOREM ArtifactsTypes ==
    ASSUME Artifacts!ReportAssumption PROVE Artifacts!Spec => []Artifacts!TypeOK
  <1>1. ArtifactsInv => Artifacts!TypeOK
    <2> SUFFICES ASSUME ArtifactsInv PROVE Artifacts!TypeOK
      OBVIOUS
    <2>1. artifactsWork \in [Renderers -> Job]
      BY DEF ArtifactsInv, WorkersSound
    <2>2. sweep \in Pass
      BY DEF ArtifactsInv, PassSound
    <2> QED
      BY <2>1, <2>2 DEF ArtifactsInv, TablesSound, Artifacts!TypeOK, Job, Pass, RunStates, RowStates
  <1> QED
    BY <1>1, ArtifactsInvAlways, PTL

(* An artifact the database offers is on disk, whole, whatever crash, stale *)
(* list of the sweeper or failed call came before (storeArtifact, expire    *)
(* and orphans; internal/report/runner, internal/artifact).                 *)
THEOREM OfferedIsOnDisk ==
    ASSUME Artifacts!ReportAssumption PROVE Artifacts!Spec => []NoDanglingRow
  <1>1. ArtifactsInv => NoDanglingRow
    BY DEF ArtifactsInv, TablesSound, NoDanglingRow, Artifacts!NoDanglingRow
  <1> QED
    BY <1>1, ArtifactsInvAlways, PTL

(* The state a run is shown with agrees with what it produced, also after a *)
(* cancelled Execute and after RecoverInterruptedReportRuns.                *)
THEOREM StateTellsTheTruth ==
    ASSUME Artifacts!ReportAssumption PROVE Artifacts!Spec => []Artifacts!StateReadsTrue
  <1>1. ArtifactsInv => Artifacts!StateReadsTrue
    <2> SUFFICES ASSUME ArtifactsInv, NEW r \in Runs
                 PROVE  LET produced == {f \in Formats : artifactsRow[<<r, f>>] \in {"rendered",
                            "expired"}}
                        IN  /\ artifactsRun[r] = "succeeded" => produced = Asked[r]
                            /\ artifactsRun[r] = "partial" => produced # {}
                            /\ artifactsRun[r] = "failed" => Artifacts!Rendered(r) = {}
                            /\ artifactsRun[r] = "queued" =>
                                 \A f \in Formats : artifactsRow[<<r, f>>] = "none"
                                     /\ artifactsFile[<<r, f>>] = "none"
      BY DEF Artifacts!StateReadsTrue
    <2>1. ReadsTrue(r, artifactsRun[r], artifactsRow, artifactsFile)
      BY DEF ArtifactsInv, TablesSound
    <2>2. Artifacts!Rendered(r) = Offered(r, artifactsRow)
      BY DEF Artifacts!Rendered, Offered
    <2> QED
      BY <2>1, <2>2 DEF ReadsTrue
  <1> QED
    BY <1>1, ArtifactsInvAlways, PTL

(* A finished run stays as it finished, although FinishReportRun does not   *)
(* look at the state it replaces: a worker's run is running until it is     *)
(* done with it, and the recovery of a start-up meets no worker.            *)
THEOREM FinishedStaysFinished ==
    ASSUME Artifacts!ReportAssumption PROVE Artifacts!Spec => Artifacts!FinishedIsFinal
  <1>1. ASSUME ArtifactsInv, [Artifacts!Next]_(Artifacts!vars),
               NEW r \in Runs, artifactsRun[r] \in Artifacts!Finished
        PROVE  artifactsRun'[r] = artifactsRun[r]
    <2>1. artifactsRun \in [Runs -> RunStates] /\ artifactsRun[r] # "queued"
              /\ artifactsRun[r] # "running"
      BY <1>1 DEF ArtifactsInv, TablesSound, Artifacts!Finished
    <2>2. ASSUME NEW w \in Renderers, NEW q \in Runs, Artifacts!Start(w, q)
          PROVE artifactsRun'[r] = artifactsRun[r]
      BY <2>1, <2>2 DEF Artifacts!Start, Artifacts!MayStart
    <2>3. ASSUME NEW w \in Renderers, Artifacts!Finish(w) PROVE artifactsRun'[r] = artifactsRun[r]
      <3>1. artifactsRun[artifactsWork[w].job] = "running"
        BY <1>1, <2>3 DEF Artifacts!Finish, ArtifactsInv, WorkersSound, WorkerSound, JobSound
      <3> QED
        BY <2>1, <2>3, <3>1 DEF Artifacts!Finish
    <2>4. ASSUME Artifacts!Restart PROVE artifactsRun'[r] = artifactsRun[r]
      BY <2>1, <2>4 DEF Artifacts!Restart, Artifacts!Recovered
    <2>5. ASSUME NEW w \in Renderers, Artifacts!Step(w) PROVE artifactsRun'[r] = artifactsRun[r]
      <3>1. CASE \/ Artifacts!Compose(w) \/ Artifacts!LoopEnds(w) \/ Artifacts!PlaceFile(w)
                 \/ Artifacts!CreateRow(w) \/ Artifacts!RecordFailure(w)
        BY <3>1 DEF Artifacts!Compose, Artifacts!LoopEnds, Artifacts!PlaceFile,
                    Artifacts!CreateRow, Artifacts!RecordFailure
      <3>2. ASSUME NEW f \in Formats, Artifacts!WritePartial(w, f)
            PROVE artifactsRun'[r] = artifactsRun[r]
        BY <3>2 DEF Artifacts!WritePartial
      <3> QED
        BY <2>2, <2>3, <2>5, <3>1, <3>2 DEF Artifacts!Step
    <2>6. ASSUME Artifacts!SweepStep PROVE artifactsRun'[r] = artifactsRun[r]
      BY <2>6
      DEF Artifacts!SweepStep, Artifacts!SweepStarts, Artifacts!MarkExpired,
          Artifacts!UnlinkExpired, Artifacts!ReadLive, Artifacts!Walk, Artifacts!RemoveOrphan,
          Artifacts!SweepEnds
    <2>7. ASSUME NEW p \in Artifacts!Paths, Artifacts!GracePasses(p)
          PROVE artifactsRun'[r] = artifactsRun[r]
      BY <2>7 DEF Artifacts!GracePasses
    <2>8. CASE Artifacts!Shutdown \/ Artifacts!Exit \/ UNCHANGED Artifacts!vars
      BY <2>8 DEF Artifacts!Shutdown, Artifacts!Exit, Artifacts!vars
    <2> QED
      BY <1>1, <2>4, <2>5, <2>6, <2>7, <2>8 DEF Artifacts!Next
  <1>2. ArtifactsInv /\ [Artifacts!Next]_(Artifacts!vars) =>
          [\A r \in Runs : artifactsRun[r] \in Artifacts!Finished
              => artifactsRun'[r] = artifactsRun[r]]_(Artifacts!vars)
    BY <1>1
  <1> QED
    BY <1>2, ArtifactsInvAlways, PTL DEF Artifacts!Spec, Artifacts!FinishedIsFinal

-----------------------------------------------------------------------------
(* The firings of a schedule *)

ScheduleRow ==
    [next : 0 .. (MaxFirings + 1), enabled : BOOLEAN, deleted : BOOLEAN, target : 0 .. MaxTargetEdits]
Edit == [next : 0 .. (MaxFirings + 1), enabled : BOOLEAN, fresh : BOOLEAN]

\* The inductive invariant: no firing is ahead of the clock, a claim that is
\* under way read the clock after every firing there has been, and a schedule
\* waits for a firing that was claimed only when an update set it again.
FiringInv ==
    /\ schedulesNow \in 0 .. MaxFirings
    /\ schedulesSchedule \in ScheduleRow /\ edit \in Edit
    /\ firing \in [Firings -> 0 .. MaxFirings] /\ \A r \in Firings : firing[r] <= schedulesNow
    /\ tick \in [due : 0 .. MaxFirings, at : 0 .. MaxFirings]
    /\ tick # Firing!NoTick =>
         tick.due \in 1 .. tick.at /\ tick.at <= schedulesNow /\ \A r \in Firings : firing[r] <= tick.at
    /\ edit # Firing!NoEdit =>
         edit.next \in 1 .. (schedulesNow + 1)
             /\ (edit.fresh => schedulesSchedule.target < MaxTargetEdits)
    /\ schedulesSchedule.next # 0 /\ (\E r \in Firings : firing[r] = schedulesSchedule.next) =>
         schedulesSchedule.next \in rearmed
    /\ rearmed \subseteq 1 .. MaxFirings
    /\ Firing!OneRunPerFiring

LEMMA FiringInvInit ==
    ASSUME Firing!ScheduleAssumption, Firing!Init
    PROVE  FiringInv
  <1>1. MaxFirings \in Nat /\ MaxTargetEdits \in Nat
    BY DEF Firing!ScheduleAssumption
  <1>2. schedulesSchedule \in ScheduleRow /\ schedulesSchedule.next = 1 /\ edit \in Edit
    BY <1>1 DEF Firing!Init, Firing!NoEdit, ScheduleRow, Edit
  <1>3. tick \in [due : 0 .. MaxFirings, at : 0 .. MaxFirings] /\ tick = Firing!NoTick
    BY <1>1 DEF Firing!Init, Firing!NoTick
  <1>4. edit = Firing!NoEdit /\ schedulesNow = 0 /\ firing = [r \in Firings |-> 0] /\ rearmed = {}
    BY DEF Firing!Init
  <1> QED
    BY <1>1, <1>2, <1>3, <1>4 DEF FiringInv, Firing!OneRunPerFiring

\* The next firing of a schedule is written, and nothing else of it.
LEMMA NextWritten ==
    ASSUME NEW s \in ScheduleRow, NEW n \in 0 .. (MaxFirings + 1), NEW t, t = [s EXCEPT !.next = n]
    PROVE  t \in ScheduleRow /\ t.next = n /\ t.target = s.target
  BY DEF ScheduleRow

\* A claim: the firing it takes was not taken, or was set again, and the one the
\* schedule waits for now is after all there have been.
LEMMA ClaimFires ==
    ASSUME FiringInv, Firing!ScheduleAssumption, NEW r \in Firings, Firing!Claim(r)
    PROVE  FiringInv'
  <1>1. /\ tick # Firing!NoTick /\ schedulesSchedule.next = tick.due
        /\ firing' = [firing EXCEPT ![r] = tick.due] /\ tick' = Firing!NoTick
        /\ UNCHANGED <<schedulesNow, edit, rearmed>>
    BY DEF Firing!Claim
  <1>2. /\ tick.due \in 1 .. tick.at /\ tick.at <= schedulesNow
               /\ \A s \in Firings : firing[s] <= tick.at
        /\ tick.due \in Nat /\ tick.at \in Nat /\ schedulesNow \in Nat /\ schedulesNow <= MaxFirings
        /\ MaxFirings \in Nat /\ firing \in [Firings -> 0 .. MaxFirings]
    BY <1>1 DEF FiringInv, Firing!ScheduleAssumption
  <1>3. /\ firing' \in [Firings -> 0 .. MaxFirings] /\ firing'[r] = tick.due
        /\ \A s \in Firings : s # r => firing'[s] = firing[s]
    BY <1>1, <1>2
  <1>4. \A s \in Firings : firing'[s] <= tick.at /\ firing'[s] \in Nat
    BY <1>2, <1>3
  <1>5. /\ schedulesSchedule' \in ScheduleRow /\ schedulesSchedule'.next \in {0, tick.at + 1}
        /\ schedulesSchedule'.target = schedulesSchedule.target
    <2>1. tick.at + 1 \in 0 .. (MaxFirings + 1) /\ 0 \in 0 .. (MaxFirings + 1)
      BY <1>2
    <2>2. schedulesSchedule \in ScheduleRow
      BY DEF FiringInv
    <2>3. \/ schedulesSchedule' = [schedulesSchedule EXCEPT !.next = tick.at + 1]
          \/ schedulesSchedule' = [schedulesSchedule EXCEPT !.next = 0]
      BY DEF Firing!Claim, Firing!Advanced
    <2> QED
      BY <2>1, <2>2, <2>3, NextWritten
  <1>6. Firing!NoTick \in [due : 0 .. MaxFirings, at : 0 .. MaxFirings]
    BY <1>2 DEF Firing!NoTick
  <1>7. schedulesSchedule'.next # 0 => \A s \in Firings : firing'[s] # schedulesSchedule'.next
    BY <1>2, <1>4, <1>5
  <1>8. Firing!OneRunPerFiring'
    <2> SUFFICES ASSUME NEW s \in Firings, NEW t \in Firings, s # t, firing'[s] # 0,
                        firing'[s] = firing'[t]
                 PROVE  firing'[s] \in rearmed
      BY <1>1 DEF Firing!OneRunPerFiring
    <2>1. CASE s # r /\ t # r
      BY <1>3, <2>1 DEF FiringInv, Firing!OneRunPerFiring
    <2>2. CASE s = r \/ t = r
      <3>1. \E q \in Firings : firing[q] = schedulesSchedule.next
        BY <1>1, <1>3, <2>2
      <3>2. schedulesSchedule.next # 0 /\ firing'[s] = schedulesSchedule.next
        BY <1>1, <1>2, <1>3, <2>2
      <3> QED
        BY <3>1, <3>2 DEF FiringInv
    <2> QED
      BY <2>1, <2>2
  <1> QED
    BY <1>1, <1>2, <1>3, <1>4, <1>5, <1>6, <1>7, <1>8 DEF FiringInv

\* An update that read the clock before a claim may set its firing again.
LEMMA EditFires ==
    ASSUME FiringInv, Firing!ScheduleAssumption, Firing!EditWrites
    PROVE  FiringInv'
  <1>1. /\ edit # Firing!NoEdit /\ edit' = Firing!NoEdit /\ UNCHANGED <<schedulesNow, tick, firing>>
    BY DEF Firing!EditWrites
  <1>2. /\ MaxFirings \in Nat /\ MaxTargetEdits \in Nat /\ schedulesSchedule \in ScheduleRow
               /\ edit \in Edit
        /\ edit.next \in 1 .. (schedulesNow + 1) /\ schedulesNow \in 0 .. MaxFirings
        /\ edit.fresh => schedulesSchedule.target < MaxTargetEdits
    BY <1>1 DEF FiringInv, Firing!ScheduleAssumption
  <1>3. edit' \in Edit
    BY <1>1, <1>2 DEF Firing!NoEdit, Edit
  <1>4. CASE schedulesSchedule.deleted
    <2>1. UNCHANGED <<schedulesSchedule, rearmed>>
      BY <1>4 DEF Firing!EditWrites
    <2> QED
      BY <1>1, <1>3, <2>1 DEF FiringInv, Firing!OneRunPerFiring
  <1>5. CASE ~schedulesSchedule.deleted
    <2>1. /\ schedulesSchedule' = [next |-> edit.next, enabled |-> edit.enabled, deleted |-> FALSE,
                                   target |-> schedulesSchedule.target + (IF edit.fresh THEN 1 ELSE 0)]
          /\ rearmed' = rearmed \cup {n \in {edit.next} : \E r \in Firings : firing[r] = n}
      BY <1>5 DEF Firing!EditWrites
    <2>2. schedulesSchedule.target + (IF edit.fresh THEN 1 ELSE 0) \in 0 .. MaxTargetEdits
      BY <1>2 DEF ScheduleRow
    <2>3. edit.next \in 0 .. (MaxFirings + 1) /\ edit.enabled \in BOOLEAN
      BY <1>2 DEF Edit
    <2>4. schedulesSchedule' \in ScheduleRow
      BY <2>1, <2>2, <2>3 DEF ScheduleRow
    <2>5. schedulesSchedule'.next = edit.next
      BY <2>1
    <2>6. (\E r \in Firings : firing[r] = edit.next) => edit.next \in rearmed'
      BY <2>1
    <2>7. rearmed' \subseteq 1 .. MaxFirings /\ rearmed \subseteq rearmed'
      <3>1. ASSUME NEW r \in Firings, firing[r] = edit.next PROVE edit.next \in 1 .. MaxFirings
        <4>1. firing[r] \in 0 .. MaxFirings
          BY DEF FiringInv
        <4> QED
          BY <1>2, <3>1, <4>1
      <3>2. rearmed \subseteq 1 .. MaxFirings
        BY DEF FiringInv
      <3> QED
        BY <2>1, <3>1, <3>2
    <2>8. Firing!OneRunPerFiring'
      BY <1>1, <2>7 DEF FiringInv, Firing!OneRunPerFiring
    <2> QED
      BY <1>1, <1>3, <2>4, <2>5, <2>6, <2>7, <2>8 DEF FiringInv
  <1> QED
    BY <1>4, <1>5

LEMMA FiringInvStep ==
    ASSUME FiringInv, Firing!ScheduleAssumption, [Firing!Next]_(Firing!vars)
    PROVE  FiringInv'
  <1>1. CASE UNCHANGED <<schedulesNow, schedulesSchedule, edit, rearmed, tick, firing>>
    BY <1>1 DEF FiringInv, Firing!OneRunPerFiring
  <1>2. CASE Firing!TimePasses
    <2>1. /\ schedulesNow < MaxFirings /\ schedulesNow' = schedulesNow + 1
                 /\ UNCHANGED <<schedulesSchedule, edit, rearmed, tick, firing>>
      BY <1>2 DEF Firing!TimePasses, Firing!requestVars
    <2>2. schedulesNow' \in 0 .. MaxFirings /\ schedulesNow <= schedulesNow' /\ schedulesNow \in Nat
              /\ MaxFirings \in Nat
      BY <2>1 DEF FiringInv, Firing!ScheduleAssumption
    <2>3. \A r \in Firings : firing'[r] <= schedulesNow'
      BY <2>1, <2>2 DEF FiringInv
    <2>4. tick' # Firing!NoTick =>
            /\ tick'.due \in 1 .. tick'.at /\ tick'.at <= schedulesNow'
            /\ \A r \in Firings : firing'[r] <= tick'.at
      BY <2>1, <2>2 DEF FiringInv
    <2>5. edit' # Firing!NoEdit =>
            edit'.next \in 1 .. (schedulesNow' + 1)
                /\ (edit'.fresh => schedulesSchedule'.target < MaxTargetEdits)
      BY <2>1, <2>2 DEF FiringInv
    <2> QED
      BY <2>1, <2>2, <2>3, <2>4, <2>5 DEF FiringInv, Firing!OneRunPerFiring
  <1>3. CASE Firing!TickReads
    <2>1. /\ schedulesSchedule.next \in 1 .. schedulesNow
                 /\ tick' = [due |-> schedulesSchedule.next, at |-> schedulesNow]
          /\ UNCHANGED <<schedulesNow, schedulesSchedule, edit, rearmed, firing>>
      BY <1>3 DEF Firing!TickReads, Firing!Due, Firing!requestVars
    <2>2. schedulesNow \in 0 .. MaxFirings /\ MaxFirings \in Nat
              /\ \A r \in Firings : firing[r] <= schedulesNow
      BY DEF FiringInv, Firing!ScheduleAssumption
    <2>3. tick' \in [due : 0 .. MaxFirings, at : 0 .. MaxFirings]
      BY <2>1, <2>2
    <2> QED
      BY <2>1, <2>2, <2>3 DEF FiringInv, Firing!OneRunPerFiring
  <1>4. CASE tick' = Firing!NoTick /\ UNCHANGED <<schedulesNow, schedulesSchedule, edit, rearmed,
                 firing>>
    <2>1. Firing!NoTick \in [due : 0 .. MaxFirings, at : 0 .. MaxFirings]
      BY DEF FiringInv, Firing!NoTick, Firing!ScheduleAssumption
    <2> QED
      BY <1>4, <2>1 DEF FiringInv, Firing!OneRunPerFiring
  <1>5. CASE Firing!EditReads
    <2>1. PICK enabled \in BOOLEAN, fresh \in BOOLEAN :
            /\ fresh => schedulesSchedule.target < MaxTargetEdits
            /\ edit' = [next |-> schedulesNow + 1, enabled |-> enabled, fresh |-> fresh]
      BY <1>5 DEF Firing!EditReads
    <2>2. UNCHANGED <<schedulesNow, schedulesSchedule, rearmed, tick, firing>>
      BY <1>5 DEF Firing!EditReads
    <2>3. schedulesNow + 1 \in 1 .. (schedulesNow + 1) /\ schedulesNow + 1 \in 0 .. (MaxFirings + 1)
      BY DEF FiringInv, Firing!ScheduleAssumption
    <2>4. edit' \in Edit /\ edit'.next = schedulesNow + 1 /\ (edit'.fresh <=> fresh)
      BY <2>1, <2>3 DEF Edit
    <2> QED
      BY <2>1, <2>2, <2>3, <2>4 DEF FiringInv, Firing!OneRunPerFiring
  <1>6. CASE Firing!DeleteSchedule
    <2>1. /\ schedulesSchedule' = [schedulesSchedule EXCEPT !.next = 0, !.enabled = FALSE,
                 !.deleted = TRUE]
          /\ UNCHANGED <<schedulesNow, edit, rearmed, tick, firing>>
      BY <1>6 DEF Firing!DeleteSchedule
    <2>2. schedulesSchedule \in ScheduleRow /\ 0 \in 0 .. (MaxFirings + 1)
      BY DEF FiringInv, Firing!ScheduleAssumption
    <2>3. schedulesSchedule' \in ScheduleRow /\ schedulesSchedule'.next = 0
              /\ schedulesSchedule'.target = schedulesSchedule.target
      BY <2>1, <2>2 DEF ScheduleRow
    <2> QED
      BY <2>1, <2>3 DEF FiringInv, Firing!OneRunPerFiring
  <1>7. CASE Firing!Exit
    <2>1. /\ tick' = Firing!NoTick /\ edit' = Firing!NoEdit
          /\ UNCHANGED <<schedulesNow, schedulesSchedule, rearmed, firing>>
      BY <1>7 DEF Firing!Exit
    <2>2. Firing!NoTick \in [due : 0 .. MaxFirings, at : 0 .. MaxFirings] /\ Firing!NoEdit \in Edit
      BY DEF FiringInv, Firing!NoTick, Firing!NoEdit, Edit, Firing!ScheduleAssumption
    <2> QED
      BY <2>1, <2>2 DEF FiringInv, Firing!OneRunPerFiring
  <1>8. CASE Firing!ClaimRefused
    BY <1>4, <1>8 DEF Firing!ClaimRefused, Firing!requestVars
  <1>9. ASSUME NEW r \in Firings, Firing!Claim(r) \/ Firing!Generate(r) \/ Firing!Submit(r)
        PROVE  FiringInv'
    BY <1>1, <1>9, ClaimFires DEF Firing!Generate, Firing!Submit, Firing!requestVars
  <1>10. ASSUME NEW w \in Runners, Firing!Step(w) PROVE FiringInv'
    BY <1>1, <1>10 DEF Firing!Step, Firing!Take, Firing!Start, Firing!Execute, Firing!HandOver,
                       Firing!Send, Firing!Record, Firing!requestVars
  <1>11. CASE Firing!Shutdown \/ Firing!Restart \/ UNCHANGED Firing!vars
    BY <1>1, <1>11 DEF Firing!Shutdown, Firing!Restart, Firing!vars, Firing!requestVars
  <1> QED
    BY <1>2, <1>3, <1>5, <1>6, <1>7, <1>8, <1>9, <1>10, <1>11, EditFires DEF Firing!Next

(* A firing queues one run, across crashes and restarts between the due     *)
(* query, the claim and the submission, unless an update that read the      *)
(* clock before the claim wrote next_run_at after it (Scheduler.Tick,       *)
(* ClaimReportSchedule, updateReportSchedule).                              *)
THEOREM FiringQueuesOneRun ==
    ASSUME Firing!ScheduleAssumption PROVE Firing!Spec => []OneRunPerFiring
  <1>1. Firing!Init => FiringInv
    BY FiringInvInit
  <1>2. FiringInv /\ [Firing!Next]_(Firing!vars) => FiringInv'
    BY FiringInvStep
  <1>3. FiringInv => OneRunPerFiring
    BY DEF FiringInv, OneRunPerFiring
  <1> QED
    BY <1>1, <1>2, <1>3, PTL DEF Firing!Spec

-----------------------------------------------------------------------------
(* From the queue to the delivery log *)

PoolStates == {"none", "queued", "running"} \cup Firing!Finished
Entry == [attempt : 1 .. MaxSends, outcome : {"succeeded", "skipped", "failed"}]

\* What a worker of the pool remembers.
Delivery ==
    [pc : {"idle", "start", "execute", "handover", "send", "record"},
     job : Firings \cup {NoRun}, target : 0 .. MaxTargetEdits, attempt : 0 .. MaxSends,
     outcome : {"none"} \cup Firing!Outcomes]

\* The log of one run (LogReadsTrue, run by run); a run that is not finished
\* has none, and was sent to nobody.
LogTrue(l, sent, state, fired) ==
    /\ l \in Seq(Entry)
    /\ \A i \in DOMAIN l :
         /\ l[i].attempt = i
         /\ i < Len(l) => l[i].outcome = "failed"
         /\ l[i].outcome # "skipped" => i <= sent /\ state # "failed"
    /\ l # <<>> => fired # 0
    /\ state \notin Firing!Finished => l = <<>> /\ sent = 0

\* What a worker knows of its run at each step: the attempt it is about to make
\* or to record is the one after those that are logged, all of them failures.
DeliverySound(x, l, sent, state, fired) ==
    /\ x.pc = "start" => state = "queued"
    /\ x.pc = "execute" => state = "running"
    /\ x.pc = "handover" => state \in Firing!Finished /\ l = <<>> /\ sent = 0
    /\ x.pc \in {"send", "record"} =>
         /\ state \in Firing!Finished /\ fired # 0 /\ x.attempt = Len(l) + 1
         /\ \A i \in DOMAIN l : l[i].outcome = "failed"
    /\ x.pc = "send" => state # "failed" /\ sent = Len(l)
    /\ x.pc = "record" =>
         /\ x.outcome \in Firing!Outcomes /\ sent \in {Len(l), Len(l) + 1}
         /\ x.outcome # "skipped" => state # "failed" /\ sent = Len(l) + 1

HolderSound(x, runs, logs, sent, fired, target) ==
    /\ x \in Delivery
    /\ x.pc = "idle" => x = Firing!Idle
    /\ x.pc # "idle" =>
         /\ x.job \in Firings /\ x.target <= target
         /\ DeliverySound(x, logs[x.job], sent[x.job], runs[x.job], fired[x.job])

\* The runs that wait for a worker.
Queued == {schedulesQueue[i] : i \in DOMAIN schedulesQueue}

\* A run is in one place: with its creator, in the queue once, or with one
\* worker; and one that waits is queued.
PlacesSound ==
    /\ schedulesQueue \in Seq(Firings) /\ Len(schedulesQueue) <= PoolDepth
    /\ submitting \subseteq Firings /\ refused \subseteq Firings
    /\ \A i, j \in DOMAIN schedulesQueue : schedulesQueue[i] = schedulesQueue[j] => i = j
    /\ submitting \cap Queued = {}
    /\ \A r \in submitting \cup Queued : schedulesRun[r] = "queued"
           /\ \A w \in Runners : schedulesWork[w].job # r
    /\ \A v, w \in Runners : v # w /\ schedulesWork[v].job = schedulesWork[w].job
           => schedulesWork[v].job = NoRun

\* What has happened to the process only happens more.
ProcessSound ==
    /\ schedulesProc \in {"up", "stopping", "down"}
    /\ schedulesErrors \in 0 .. MaxReportErrors /\ schedulesCrashes \in 0 .. MaxReportCrashes
    /\ schedulesProc = "down" => schedulesCrashes > 0
           /\ \A w \in Runners : schedulesWork[w] = Firing!Idle

\* The inductive invariant.
PoolInv ==
    /\ FiringInv /\ ProcessSound /\ PlacesSound
    /\ schedulesRun \in [Firings -> PoolStates] /\ schedulesWork \in [Runners -> Delivery]
    /\ log \in [Firings -> Seq(Entry)] /\ sends \in [Firings -> 0 .. MaxSends]
    /\ \A w \in Runners : HolderSound(schedulesWork[w], schedulesRun, log, sends, firing,
           schedulesSchedule.target)
    /\ \A r \in Firings : LogTrue(log[r], sends[r], schedulesRun[r], firing[r])
    /\ Firing!QueuedIsUnderWay /\ Firing!SendsAreLogged

\* Only one run, its log and its sends change.
OnlyRun(r) ==
    /\ schedulesRun' \in [Firings -> PoolStates] /\ log' \in [Firings -> Seq(Entry)]
    /\ sends' \in [Firings -> 0 .. MaxSends]
    /\ \A q \in Firings \ {r} : schedulesRun'[q] = schedulesRun[q] /\ log'[q] = log[q]
           /\ sends'[q] = sends[q]

\* What a worker that has a run in hand knows.
LEMMA DeliveryInHand ==
    ASSUME PoolInv, NEW w \in Runners, schedulesWork[w].pc # "idle"
    PROVE  /\ schedulesWork[w] \in Delivery /\ schedulesWork[w].job \in Firings
                  /\ schedulesWork[w].target <= schedulesSchedule.target
           /\ DeliverySound(schedulesWork[w], log[schedulesWork[w].job], sends[schedulesWork[w].job],
                  schedulesRun[schedulesWork[w].job],
                            firing[schedulesWork[w].job])
           /\ LogTrue(log[schedulesWork[w].job], sends[schedulesWork[w].job],
                  schedulesRun[schedulesWork[w].job],
                      firing[schedulesWork[w].job])
           /\ HolderSound(schedulesWork[w], schedulesRun, log, sends, firing, schedulesSchedule.target)
  <1>1. HolderSound(schedulesWork[w], schedulesRun, log, sends, firing, schedulesSchedule.target)
    BY DEF PoolInv
  <1>2. schedulesWork[w].job \in Firings
    BY <1>1 DEF HolderSound
  <1> QED
    BY <1>1, <1>2 DEF HolderSound, PoolInv

\* Nobody is worse off with nothing in hand.
LEMMA IdleHolds ==
    ASSUME Firing!ScheduleAssumption, NEW runs, NEW logs, NEW sent, NEW fired, NEW target
    PROVE  /\ HolderSound(Firing!Idle, runs, logs, sent, fired, target)
           /\ Firing!Idle \in Delivery /\ Firing!Idle.job = NoRun
  BY DEF HolderSound, Firing!Idle, Delivery, Firing!ScheduleAssumption

\* A failed call is counted.
LEMMA FailuresCounted ==
    ASSUME schedulesErrors \in 0 .. MaxReportErrors, Firing!ScheduleAssumption,
           Firing!Fails \/ Firing!CtxFails \/ UNCHANGED schedulesErrors
    PROVE  schedulesErrors' \in 0 .. MaxReportErrors /\ schedulesErrors <= schedulesErrors'
  BY DEF Firing!Fails, Firing!CtxFails, Firing!ScheduleAssumption

\* A step of one worker on the run it has in hand.
LEMMA WorkerDelivers ==
    ASSUME PoolInv, Firing!ScheduleAssumption,
           NEW w \in Runners, NEW r \in Firings, schedulesWork[w].job = r, NEW x,
           schedulesWork' = [schedulesWork EXCEPT ![w] = x], x.job \in {r, NoRun}, OnlyRun(r),
           UNCHANGED <<schedulesProc, schedulesNow, schedulesSchedule, edit, rearmed, tick, firing,
               submitting, schedulesQueue,
                       refused, schedulesCrashes>>,
           schedulesProc # "down", schedulesErrors' \in 0 .. MaxReportErrors,
           schedulesErrors <= schedulesErrors',
           HolderSound(x, schedulesRun', log', sends', firing', schedulesSchedule'.target),
           LogTrue(log'[r], sends'[r], schedulesRun'[r], firing'[r]),
           schedulesRun'[r] = "queued" => x.job = r \/ schedulesErrors' > 0 \/ schedulesProc # "up",
           x.job # r /\ Len(log'[r]) < sends'[r] =>
             schedulesErrors' > 0 \/ schedulesCrashes > 0 \/ schedulesSchedule.target > 0
    PROVE  PoolInv'
  <1>1. /\ x \in Delivery /\ schedulesWork \in [Runners -> Delivery]
               /\ schedulesWork' \in [Runners -> Delivery]
        /\ schedulesWork'[w] = x /\ \A v \in Runners : v # w => schedulesWork'[v] = schedulesWork[v]
    BY DEF PoolInv, HolderSound
  <1>2. NoRun \notin Firings
    BY DEF Firing!ScheduleAssumption
  <1>3. \A v \in Runners : v # w => schedulesWork[v].job # r
    BY <1>2 DEF PoolInv, PlacesSound
  <1>4. r \notin submitting \cup Queued
    BY DEF PoolInv, PlacesSound
  <1>5. FiringInv'
    BY DEF PoolInv, FiringInv, Firing!OneRunPerFiring
  <1>6. ProcessSound'
    BY DEF PoolInv, ProcessSound
  <1>7. Queued' = Queued /\ Queued \subseteq Firings
    BY DEF Queued, PoolInv, PlacesSound
  <1>8. PlacesSound'
    <2>1. \A q \in submitting \cup Queued : q \in Firings \ {r} /\ schedulesRun'[q] = schedulesRun[q]
      BY <1>4, <1>7 DEF OnlyRun, PoolInv, PlacesSound
    <2>2. \A q \in submitting \cup Queued : \A v \in Runners : schedulesWork'[v].job # q
      BY <1>1, <1>2, <1>4, <1>7, <2>1 DEF PoolInv, PlacesSound
    <2>3. ASSUME NEW u \in Runners, NEW v \in Runners, u # v,
                 schedulesWork'[u].job = schedulesWork'[v].job
          PROVE  schedulesWork'[u].job = NoRun
      <3>1. CASE u # w /\ v # w
        BY <1>1, <2>3, <3>1 DEF PoolInv, PlacesSound
      <3>2. CASE u = w \/ v = w
        BY <1>1, <1>3, <2>3, <3>2
      <3> QED
        BY <3>1, <3>2
    <2> QED
      BY <1>7, <2>1, <2>2, <2>3 DEF PoolInv, PlacesSound
  <1>9. ASSUME NEW v \in Runners
        PROVE  HolderSound(schedulesWork'[v], schedulesRun', log', sends', firing',
                   schedulesSchedule'.target)
    <2>1. CASE v = w
      BY <1>1, <2>1
    <2>2. CASE v # w
      <3>1. /\ schedulesWork'[v] = schedulesWork[v] /\ schedulesWork[v].job # r
            /\ HolderSound(schedulesWork[v], schedulesRun, log, sends, firing, schedulesSchedule.target)
        BY <1>1, <1>3, <2>2 DEF PoolInv
      <3>2. schedulesWork[v].job \in Firings =>
              /\ schedulesRun'[schedulesWork[v].job] = schedulesRun[schedulesWork[v].job]
                     /\ log'[schedulesWork[v].job] = log[schedulesWork[v].job]
              /\ sends'[schedulesWork[v].job] = sends[schedulesWork[v].job]
        BY <3>1 DEF OnlyRun
      <3> QED
        BY <3>1, <3>2 DEF HolderSound
    <2> QED
      BY <2>1, <2>2
  <1>10. ASSUME NEW q \in Firings PROVE LogTrue(log'[q], sends'[q], schedulesRun'[q], firing'[q])
    <2>1. CASE q = r
      BY <2>1
    <2>2. CASE q # r
      BY <2>2 DEF OnlyRun, PoolInv
    <2> QED
      BY <2>1, <2>2
  <1>11. ASSUME NEW q \in Firings \ {r} PROVE Firing!InHand(q)' <=> Firing!InHand(q)
    <2>1. x.job # q /\ schedulesWork[w].job # q
      BY <1>2
    <2> QED
      BY <1>1, <2>1 DEF Firing!InHand
  <1>12. schedulesErrors \in Nat /\ schedulesErrors' \in Nat
    BY DEF PoolInv, ProcessSound, Firing!ScheduleAssumption
  <1>13. Firing!QueuedIsUnderWay'
    <2> SUFFICES ASSUME NEW q \in Firings, schedulesRun'[q] = "queued"
                 PROVE  \/ q \in submitting \/ Firing!InHand(q)'
                        \/ \E i \in DOMAIN schedulesQueue : schedulesQueue[i] = q
                        \/ q \in refused \/ schedulesErrors' > 0 \/ schedulesProc # "up"
                               \/ schedulesCrashes > 0
      BY DEF Firing!QueuedIsUnderWay, Firing!Up
    <2>1. CASE q = r
      <3>1. schedulesWork'[w].job = r => Firing!InHand(q)'
        BY <2>1 DEF Firing!InHand
      <3> QED
        BY <1>1, <2>1, <3>1
    <2>2. CASE q # r
      <3>1. schedulesRun[q] = "queued"
        BY <2>2 DEF OnlyRun
      <3>2. \/ q \in submitting \/ Firing!InHand(q)
                   \/ \E i \in DOMAIN schedulesQueue : schedulesQueue[i] = q
            \/ q \in refused \/ schedulesErrors > 0 \/ schedulesProc # "up" \/ schedulesCrashes > 0
        BY <3>1 DEF PoolInv, Firing!QueuedIsUnderWay, Firing!Up
      <3>3. schedulesErrors > 0 => schedulesErrors' > 0
        BY <1>12
      <3> QED
        BY <1>11, <2>2, <3>2, <3>3
    <2> QED
      BY <2>1, <2>2
  <1>14. Firing!SendsAreLogged'
    <2> SUFFICES ASSUME NEW q \in Firings, ~Firing!InHand(q)', Len(log'[q]) < sends'[q]
                 PROVE  schedulesErrors' > 0 \/ schedulesCrashes > 0 \/ schedulesSchedule.target > 0
      BY DEF Firing!SendsAreLogged
    <2>1. CASE q = r
      <3>1. x.job # r
        BY <1>1, <2>1 DEF Firing!InHand
      <3> QED
        BY <2>1, <3>1
    <2>2. CASE q # r
      <3>1. Len(log[q]) < sends[q] /\ ~Firing!InHand(q)
        BY <1>11, <2>2 DEF OnlyRun
      <3> QED
        BY <1>12, <3>1 DEF PoolInv, Firing!SendsAreLogged
    <2> QED
      BY <2>1, <2>2
  <1> QED
    BY <1>1, <1>5, <1>6, <1>8, <1>9, <1>10, <1>13, <1>14 DEF PoolInv, OnlyRun

\* StartReportRun: the run it has in hand is queued.
LEMMA StartDelivers ==
    ASSUME PoolInv, Firing!ScheduleAssumption, NEW w \in Runners, Firing!Start(w)
    PROVE  PoolInv'
  <1> DEFINE r == schedulesWork[w].job
  <1>1. /\ schedulesProc # "down" /\ schedulesWork[w].pc = "start"
        /\ UNCHANGED <<schedulesProc, schedulesNow, schedulesSchedule, edit, rearmed, tick, firing,
               submitting, schedulesQueue,
                       refused, log, sends, schedulesCrashes>>
    BY DEF Firing!Start, Firing!Live, Firing!requestVars, Firing!poolVars, Firing!logVars
  <1>2. /\ schedulesWork[w] \in Delivery /\ r \in Firings
               /\ schedulesWork[w].target <= schedulesSchedule.target
        /\ LogTrue(log[r], sends[r], schedulesRun[r], firing[r]) /\ schedulesRun[r] = "queued"
        /\ schedulesErrors \in 0 .. MaxReportErrors /\ schedulesRun \in [Firings -> PoolStates]
        /\ log \in [Firings -> Seq(Entry)] /\ sends \in [Firings -> 0 .. MaxSends]
    BY <1>1, DeliveryInHand DEF DeliverySound, PoolInv, ProcessSound
  <1>3. log[r] = <<>> /\ sends[r] = 0
    BY <1>2 DEF LogTrue, Firing!Finished
  <1>4. schedulesErrors' \in 0 .. MaxReportErrors /\ schedulesErrors <= schedulesErrors'
    BY <1>2, FailuresCounted DEF Firing!Start
  <1>5. CASE /\ schedulesRun' = [schedulesRun EXCEPT ![schedulesWork[w].job] = "running"]
             /\ schedulesWork' = [schedulesWork EXCEPT ![w].pc = "execute"]
    <2> DEFINE x == [schedulesWork[w] EXCEPT !.pc = "execute"]
    <2>1. schedulesWork' = [schedulesWork EXCEPT ![w] = x]
      BY <1>5 DEF PoolInv
    <2>2. x \in Delivery /\ x.pc = "execute" /\ x.job = r /\ x.target = schedulesWork[w].target
      BY <1>2 DEF Delivery
    <2>3. /\ OnlyRun(r) /\ schedulesRun'[r] = "running" /\ log'[r] = <<>> /\ sends'[r] = 0
          /\ firing'[r] = firing[r]
      BY <1>1, <1>2, <1>3, <1>5 DEF OnlyRun, PoolStates
    <2> HIDE DEF x
    <2>4. HolderSound(x, schedulesRun', log', sends', firing', schedulesSchedule'.target)
      BY <1>1, <1>2, <2>2, <2>3 DEF HolderSound, DeliverySound
    <2>5. LogTrue(log'[r], sends'[r], schedulesRun'[r], firing'[r])
      BY <1>2, <1>3, <2>3 DEF LogTrue, Firing!Finished
    <2> HIDE DEF r
    <2> QED
      BY <1>1, <1>2, <1>4, <2>1, <2>2, <2>3, <2>4, <2>5, WorkerDelivers DEF r
  <1>6. CASE Firing!CtxFails /\ schedulesWork' = [schedulesWork EXCEPT ![w] = Firing!Idle]
                 /\ UNCHANGED schedulesRun
    <2>1. OnlyRun(r)
      BY <1>1, <1>2, <1>6 DEF OnlyRun
    <2>2. schedulesErrors' > 0 \/ schedulesProc # "up"
      BY <1>2, <1>6 DEF Firing!CtxFails, Firing!Fails, Firing!Up, Firing!ScheduleAssumption
    <2>3. LogTrue(log'[r], sends'[r], schedulesRun'[r], firing'[r]) /\ ~(Len(log'[r]) < sends'[r])
      BY <1>1, <1>2, <1>3, <1>6
    <2>4. /\ HolderSound(Firing!Idle, schedulesRun', log', sends', firing', schedulesSchedule'.target)
          /\ Firing!Idle.job \in {r, NoRun}
      BY IdleHolds
    <2> HIDE DEF r
    <2> QED
      BY <1>1, <1>2, <1>4, <1>6, <2>1, <2>2, <2>3, <2>4, WorkerDelivers DEF r
  <1> QED
    BY <1>5, <1>6 DEF Firing!Start

\* The rest of Execute: the run finishes, or stays running.
LEMMA ExecuteDelivers ==
    ASSUME PoolInv, Firing!ScheduleAssumption, NEW w \in Runners, Firing!Execute(w)
    PROVE  PoolInv'
  <1> DEFINE r == schedulesWork[w].job
  <1>1. /\ schedulesProc # "down" /\ schedulesWork[w].pc = "execute"
        /\ UNCHANGED <<schedulesProc, schedulesNow, schedulesSchedule, edit, rearmed, tick, firing,
               submitting, schedulesQueue,
                       refused, log, sends, schedulesCrashes>>
    BY DEF Firing!Execute, Firing!Live, Firing!requestVars, Firing!poolVars, Firing!logVars
  <1>2. /\ schedulesWork[w] \in Delivery /\ r \in Firings
               /\ schedulesWork[w].target <= schedulesSchedule.target
        /\ LogTrue(log[r], sends[r], schedulesRun[r], firing[r]) /\ schedulesRun[r] = "running"
        /\ schedulesErrors \in 0 .. MaxReportErrors /\ schedulesRun \in [Firings -> PoolStates]
        /\ log \in [Firings -> Seq(Entry)] /\ sends \in [Firings -> 0 .. MaxSends]
    BY <1>1, DeliveryInHand DEF DeliverySound, PoolInv, ProcessSound
  <1>3. log[r] = <<>> /\ sends[r] = 0
    BY <1>2 DEF LogTrue, Firing!Finished
  <1>4. schedulesErrors' \in 0 .. MaxReportErrors /\ schedulesErrors <= schedulesErrors'
    BY <1>2, FailuresCounted DEF Firing!Execute
  <1>5. ASSUME NEW state \in Firing!Finished,
               schedulesRun' = [schedulesRun EXCEPT ![schedulesWork[w].job] = state],
               schedulesWork' = [schedulesWork EXCEPT ![w].pc = "handover"]
        PROVE  PoolInv'
    <2> DEFINE x == [schedulesWork[w] EXCEPT !.pc = "handover"]
    <2>1. schedulesWork' = [schedulesWork EXCEPT ![w] = x]
      BY <1>5 DEF PoolInv
    <2>2. x \in Delivery /\ x.pc = "handover" /\ x.job = r /\ x.target = schedulesWork[w].target
      BY <1>2 DEF Delivery
    <2>3. /\ OnlyRun(r) /\ schedulesRun'[r] = state /\ log'[r] = <<>> /\ sends'[r] = 0
          /\ firing'[r] = firing[r]
      BY <1>1, <1>2, <1>3, <1>5 DEF OnlyRun, PoolStates
    <2> HIDE DEF x
    <2>4. HolderSound(x, schedulesRun', log', sends', firing', schedulesSchedule'.target)
      BY <1>1, <1>2, <1>5, <2>2, <2>3 DEF HolderSound, DeliverySound
    <2>5. LogTrue(log'[r], sends'[r], schedulesRun'[r], firing'[r])
      BY <1>2, <1>3, <1>5, <2>3 DEF LogTrue
    <2> HIDE DEF r
    <2> QED
      BY <1>1, <1>2, <1>4, <2>1, <2>2, <2>3, <2>4, <2>5, WorkerDelivers DEF r
  <1>6. CASE Firing!CtxFails /\ schedulesWork' = [schedulesWork EXCEPT ![w] = Firing!Idle]
                 /\ UNCHANGED schedulesRun
    <2>1. OnlyRun(r)
      BY <1>1, <1>2, <1>6 DEF OnlyRun
    <2>2. schedulesRun'[r] # "queued"
      BY <1>2, <1>6
    <2>3. LogTrue(log'[r], sends'[r], schedulesRun'[r], firing'[r]) /\ ~(Len(log'[r]) < sends'[r])
      BY <1>1, <1>2, <1>3, <1>6
    <2>4. /\ HolderSound(Firing!Idle, schedulesRun', log', sends', firing', schedulesSchedule'.target)
          /\ Firing!Idle.job \in {r, NoRun}
      BY IdleHolds
    <2> HIDE DEF r
    <2> QED
      BY <1>1, <1>2, <1>4, <1>6, <2>1, <2>2, <2>3, <2>4, WorkerDelivers DEF r
  <1> QED
    BY <1>5, <1>6 DEF Firing!Execute

\* A worker that is done with a run whose last send is logged, or could not be.
LEMMA WorkerRests ==
    ASSUME PoolInv, Firing!ScheduleAssumption, NEW w \in Runners,
           schedulesWork[w].pc \in {"handover", "send", "record"}, schedulesProc # "down",
           schedulesWork' = [schedulesWork EXCEPT ![w] = Firing!Idle],
           UNCHANGED <<schedulesProc, schedulesNow, schedulesSchedule, edit, rearmed, tick, firing,
               submitting, schedulesQueue,
                       refused, schedulesRun, log, sends, schedulesCrashes>>,
           schedulesErrors' \in 0 .. MaxReportErrors, schedulesErrors <= schedulesErrors',
           Len(log[schedulesWork[w].job]) < sends[schedulesWork[w].job] =>
             schedulesErrors' > 0 \/ schedulesCrashes > 0 \/ schedulesSchedule.target > 0
    PROVE  PoolInv'
  <1> DEFINE r == schedulesWork[w].job
  <1>1. /\ r \in Firings /\ LogTrue(log[r], sends[r], schedulesRun[r], firing[r])
        /\ schedulesRun[r] \in Firing!Finished
    BY DeliveryInHand DEF DeliverySound
  <1>2. schedulesRun'[r] # "queued" /\ LogTrue(log'[r], sends'[r], schedulesRun'[r], firing'[r])
    BY <1>1 DEF Firing!Finished
  <1>3. OnlyRun(r)
    BY DEF OnlyRun, PoolInv
  <1>4. /\ HolderSound(Firing!Idle, schedulesRun', log', sends', firing', schedulesSchedule'.target)
        /\ Firing!Idle.job \in {r, NoRun}
    BY IdleHolds
  <1>5. Len(log'[r]) < sends'[r] => schedulesErrors' > 0 \/ schedulesCrashes > 0
            \/ schedulesSchedule.target > 0
    OBVIOUS
  <1> HIDE DEF r
  <1> QED
    BY <1>1, <1>2, <1>3, <1>4, <1>5, WorkerDelivers DEF r

\* Dispatcher.Deliver: the first attempt of a delivery, or none.
LEMMA HandOverDelivers ==
    ASSUME PoolInv, Firing!ScheduleAssumption, NEW w \in Runners, Firing!HandOver(w)
    PROVE  PoolInv'
  <1> DEFINE r == schedulesWork[w].job
  <1>1. /\ schedulesProc # "down" /\ schedulesWork[w].pc = "handover"
        /\ UNCHANGED <<schedulesProc, schedulesNow, schedulesSchedule, edit, rearmed, tick,
               schedulesRun, firing, submitting, schedulesQueue,
                       refused, log, sends, schedulesCrashes>>
    BY DEF Firing!HandOver, Firing!Live, Firing!requestVars, Firing!poolVars, Firing!logVars
  <1>2. /\ schedulesWork[w] \in Delivery /\ r \in Firings /\ schedulesRun[r] \in Firing!Finished
        /\ LogTrue(log[r], sends[r], schedulesRun[r], firing[r]) /\ log[r] = <<>> /\ sends[r] = 0
        /\ schedulesErrors \in 0 .. MaxReportErrors /\ schedulesSchedule.target \in 0 .. MaxTargetEdits
    BY <1>1, DeliveryInHand DEF DeliverySound, PoolInv, ProcessSound, FiringInv, ScheduleRow
  <1>3. schedulesErrors' \in 0 .. MaxReportErrors /\ schedulesErrors <= schedulesErrors'
    BY <1>2, FailuresCounted DEF Firing!HandOver
  <1>4. CASE schedulesWork' = [schedulesWork EXCEPT ![w] = Firing!Idle]
    <2>1. ~(Len(log[r]) < sends[r])
      BY <1>2
    <2> QED
      BY <1>1, <1>3, <1>4, <2>1, WorkerRests
  <1>5. ASSUME NEW pc \in {"send", "record"}, NEW outcome \in {schedulesWork[w].outcome, "skipped"},
               firing[r] # 0, pc = "send" => schedulesRun[r] # "failed",
               pc = "record" => outcome = "skipped",
               schedulesWork' = [schedulesWork EXCEPT ![w] = [schedulesWork[w] EXCEPT !.target = schedulesSchedule.target, !.attempt = 1,
                                                                                      !.pc = pc, !.outcome = outcome]]
        PROVE  PoolInv'
    <2> DEFINE x == [schedulesWork[w] EXCEPT !.target = schedulesSchedule.target, !.attempt = 1,
                   !.pc = pc,
                                             !.outcome = outcome]
    <2>1. 1 \in 0 .. MaxSends
      BY DEF Firing!ScheduleAssumption
    <2>2. outcome \in {"none"} \cup Firing!Outcomes
      BY <1>2 DEF Delivery, Firing!Outcomes
    <2>3. /\ x \in Delivery /\ x.pc = pc /\ x.job = r /\ x.target = schedulesSchedule.target
          /\ x.attempt = 1 /\ x.outcome = outcome
      BY <1>2, <2>1, <2>2 DEF Delivery
    <2>4. OnlyRun(r)
      BY <1>1 DEF OnlyRun, PoolInv
    <2> HIDE DEF x
    <2>5. DeliverySound(x, log[r], sends[r], schedulesRun[r], firing[r])
      BY <1>2, <1>5, <2>3 DEF DeliverySound, Firing!Outcomes
    <2>6. HolderSound(x, schedulesRun', log', sends', firing', schedulesSchedule'.target)
      BY <1>1, <1>2, <1>5, <2>3, <2>5 DEF HolderSound
    <2>7. LogTrue(log'[r], sends'[r], schedulesRun'[r], firing'[r]) /\ schedulesRun'[r] # "queued"
      BY <1>1, <1>2 DEF Firing!Finished
    <2>8. schedulesWork' = [schedulesWork EXCEPT ![w] = x]
      BY <1>5 DEF x
    <2> HIDE DEF r
    <2> QED
      BY <1>1, <1>2, <1>3, <2>3, <2>4, <2>6, <2>7, <2>8, WorkerDelivers DEF r
  <1>6. CASE /\ firing[r] # 0 /\ schedulesRun[r] # "failed"
             /\ schedulesWork' = [schedulesWork EXCEPT ![w].target = schedulesSchedule.target,
                    ![w].attempt = 1,
                                                       ![w].pc = "send"]
    <2>1. [schedulesWork[w] EXCEPT !.target = schedulesSchedule.target, !.attempt = 1, !.pc = "send"]
            = [schedulesWork[w] EXCEPT !.target = schedulesSchedule.target, !.attempt = 1,
                !.pc = "send",
                                       !.outcome = schedulesWork[w].outcome]
      BY <1>2 DEF Delivery
    <2>2. schedulesWork' = [schedulesWork EXCEPT ![w] = [schedulesWork[w] EXCEPT !.target = schedulesSchedule.target, !.attempt = 1,
                                                           !.pc = "send", !.outcome = schedulesWork[w].outcome]]
      BY <1>6, <2>1 DEF PoolInv
    <2> QED
      BY <1>5, <1>6, <2>2
  <1>7. CASE /\ firing[r] # 0
             /\ schedulesWork' = [schedulesWork EXCEPT ![w].target = schedulesSchedule.target,
                    ![w].attempt = 1,
                                                       ![w].pc = "record", ![w].outcome = "skipped"]
    <2>1. schedulesWork' = [schedulesWork EXCEPT ![w] = [schedulesWork[w] EXCEPT !.target = schedulesSchedule.target, !.attempt = 1,
                                                           !.pc = "record", !.outcome = "skipped"]]
      BY <1>7 DEF PoolInv
    <2> QED
      BY <1>5, <1>7, <2>1
  <1> QED
    BY <1>4, <1>6, <1>7 DEF Firing!HandOver

\* The send: one more than is logged, until its record is.
LEMMA SendDelivers ==
    ASSUME PoolInv, Firing!ScheduleAssumption, NEW w \in Runners, Firing!Send(w)
    PROVE  PoolInv'
  <1> DEFINE r == schedulesWork[w].job
             l == log[r]
  <1>1. /\ schedulesProc # "down" /\ schedulesWork[w].pc = "send"
        /\ UNCHANGED <<schedulesProc, schedulesNow, schedulesSchedule, edit, rearmed, tick,
               schedulesRun, firing, submitting, schedulesQueue,
                       refused, log, schedulesErrors, schedulesCrashes>>
    BY DEF Firing!Send, Firing!Live, Firing!requestVars, Firing!poolVars
  <1>2. /\ schedulesWork[w] \in Delivery /\ r \in Firings
               /\ schedulesWork[w].target <= schedulesSchedule.target
        /\ DeliverySound(schedulesWork[w], l, sends[r], schedulesRun[r], firing[r])
        /\ LogTrue(l, sends[r], schedulesRun[r], firing[r])
        /\ schedulesErrors \in 0 .. MaxReportErrors /\ l \in Seq(Entry)
        /\ schedulesRun \in [Firings -> PoolStates] /\ log \in [Firings -> Seq(Entry)]
        /\ sends \in [Firings -> 0 .. MaxSends]
    BY <1>1, DeliveryInHand DEF PoolInv, ProcessSound
  <1>3. /\ schedulesRun[r] \in Firing!Finished /\ schedulesRun[r] # "failed" /\ firing[r] # 0
        /\ schedulesWork[w].attempt = Len(l) + 1 /\ sends[r] = Len(l) /\ Len(l) \in Nat
        /\ schedulesWork[w].attempt \in 0 .. MaxSends /\ MaxSends \in Nat
        /\ \A i \in DOMAIN l : l[i].outcome = "failed"
    BY <1>1, <1>2 DEF DeliverySound, Delivery, Firing!ScheduleAssumption
  <1>4. schedulesErrors' \in 0 .. MaxReportErrors /\ schedulesErrors <= schedulesErrors'
    BY <1>1, <1>2, FailuresCounted
  <1>5. CASE schedulesWork' = [schedulesWork EXCEPT ![w] = Firing!Idle] /\ UNCHANGED sends
    <2>1. ~(Len(log[r]) < sends[r])
      BY <1>3
    <2> QED
      BY <1>1, <1>4, <1>5, <2>1, WorkerRests
  <1>6. ASSUME NEW o \in Firing!Outcomes, sends' = [sends EXCEPT ![schedulesWork[w].job] = @ + 1],
               schedulesWork' = [schedulesWork EXCEPT ![w].pc = "record", ![w].outcome = o]
        PROVE  PoolInv'
    <2> DEFINE x == [schedulesWork[w] EXCEPT !.pc = "record", !.outcome = o]
    <2>1. schedulesWork' = [schedulesWork EXCEPT ![w] = x]
      BY <1>6 DEF PoolInv
    <2>2. /\ x \in Delivery /\ x.pc = "record" /\ x.job = r /\ x.target = schedulesWork[w].target
          /\ x.attempt = schedulesWork[w].attempt /\ x.outcome = o
      BY <1>2 DEF Delivery
    <2>3. sends' \in [Firings -> 0 .. MaxSends] /\ sends'[r] = Len(l) + 1
          /\ \A q \in Firings \ {r} : sends'[q] = sends[q]
      BY <1>2, <1>3, <1>6
    <2>4. OnlyRun(r)
      BY <1>1, <1>2, <2>3 DEF OnlyRun
    <2> HIDE DEF x, l
    <2>5. DeliverySound(x, l, sends'[r], schedulesRun[r], firing[r])
      BY <1>3, <1>6, <2>2, <2>3 DEF DeliverySound
    <2>6. HolderSound(x, schedulesRun', log', sends', firing', schedulesSchedule'.target)
      BY <1>1, <1>2, <2>2, <2>5 DEF HolderSound, l
    <2>7. LogTrue(l, sends'[r], schedulesRun[r], firing[r])
      <3>1. /\ \A i \in DOMAIN l : l[i].attempt = i /\ (i < Len(l) => l[i].outcome = "failed")
            /\ DOMAIN l = 1 .. Len(l)
        BY <1>2 DEF LogTrue
      <3> QED
        BY <1>2, <1>3, <2>3, <3>1 DEF LogTrue
    <2>8. LogTrue(log'[r], sends'[r], schedulesRun'[r], firing'[r]) /\ schedulesRun'[r] # "queued"
      BY <1>1, <1>3, <2>7 DEF Firing!Finished, l
    <2> HIDE DEF r
    <2> QED
      BY <1>1, <1>2, <1>4, <2>1, <2>2, <2>4, <2>6, <2>8, WorkerDelivers DEF r
  <1> QED
    BY <1>5, <1>6 DEF Firing!Send

\* The log of a run grows by the attempt that is due.
LEMMA LogGrows ==
    ASSUME NEW l \in Seq(Entry), NEW e \in Entry, NEW sent \in Nat, NEW state, NEW fired,
           LogTrue(l, sent, state, fired), e.attempt = Len(l) + 1,
           \A i \in DOMAIN l : l[i].outcome = "failed",
           e.outcome # "skipped" => sent = Len(l) + 1 /\ state # "failed",
           state \in Firing!Finished, fired # 0
    PROVE  /\ LogTrue(Append(l, e), sent, state, fired)
           /\ Len(Append(l, e)) = Len(l) + 1 /\ Append(l, e) \in Seq(Entry)
           /\ e.outcome = "failed" => \A i \in DOMAIN Append(l, e) : Append(l, e)[i].outcome = "failed"
  <1> DEFINE m == Append(l, e)
  <1>1. /\ m \in Seq(Entry) /\ Len(m) = Len(l) + 1 /\ Len(l) \in Nat /\ DOMAIN m = 1 .. (Len(l) + 1)
        /\ DOMAIN l = 1 .. Len(l)
        /\ \A i \in 1 .. Len(l) : m[i] = l[i]
        /\ m[Len(l) + 1] = e
    OBVIOUS
  <1> HIDE DEF m
  <1>2. ASSUME NEW i \in DOMAIN m
        PROVE  /\ m[i].attempt = i
               /\ i < Len(m) => m[i].outcome = "failed"
               /\ m[i].outcome # "skipped" => i <= sent /\ state # "failed"
               /\ e.outcome = "failed" => m[i].outcome = "failed"
    <2>1. CASE i = Len(l) + 1
      BY <1>1, <2>1
    <2>2. CASE i # Len(l) + 1
      <3>1. i \in DOMAIN l /\ i \in 1 .. Len(l) /\ m[i] = l[i]
        BY <1>1, <2>2
      <3> QED
        BY <1>1, <3>1 DEF LogTrue
    <2> QED
      BY <2>1, <2>2
  <1>3. LogTrue(m, sent, state, fired)
    BY <1>1, <1>2 DEF LogTrue
  <1> QED
    BY <1>1, <1>2, <1>3 DEF m

\* RecordReportDelivery: the attempt becomes a row, or the store or the foreign
\* key refuses it.
LEMMA RecordDelivers ==
    ASSUME PoolInv, Firing!ScheduleAssumption, NEW w \in Runners, Firing!Record(w)
    PROVE  PoolInv'
  <1> DEFINE me == schedulesWork[w]
             r  == schedulesWork[w].job
             l  == log[r]
             e  == [attempt |-> me.attempt,
                    outcome |-> IF me.outcome \in {"succeeded", "skipped"}
                                  THEN me.outcome ELSE "failed"]
             x  == Firing!AfterRecord(me)
  <1>1. /\ schedulesProc # "down" /\ me.pc = "record"
        /\ UNCHANGED <<schedulesProc, schedulesNow, schedulesSchedule, edit, rearmed, tick,
               schedulesRun, firing, submitting, schedulesQueue,
                       refused, sends, schedulesCrashes>>
    BY DEF Firing!Record, Firing!Live, Firing!requestVars, Firing!poolVars
  <1>2. /\ me \in Delivery /\ r \in Firings /\ me.target <= schedulesSchedule.target
        /\ DeliverySound(me, l, sends[r], schedulesRun[r], firing[r])
        /\ LogTrue(l, sends[r], schedulesRun[r], firing[r])
        /\ schedulesErrors \in 0 .. MaxReportErrors /\ l \in Seq(Entry)
        /\ schedulesRun \in [Firings -> PoolStates] /\ log \in [Firings -> Seq(Entry)]
        /\ sends \in [Firings -> 0 .. MaxSends] /\ schedulesSchedule.target \in 0 .. MaxTargetEdits
    BY <1>1, DeliveryInHand DEF PoolInv, ProcessSound, FiringInv, ScheduleRow
  <1>3. /\ schedulesRun[r] \in Firing!Finished /\ firing[r] # 0 /\ Len(l) \in Nat
        /\ me.attempt = Len(l) + 1 /\ sends[r] \in {Len(l), Len(l) + 1}
        /\ me.outcome \in Firing!Outcomes
        /\ me.attempt \in 1 .. MaxSends /\ MaxSends \in Nat /\ sends[r] \in Nat
        /\ me.outcome # "skipped" => schedulesRun[r] # "failed" /\ sends[r] = Len(l) + 1
        /\ \A i \in DOMAIN l : l[i].outcome = "failed"
    <2>1. MaxSends \in Nat /\ me.attempt \in 0 .. MaxSends
      BY <1>2 DEF Delivery, Firing!ScheduleAssumption
    <2> QED
      BY <1>1, <1>2, <2>1 DEF DeliverySound
  <1>4. CASE /\ log' = [log EXCEPT ![me.job] = Append(@, e)] /\ UNCHANGED schedulesErrors
             /\ schedulesWork' = [schedulesWork EXCEPT ![w] = x]
    <2>1. /\ e \in Entry /\ e.attempt = Len(l) + 1
          /\ e.outcome # "skipped" => sends[r] = Len(l) + 1 /\ schedulesRun[r] # "failed"
          /\ me.outcome = "transient" => e.outcome = "failed"
      BY <1>3 DEF Entry, Firing!Outcomes
    <2> HIDE DEF e
    <2> DEFINE m == Append(l, e)
    <2>2. /\ LogTrue(m, sends[r], schedulesRun[r], firing[r]) /\ Len(m) = Len(l) + 1 /\ m \in Seq(Entry)
          /\ e.outcome = "failed" => \A i \in DOMAIN m : m[i].outcome = "failed"
      BY <1>2, <1>3, <2>1, LogGrows
    <2> HIDE DEF m
    <2>3. log'[r] = m /\ log' \in [Firings -> Seq(Entry)] /\ \A q \in Firings \ {r} : log'[q] = log[q]
      BY <1>2, <1>4, <2>2 DEF m
    <2>4. OnlyRun(r)
      BY <1>1, <1>2, <2>3 DEF OnlyRun
    <2>5. LogTrue(log'[r], sends'[r], schedulesRun'[r], firing'[r]) /\ schedulesRun'[r] # "queued"
      BY <1>1, <1>3, <2>2, <2>3 DEF Firing!Finished
    <2>6. x.job \in {r, NoRun} /\ HolderSound(x, schedulesRun', log', sends', firing',
              schedulesSchedule'.target)
      <3>1. CASE me.outcome = "transient" /\ me.attempt < MaxSends
        <4> DEFINE y == [me EXCEPT !.pc = "send", !.outcome = "none", !.attempt = @ + 1]
        <4>1. x = y
          BY <3>1 DEF Firing!AfterRecord
        <4>2. me.attempt + 1 \in 0 .. MaxSends
          BY <1>3, <3>1
        <4>3. /\ y \in Delivery /\ y.pc = "send" /\ y.job = r /\ y.target = me.target
              /\ y.attempt = me.attempt + 1 /\ y.outcome = "none"
          BY <1>2, <4>2 DEF Delivery
        <4> HIDE DEF y
        <4>4. /\ e.outcome = "failed" /\ schedulesRun[r] # "failed" /\ sends[r] = Len(m)
              /\ \A i \in DOMAIN m : m[i].outcome = "failed"
          BY <1>3, <2>1, <2>2, <3>1
        <4>5. DeliverySound(y, m, sends[r], schedulesRun[r], firing[r])
          BY <1>3, <2>2, <4>3, <4>4 DEF DeliverySound
        <4>6. HolderSound(y, schedulesRun', log', sends', firing', schedulesSchedule'.target)
          BY <1>1, <1>2, <2>3, <4>3, <4>5 DEF HolderSound
        <4> QED
          BY <4>1, <4>3, <4>6
      <3>2. CASE ~(me.outcome = "transient" /\ me.attempt < MaxSends)
        <4>1. x = Firing!Idle
          BY <3>2 DEF Firing!AfterRecord
        <4> HIDE DEF x
        <4> QED
          BY <4>1, IdleHolds
      <3> QED
        BY <3>1, <3>2
    <2>7. ~(Len(log'[r]) < sends'[r])
      BY <1>1, <1>3, <2>2, <2>3
    <2>8. schedulesErrors' \in 0 .. MaxReportErrors /\ schedulesErrors <= schedulesErrors'
      BY <1>2, <1>4, FailuresCounted
    <2> HIDE DEF x, r, l
    <2> QED
      BY <1>1, <1>2, <1>4, <2>4, <2>5, <2>6, <2>7, <2>8, WorkerDelivers DEF r
  <1>5. CASE /\ IF Firing!MayRecord(me) THEN Firing!Fails ELSE UNCHANGED schedulesErrors
             /\ schedulesWork' = [schedulesWork EXCEPT ![w] = Firing!Idle] /\ UNCHANGED log
    <2>1. schedulesErrors' \in 0 .. MaxReportErrors /\ schedulesErrors <= schedulesErrors'
      BY <1>2, <1>5, FailuresCounted
    <2>2. schedulesErrors' > 0 \/ schedulesSchedule.target > 0
      <3>1. CASE Firing!MayRecord(me)
        BY <1>2, <1>5, <3>1 DEF Firing!Fails, Firing!ScheduleAssumption
      <3>2. CASE ~Firing!MayRecord(me)
        <4>1. me.target # schedulesSchedule.target /\ me.target \in 0 .. MaxTargetEdits
                  /\ MaxTargetEdits \in Nat
          BY <1>2, <3>2 DEF Firing!MayRecord, Delivery, Firing!ScheduleAssumption
        <4> QED
          BY <1>2, <4>1
      <3> QED
        BY <3>1, <3>2
    <2> QED
      BY <1>1, <1>5, <2>1, <2>2, WorkerRests
  <1> QED
    BY <1>4, <1>5 DEF Firing!Record

\* Pool.work takes the first run of the queue.
LEMMA TakeDelivers ==
    ASSUME PoolInv, Firing!ScheduleAssumption, FiringInv', NEW w \in Runners, Firing!Take(w)
    PROVE  PoolInv'
  <1> DEFINE r == Head(schedulesQueue)
             x == [schedulesWork[w] EXCEPT !.pc = "start", !.job = r]
  <1>1. /\ schedulesProc # "down" /\ schedulesWork[w].pc = "idle" /\ schedulesQueue # <<>>
               /\ schedulesQueue' = Tail(schedulesQueue)
        /\ schedulesWork' = [schedulesWork EXCEPT ![w].pc = "start", ![w].job = Head(schedulesQueue)]
        /\ UNCHANGED <<schedulesProc, schedulesSchedule, schedulesRun, firing, submitting, refused, log,
               sends, schedulesErrors, schedulesCrashes>>
    BY DEF Firing!Take, Firing!Live, Firing!requestVars, Firing!logVars
  <1>2. /\ schedulesQueue \in Seq(Firings) /\ \A i,
           j \in DOMAIN schedulesQueue : schedulesQueue[i] = schedulesQueue[j] => i = j
        /\ schedulesWork \in [Runners -> Delivery] /\ schedulesWork[w] \in Delivery
               /\ schedulesWork[w] = Firing!Idle
        /\ NoRun \notin Firings /\ schedulesSchedule.target \in 0 .. MaxTargetEdits
    BY <1>1 DEF PoolInv, PlacesSound, HolderSound, FiringInv, ScheduleRow, Firing!ScheduleAssumption
  <1>3. /\ r \in Firings /\ r = schedulesQueue[1] /\ 1 \in DOMAIN schedulesQueue
               /\ schedulesQueue' \in Seq(Firings)
        /\ Len(schedulesQueue') = Len(schedulesQueue) - 1 /\ Len(schedulesQueue) \in Nat
               /\ Len(schedulesQueue) > 0
        /\ DOMAIN schedulesQueue' = 1 .. (Len(schedulesQueue) - 1)
               /\ DOMAIN schedulesQueue = 1 .. Len(schedulesQueue)
        /\ \A i \in DOMAIN schedulesQueue' : schedulesQueue'[i] = schedulesQueue[i + 1]
    BY <1>1, <1>2
  <1>4. Queued' = Queued \ {r} /\ r \in Queued
    <2>1. \A i \in DOMAIN schedulesQueue' : i + 1 \in DOMAIN schedulesQueue /\ i + 1 # 1
      BY <1>3
    <2>2. \A i \in DOMAIN schedulesQueue : i # 1 => i - 1 \in DOMAIN schedulesQueue' /\ (i - 1) + 1 = i
      BY <1>3
    <2>3. Queued' \subseteq Queued \ {r}
      BY <1>2, <1>3, <2>1 DEF Queued
    <2>4. ASSUME NEW i \in DOMAIN schedulesQueue, schedulesQueue[i] # r
          PROVE schedulesQueue[i] \in Queued'
      <3>1. i # 1
        BY <1>3, <2>4
      <3>2. schedulesQueue'[i - 1] = schedulesQueue[i]
        BY <1>3, <2>2, <3>1
      <3> QED
        BY <2>2, <3>1, <3>2 DEF Queued
    <2>5. \A q \in Queued \ {r} : q \in Queued'
      BY <2>4 DEF Queued
    <2>6. r \in Queued
      BY <1>3 DEF Queued
    <2> QED
      BY <2>3, <2>5, <2>6
  <1>5. \A i, j \in DOMAIN schedulesQueue' : schedulesQueue'[i] = schedulesQueue'[j] => i = j
    <2> SUFFICES ASSUME NEW i \in DOMAIN schedulesQueue', NEW j \in DOMAIN schedulesQueue',
                        schedulesQueue'[i] = schedulesQueue'[j]
                 PROVE  i = j
      OBVIOUS
    <2>1. i + 1 \in DOMAIN schedulesQueue /\ j + 1 \in DOMAIN schedulesQueue /\ i \in Nat /\ j \in Nat
      BY <1>3
    <2>2. i + 1 = j + 1
      BY <1>2, <1>3, <2>1
    <2> QED
      BY <2>1, <2>2
  <1>6. /\ x \in Delivery /\ x.pc = "start" /\ x.job = r /\ x.target = schedulesWork[w].target
    BY <1>2, <1>3 DEF Delivery
  <1>7. /\ schedulesWork' \in [Runners -> Delivery] /\ schedulesWork'[w] = x
        /\ \A v \in Runners : v # w => schedulesWork'[v] = schedulesWork[v]
    BY <1>1, <1>2, <1>6
  <1> HIDE DEF x, r
  <1>8. schedulesRun[r] = "queued" /\ \A v \in Runners : schedulesWork[v].job # r
    BY <1>4 DEF PoolInv, PlacesSound
  <1>9. ASSUME NEW v \in Runners
        PROVE  HolderSound(schedulesWork'[v], schedulesRun', log', sends', firing',
                   schedulesSchedule'.target)
    <2>1. CASE v = w
      <3>1. x.target <= schedulesSchedule.target
        BY <1>2, <1>6 DEF Firing!Idle
      <3>2. DeliverySound(x, log[r], sends[r], schedulesRun[r], firing[r])
        BY <1>6, <1>8 DEF DeliverySound
      <3> QED
        BY <1>1, <1>3, <1>6, <1>7, <2>1, <3>1, <3>2 DEF HolderSound
    <2>2. CASE v # w
      BY <1>1, <1>7, <2>2 DEF PoolInv
    <2> QED
      BY <2>1, <2>2
  <1>10. PlacesSound'
    <2>1. Len(schedulesQueue') <= PoolDepth
      BY <1>3 DEF PoolInv, PlacesSound, Firing!ScheduleAssumption
    <2>2. \A q \in submitting \cup Queued' : schedulesRun[q] = "queued"
              /\ \A v \in Runners : schedulesWork'[v].job # q
      <3>1. \A q \in submitting \cup Queued' : q # r /\ q \in submitting \cup Queued
        BY <1>4 DEF PoolInv, PlacesSound
      <3>2. \A q \in submitting \cup Queued : schedulesRun[q] = "queued"
                /\ \A v \in Runners : schedulesWork[v].job # q
        BY DEF PoolInv, PlacesSound
      <3> QED
        BY <1>6, <1>7, <3>1, <3>2
    <2>3. ASSUME NEW u \in Runners, NEW v \in Runners, u # v,
                 schedulesWork'[u].job = schedulesWork'[v].job
          PROVE  schedulesWork'[u].job = NoRun
      <3>1. CASE u # w /\ v # w
        BY <1>7, <2>3, <3>1 DEF PoolInv, PlacesSound
      <3>2. CASE u = w \/ v = w
        BY <1>6, <1>7, <1>8, <2>3, <3>2
      <3> QED
        BY <3>1, <3>2
    <2> QED
      BY <1>1, <1>3, <1>4, <1>5, <2>1, <2>2, <2>3 DEF PoolInv, PlacesSound
  <1>11. \A q \in Firings : (Firing!InHand(q) \/ q = r) => Firing!InHand(q)'
    <2>1. \A q \in Firings : schedulesWork[w].job # q
      BY <1>2 DEF Firing!Idle
    <2> QED
      BY <1>6, <1>7, <2>1 DEF Firing!InHand
  <1>12. Firing!QueuedIsUnderWay'
    <2> SUFFICES ASSUME NEW q \in Firings, schedulesRun[q] = "queued"
                 PROVE  \/ q \in submitting \/ Firing!InHand(q)' \/ q \in Queued'
                        \/ q \in refused \/ schedulesErrors > 0 \/ schedulesProc # "up"
                               \/ schedulesCrashes > 0
      BY <1>1 DEF Firing!QueuedIsUnderWay, Firing!Up, Queued
    <2>1. \/ q \in submitting \/ Firing!InHand(q) \/ q \in Queued
          \/ q \in refused \/ schedulesErrors > 0 \/ schedulesProc # "up" \/ schedulesCrashes > 0
      BY DEF PoolInv, Firing!QueuedIsUnderWay, Firing!Up, Queued
    <2> QED
      BY <1>4, <1>11, <2>1
  <1>13. Firing!SendsAreLogged'
    BY <1>1, <1>11 DEF PoolInv, Firing!SendsAreLogged
  <1>14. ProcessSound'
    BY <1>1 DEF PoolInv, ProcessSound
  <1> QED
    BY <1>1, <1>7, <1>9, <1>10, <1>12, <1>13, <1>14 DEF PoolInv

\* Pool.Submit: the run is in the queue, or was refused.
LEMMA SubmitDelivers ==
    ASSUME PoolInv, Firing!ScheduleAssumption, FiringInv', NEW r \in Firings, Firing!Submit(r)
    PROVE  PoolInv'
  <1>1. /\ r \in submitting /\ submitting' = submitting \ {r}
        /\ UNCHANGED <<schedulesProc, schedulesSchedule, schedulesRun, firing, schedulesWork, log,
               sends, schedulesErrors, schedulesCrashes>>
    BY DEF Firing!Submit, Firing!requestVars, Firing!logVars
  <1>2. /\ schedulesQueue \in Seq(Firings) /\ \A i,
           j \in DOMAIN schedulesQueue : schedulesQueue[i] = schedulesQueue[j] => i = j
        /\ submitting \cap Queued = {} /\ Len(schedulesQueue) \in Nat
    BY DEF PoolInv, PlacesSound
  <1>3. /\ schedulesQueue' \in Seq(Firings) /\ Len(schedulesQueue') <= PoolDepth
               /\ refused' \subseteq Firings
        /\ \A i, j \in DOMAIN schedulesQueue' : schedulesQueue'[i] = schedulesQueue'[j] => i = j
        /\ refused \subseteq refused'
        /\ \/ Queued' = Queued \cup {r}
           \/ Queued' = Queued /\ r \in refused'
    <2>1. CASE Len(schedulesQueue) < PoolDepth
      <3>1. schedulesQueue' = Append(schedulesQueue, r) /\ refused' = refused
        BY <2>1 DEF Firing!Submit
      <3>2. /\ schedulesQueue' \in Seq(Firings) /\ Len(schedulesQueue') = Len(schedulesQueue) + 1
            /\ DOMAIN schedulesQueue' = 1 .. (Len(schedulesQueue) + 1)
                   /\ DOMAIN schedulesQueue = 1 .. Len(schedulesQueue)
            /\ schedulesQueue'[Len(schedulesQueue) + 1] = r
                   /\ \A i \in 1 .. Len(schedulesQueue) : schedulesQueue'[i] = schedulesQueue[i]
        BY <1>2, <3>1
      <3>3. \A i \in 1 .. Len(schedulesQueue) : schedulesQueue'[i] # r
        BY <1>1, <1>2, <3>2 DEF Queued
      <3>4. Queued' = Queued \cup {r}
        BY <1>2, <3>2 DEF Queued
      <3>5. \A i, j \in DOMAIN schedulesQueue' : schedulesQueue'[i] = schedulesQueue'[j] => i = j
        BY <1>2, <3>2, <3>3
      <3>6. Len(schedulesQueue') <= PoolDepth
        BY <1>2, <2>1, <3>2 DEF Firing!ScheduleAssumption
      <3> QED
        BY <3>1, <3>2, <3>4, <3>5, <3>6 DEF PoolInv, PlacesSound
    <2>2. CASE ~(Len(schedulesQueue) < PoolDepth)
      <3>1. schedulesQueue' = schedulesQueue /\ refused' = refused \cup {r}
        BY <2>2 DEF Firing!Submit
      <3> QED
        BY <1>2, <3>1 DEF PoolInv, PlacesSound, Queued
    <2> QED
      BY <2>1, <2>2
  <1>4. PlacesSound'
    <2>1. submitting' \cup Queued' \subseteq submitting \cup Queued
      BY <1>1, <1>3
    <2>2. submitting' \cap Queued' = {}
      BY <1>1, <1>2, <1>3
    <2> QED
      BY <1>1, <1>3, <2>1, <2>2 DEF PoolInv, PlacesSound
  <1>5. \A q \in Firings : Firing!InHand(q)' <=> Firing!InHand(q)
    BY <1>1 DEF Firing!InHand
  <1>6. Firing!QueuedIsUnderWay'
    <2> SUFFICES ASSUME NEW q \in Firings, schedulesRun[q] = "queued"
                 PROVE  \/ q \in submitting' \/ Firing!InHand(q)' \/ q \in Queued'
                        \/ q \in refused' \/ schedulesErrors > 0 \/ schedulesProc # "up"
                               \/ schedulesCrashes > 0
      BY <1>1 DEF Firing!QueuedIsUnderWay, Firing!Up, Queued
    <2>1. \/ q \in submitting \/ Firing!InHand(q) \/ q \in Queued
          \/ q \in refused \/ schedulesErrors > 0 \/ schedulesProc # "up" \/ schedulesCrashes > 0
      BY DEF PoolInv, Firing!QueuedIsUnderWay, Firing!Up, Queued
    <2> QED
      BY <1>1, <1>3, <1>5, <2>1
  <1>7. Firing!SendsAreLogged'
    BY <1>1, <1>5 DEF PoolInv, Firing!SendsAreLogged
  <1>8. ProcessSound'
    BY <1>1 DEF PoolInv, ProcessSound
  <1> QED
    BY <1>1, <1>4, <1>6, <1>7, <1>8 DEF PoolInv

\* A run is recorded as queued before its creator submits it.
LEMMA RunCreated ==
    ASSUME PoolInv, Firing!ScheduleAssumption, FiringInv', NEW r \in Firings, schedulesRun[r] = "none",
           schedulesRun' = [schedulesRun EXCEPT ![r] = "queued"], submitting' = submitting \cup {r},
           \A q \in Firings : q # r => firing'[q] = firing[q],
           schedulesSchedule'.target = schedulesSchedule.target,
           UNCHANGED <<schedulesProc, schedulesQueue, refused, schedulesWork, log, sends,
               schedulesErrors, schedulesCrashes>>
    PROVE  PoolInv'
  <1>1. /\ schedulesRun \in [Firings -> PoolStates] /\ schedulesRun' \in [Firings -> PoolStates]
               /\ schedulesRun'[r] = "queued"
        /\ \A q \in Firings : q # r => schedulesRun'[q] = schedulesRun[q]
    BY DEF PoolInv, PoolStates
  <1>2. log[r] = <<>> /\ sends[r] = 0 /\ LogTrue(log[r], sends[r], schedulesRun[r], firing[r])
    BY DEF PoolInv, LogTrue, Firing!Finished
  <1>3. \A w \in Runners : schedulesWork[w].job # r
    <2> SUFFICES ASSUME NEW w \in Runners, schedulesWork[w].job = r PROVE FALSE
      OBVIOUS
    <2>1. schedulesWork[w].pc # "idle"
      BY DEF PoolInv, HolderSound, Firing!Idle, Firing!ScheduleAssumption
    <2>2. DeliverySound(schedulesWork[w], log[r], sends[r], schedulesRun[r], firing[r])
              /\ schedulesWork[w] \in Delivery
      BY <2>1, DeliveryInHand
    <2> QED
      BY <2>1, <2>2 DEF DeliverySound, Delivery, Firing!Finished
  <1>4. r \notin submitting \cup Queued
    BY DEF PoolInv, PlacesSound
  <1>5. Queued' = Queued
    BY DEF Queued
  <1>6. PlacesSound'
    <2>1. submitting' \cup Queued' = submitting \cup Queued \cup {r}
      BY <1>5
    <2>2. \A q \in submitting \cup Queued : q \in Firings /\ q # r
      BY <1>4 DEF PoolInv, PlacesSound, Queued
    <2>3. \A q \in submitting' \cup Queued' :
            schedulesRun'[q] = "queued" /\ \A w \in Runners : schedulesWork'[w].job # q
      BY <1>1, <1>3, <2>1, <2>2 DEF PoolInv, PlacesSound
    <2>4. submitting' \cap Queued' = {}
      BY <1>4, <1>5 DEF PoolInv, PlacesSound
    <2> QED
      BY <2>3, <2>4 DEF PoolInv, PlacesSound
  <1>7. ASSUME NEW w \in Runners
        PROVE  HolderSound(schedulesWork'[w], schedulesRun', log', sends', firing',
                   schedulesSchedule'.target)
    <2>1. HolderSound(schedulesWork[w], schedulesRun, log, sends, firing, schedulesSchedule.target)
              /\ schedulesWork[w].job # r
      BY <1>3 DEF PoolInv
    <2>2. schedulesWork[w].job \in Firings =>
            schedulesRun'[schedulesWork[w].job] = schedulesRun[schedulesWork[w].job]
                /\ firing'[schedulesWork[w].job] = firing[schedulesWork[w].job]
      BY <1>1, <2>1
    <2> QED
      BY <2>1, <2>2 DEF HolderSound
  <1>8. ASSUME NEW q \in Firings PROVE LogTrue(log'[q], sends'[q], schedulesRun'[q], firing'[q])
    <2>1. CASE q = r
      BY <1>1, <1>2, <2>1 DEF LogTrue, Firing!Finished
    <2>2. CASE q # r
      BY <1>1, <2>2 DEF PoolInv
    <2> QED
      BY <2>1, <2>2
  <1>9. \A q \in Firings : Firing!InHand(q)' <=> Firing!InHand(q)
    BY DEF Firing!InHand
  <1>10. Firing!QueuedIsUnderWay'
    <2> SUFFICES ASSUME NEW q \in Firings, schedulesRun'[q] = "queued"
                 PROVE  \/ q \in submitting' \/ Firing!InHand(q)'
                        \/ \E i \in DOMAIN schedulesQueue : schedulesQueue[i] = q
                        \/ q \in refused \/ schedulesErrors > 0 \/ schedulesProc # "up"
                               \/ schedulesCrashes > 0
      BY DEF Firing!QueuedIsUnderWay, Firing!Up
    <2>1. CASE q = r
      BY <2>1
    <2>2. CASE q # r
      <3>1. schedulesRun[q] = "queued"
        BY <1>1, <2>2
      <3>2. \/ q \in submitting \/ Firing!InHand(q)
                   \/ \E i \in DOMAIN schedulesQueue : schedulesQueue[i] = q
            \/ q \in refused \/ schedulesErrors > 0 \/ schedulesProc # "up" \/ schedulesCrashes > 0
        BY <3>1 DEF PoolInv, Firing!QueuedIsUnderWay, Firing!Up
      <3> QED
        BY <1>9, <3>2
    <2> QED
      BY <2>1, <2>2
  <1>11. Firing!SendsAreLogged'
    BY <1>9 DEF PoolInv, Firing!SendsAreLogged
  <1>12. ProcessSound'
    BY DEF PoolInv, ProcessSound
  <1> QED
    BY <1>1, <1>6, <1>7, <1>8, <1>10, <1>11, <1>12 DEF PoolInv

\* Steps of the schedule and of its requests, and a shutdown, leave the pool alone.
LEMMA PoolRests ==
    ASSUME PoolInv, Firing!ScheduleAssumption, FiringInv',
           schedulesProc' = schedulesProc \/ (schedulesProc = "up" /\ schedulesProc' = "stopping"),
           schedulesErrors' \in 0 .. MaxReportErrors, schedulesErrors <= schedulesErrors',
           schedulesSchedule.target <= schedulesSchedule'.target,
           UNCHANGED <<schedulesRun, firing, submitting, schedulesQueue, refused, schedulesWork, log,
               sends, schedulesCrashes>>
    PROVE  PoolInv'
  <1>1. /\ schedulesErrors \in Nat /\ schedulesErrors' \in Nat /\ schedulesSchedule.target \in Nat
               /\ schedulesSchedule'.target \in Nat
    BY DEF PoolInv, ProcessSound, FiringInv, ScheduleRow, Firing!ScheduleAssumption
  <1>2. ASSUME NEW w \in Runners
        PROVE  HolderSound(schedulesWork'[w], schedulesRun', log', sends', firing',
                   schedulesSchedule'.target)
    <2>1. HolderSound(schedulesWork[w], schedulesRun, log, sends, firing, schedulesSchedule.target)
              /\ schedulesWork'[w] = schedulesWork[w]
      BY DEF PoolInv
    <2>2. schedulesWork[w].target \in Nat
      BY <2>1 DEF HolderSound, Delivery, Firing!ScheduleAssumption
    <2>3. schedulesWork[w].target <= schedulesSchedule.target
              => schedulesWork[w].target <= schedulesSchedule'.target
      BY <1>1, <2>2
    <2> QED
      BY <2>1, <2>3 DEF HolderSound
  <1>3. \A q \in Firings : Firing!InHand(q)' <=> Firing!InHand(q)
    BY DEF Firing!InHand
  <1>4. Firing!QueuedIsUnderWay'
    <2>1. schedulesErrors > 0 => schedulesErrors' > 0
      BY <1>1
    <2>2. Firing!Up' => Firing!Up
      BY DEF Firing!Up
    <2> QED
      BY <1>3, <2>1, <2>2 DEF PoolInv, Firing!QueuedIsUnderWay
  <1>5. Firing!SendsAreLogged'
    <2>1. (schedulesErrors > 0 => schedulesErrors' > 0)
              /\ (schedulesSchedule.target > 0 => schedulesSchedule'.target > 0)
      BY <1>1
    <2> QED
      BY <1>3, <2>1 DEF PoolInv, Firing!SendsAreLogged
  <1>6. PlacesSound'
    BY DEF PoolInv, PlacesSound, Queued
  <1>7. ProcessSound'
    BY DEF PoolInv, ProcessSound
  <1> QED
    BY <1>2, <1>4, <1>5, <1>6, <1>7 DEF PoolInv

\* The process ends: who was waiting or being served is not any more.
LEMMA ExitDelivers ==
    ASSUME PoolInv, Firing!ScheduleAssumption, FiringInv', Firing!Exit
    PROVE  PoolInv'
  <1>1. /\ schedulesProc' = "down" /\ schedulesCrashes < MaxReportCrashes
               /\ schedulesCrashes' = schedulesCrashes + 1
        /\ submitting' = {} /\ schedulesQueue' = <<>>
               /\ schedulesWork' = [w \in Runners |-> Firing!Idle]
        /\ UNCHANGED <<schedulesSchedule, schedulesRun, firing, refused, log, sends, schedulesErrors>>
    BY DEF Firing!Exit, Firing!logVars
  <1>2. schedulesCrashes' \in 0 .. MaxReportCrashes /\ schedulesCrashes' > 0
    BY <1>1 DEF PoolInv, ProcessSound, Firing!ScheduleAssumption
  <1>3. \A w \in Runners : schedulesWork'[w] = Firing!Idle
    BY <1>1
  <1>4. \A w \in Runners :
          HolderSound(schedulesWork'[w], schedulesRun', log', sends', firing',
              schedulesSchedule'.target)
    BY <1>3, IdleHolds
  <1>5. schedulesWork' \in [Runners -> Delivery]
    BY <1>1, IdleHolds
  <1>6. PlacesSound'
    <2>1. schedulesQueue' \in Seq(Firings) /\ Len(schedulesQueue') = 0 /\ DOMAIN schedulesQueue' = {}
      BY <1>1
    <2>2. Queued' = {}
      BY <2>1 DEF Queued
    <2>3. Len(schedulesQueue') <= PoolDepth
      BY <2>1 DEF Firing!ScheduleAssumption
    <2>4. Firing!Idle.job = NoRun
      BY DEF Firing!Idle
    <2> QED
      BY <1>1, <1>3, <2>1, <2>2, <2>3, <2>4 DEF PoolInv, PlacesSound
  <1>7. ProcessSound'
    BY <1>1, <1>2, <1>3 DEF PoolInv, ProcessSound
  <1>8. Firing!QueuedIsUnderWay' /\ Firing!SendsAreLogged'
    BY <1>2 DEF Firing!QueuedIsUnderWay, Firing!SendsAreLogged
  <1> QED
    BY <1>1, <1>4, <1>5, <1>6, <1>7, <1>8 DEF PoolInv

\* RecoverInterruptedReportRuns finishes the runs it finds running.
LEMMA RestartDelivers ==
    ASSUME PoolInv, Firing!ScheduleAssumption, FiringInv', Firing!Restart
    PROVE  PoolInv'
  <1>1. /\ schedulesProc = "down" /\ schedulesProc' = "up"
        /\ UNCHANGED <<schedulesSchedule, firing, submitting, schedulesQueue, refused, schedulesWork,
               log, sends, schedulesCrashes>>
    BY DEF Firing!Restart, Firing!requestVars, Firing!poolVars, Firing!logVars
  <1>2. /\ schedulesCrashes > 0 /\ \A w \in Runners : schedulesWork[w] = Firing!Idle
        /\ schedulesErrors \in 0 .. MaxReportErrors /\ schedulesRun \in [Firings -> PoolStates]
    BY <1>1 DEF PoolInv, ProcessSound
  <1>3. schedulesErrors' \in 0 .. MaxReportErrors
    BY <1>2, FailuresCounted DEF Firing!Restart
  <1>4. /\ schedulesRun' \in [Firings -> PoolStates]
        /\ \A r \in Firings : IF schedulesRun[r] = "running" THEN schedulesRun'[r] \in {"running",
               "partial", "failed"}
                                                             ELSE schedulesRun'[r] = schedulesRun[r]
    BY <1>2 DEF Firing!Restart, PoolStates, Firing!Finished
  <1>5. \A w \in Runners : HolderSound(schedulesWork'[w], schedulesRun', log', sends', firing',
            schedulesSchedule'.target)
    BY <1>1, <1>2, IdleHolds
  <1>6. ASSUME NEW r \in Firings PROVE LogTrue(log'[r], sends'[r], schedulesRun'[r], firing'[r])
    <2>1. LogTrue(log[r], sends[r], schedulesRun[r], firing[r])
      BY DEF PoolInv
    <2>2. CASE schedulesRun[r] = "running"
      BY <1>1, <1>4, <2>1, <2>2 DEF LogTrue, Firing!Finished
    <2>3. CASE schedulesRun[r] # "running"
      BY <1>1, <1>4, <2>1, <2>3
    <2> QED
      BY <2>2, <2>3
  <1>7. PlacesSound'
    <2>1. Queued' = Queued /\ Queued \subseteq Firings /\ submitting \subseteq Firings
      BY <1>1 DEF Queued, PoolInv, PlacesSound
    <2>2. \A q \in submitting \cup Queued : schedulesRun'[q] = "queued"
      BY <1>4, <2>1 DEF PoolInv, PlacesSound
    <2> QED
      BY <1>1, <2>1, <2>2 DEF PoolInv, PlacesSound
  <1>8. ProcessSound'
    BY <1>1, <1>3 DEF PoolInv, ProcessSound
  <1>9. Firing!QueuedIsUnderWay' /\ Firing!SendsAreLogged'
    BY <1>1, <1>2 DEF Firing!QueuedIsUnderWay, Firing!SendsAreLogged
  <1> QED
    BY <1>1, <1>4, <1>5, <1>6, <1>7, <1>8, <1>9 DEF PoolInv

LEMMA PoolInvInit ==
    ASSUME Firing!ScheduleAssumption, Firing!Init
    PROVE  PoolInv
  <1>1. /\ schedulesProc = "up" /\ schedulesCrashes = 0 /\ schedulesErrors = 0 /\ schedulesQueue = <<>>
               /\ submitting = {}
        /\ refused = {} /\ schedulesRun = [r \in Firings |-> "none"] /\ firing = [r \in Firings |-> 0]
        /\ schedulesWork = [w \in Runners |-> Firing!Idle] /\ log = [r \in Firings |-> <<>>]
        /\ sends = [r \in Firings |-> 0]
    BY DEF Firing!Init
  <1>2. FiringInv
    BY FiringInvInit
  <1>3. /\ \A w \in Runners : HolderSound(schedulesWork[w], schedulesRun, log, sends, firing,
               schedulesSchedule.target)
        /\ schedulesWork \in [Runners -> Delivery] /\ Firing!Idle.job = NoRun
    BY <1>1, IdleHolds
  <1>4. PlacesSound
    <2>1. schedulesQueue \in Seq(Firings) /\ Len(schedulesQueue) = 0 /\ DOMAIN schedulesQueue = {}
      BY <1>1
    <2>2. Queued = {}
      BY <2>1 DEF Queued
    <2> QED
      BY <1>1, <1>3, <2>1, <2>2 DEF PlacesSound, Firing!ScheduleAssumption
  <1>5. ProcessSound
    BY <1>1 DEF ProcessSound, Firing!ScheduleAssumption
  <1>6. \A r \in Firings : log[r] = <<>> /\ sends[r] = 0 /\ schedulesRun[r] = "none"
    BY <1>1
  <1>7. \A r \in Firings : LogTrue(log[r], sends[r], schedulesRun[r], firing[r])
    <2>1. <<>> \in Seq(Entry) /\ DOMAIN <<>> = {} /\ Len(<<>>) = 0
      OBVIOUS
    <2> QED
      BY <1>6, <2>1 DEF LogTrue
  <1>8. /\ schedulesRun \in [Firings -> PoolStates] /\ log \in [Firings -> Seq(Entry)]
        /\ sends \in [Firings -> 0 .. MaxSends]
    BY <1>1 DEF PoolStates, Firing!ScheduleAssumption
  <1>9. Firing!QueuedIsUnderWay /\ Firing!SendsAreLogged
    BY <1>6 DEF Firing!QueuedIsUnderWay, Firing!SendsAreLogged
  <1> QED
    BY <1>2, <1>3, <1>4, <1>5, <1>7, <1>8, <1>9 DEF PoolInv

LEMMA PoolInvStep ==
    ASSUME PoolInv, Firing!ScheduleAssumption, [Firing!Next]_(Firing!vars)
    PROVE  PoolInv'
  <1>1. FiringInv'
    BY FiringInvStep DEF PoolInv
  <1>2. /\ schedulesErrors \in 0 .. MaxReportErrors /\ schedulesErrors \in Nat
               /\ MaxReportErrors \in Nat
        /\ schedulesSchedule.target \in Nat /\ schedulesSchedule \in ScheduleRow
               /\ schedulesSchedule'.target \in Nat
    BY <1>1 DEF PoolInv, ProcessSound, FiringInv, ScheduleRow, Firing!ScheduleAssumption
  <1>3. CASE Firing!TimePasses \/ Firing!TickReads \/ Firing!EditReads \/ UNCHANGED Firing!vars
    <2>1. UNCHANGED <<schedulesProc, schedulesSchedule, schedulesRun, firing, submitting,
              schedulesQueue, refused, schedulesWork, log, sends,
                      schedulesErrors, schedulesCrashes>>
      BY <1>3 DEF Firing!TimePasses, Firing!TickReads, Firing!EditReads, Firing!vars,
                  Firing!requestVars, Firing!poolVars, Firing!logVars
    <2> QED
      BY <1>1, <1>2, <2>1, PoolRests
  <1>4. CASE Firing!ClaimRefused
    <2>1. UNCHANGED <<schedulesProc, schedulesSchedule, schedulesRun, firing, submitting,
              schedulesQueue, refused, schedulesWork, log, sends,
                      schedulesCrashes>>
      BY <1>4 DEF Firing!ClaimRefused, Firing!requestVars, Firing!poolVars, Firing!logVars
    <2>2. schedulesErrors' \in 0 .. MaxReportErrors /\ schedulesErrors <= schedulesErrors'
      BY <1>2, <1>4, FailuresCounted DEF Firing!ClaimRefused
    <2> QED
      BY <1>1, <1>2, <2>1, <2>2, PoolRests
  <1>5. CASE Firing!EditWrites
    <2>1. UNCHANGED <<schedulesProc, schedulesRun, firing, submitting, schedulesQueue, refused,
              schedulesWork, log, sends, schedulesErrors,
                      schedulesCrashes>>
      BY <1>5 DEF Firing!EditWrites, Firing!poolVars, Firing!logVars
    <2>2. schedulesSchedule.target <= schedulesSchedule'.target
      BY <1>2, <1>5 DEF Firing!EditWrites
    <2> QED
      BY <1>1, <1>2, <2>1, <2>2, PoolRests
  <1>6. CASE Firing!DeleteSchedule
    <2>1. /\ UNCHANGED <<schedulesProc, schedulesRun, firing, submitting, schedulesQueue, refused,
                 schedulesWork, log, sends, schedulesErrors,
                         schedulesCrashes>>
          /\ schedulesSchedule' = [schedulesSchedule EXCEPT !.next = 0, !.enabled = FALSE,
                 !.deleted = TRUE]
      BY <1>6 DEF Firing!DeleteSchedule, Firing!poolVars, Firing!logVars
    <2>2. schedulesSchedule'.target = schedulesSchedule.target
      BY <1>2, <2>1 DEF ScheduleRow
    <2> QED
      BY <1>1, <1>2, <2>1, <2>2, PoolRests
  <1>7. CASE Firing!Shutdown
    <2>1. /\ schedulesProc = "up" /\ schedulesProc' = "stopping"
          /\ UNCHANGED <<schedulesSchedule, schedulesRun, firing, submitting, schedulesQueue, refused,
                 schedulesWork, log, sends,
                         schedulesErrors, schedulesCrashes>>
      BY <1>7 DEF Firing!Shutdown, Firing!Up, Firing!requestVars, Firing!poolVars, Firing!logVars
    <2> QED
      BY <1>1, <1>2, <2>1, PoolRests
  <1>8. ASSUME NEW r \in Firings, Firing!Claim(r) PROVE PoolInv'
    <2>1. /\ schedulesRun[r] = "none" /\ schedulesRun' = [schedulesRun EXCEPT ![r] = "queued"]
          /\ submitting' = submitting \cup {r} /\ firing' = [firing EXCEPT ![r] = tick.due]
          /\ UNCHANGED <<schedulesProc, schedulesQueue, refused, schedulesWork, log, sends,
                 schedulesErrors, schedulesCrashes>>
      BY <1>8 DEF Firing!Claim, Firing!Handed, Firing!logVars
    <2>2. \A q \in Firings : q # r => firing'[q] = firing[q]
      BY <2>1 DEF PoolInv, FiringInv
    <2>3. schedulesSchedule'.target = schedulesSchedule.target
      BY <1>2, <1>8 DEF Firing!Claim, Firing!Advanced, ScheduleRow
    <2> QED
      BY <1>1, <2>1, <2>2, <2>3, RunCreated
  <1>9. ASSUME NEW r \in Firings, Firing!Generate(r) PROVE PoolInv'
    BY <1>1, <1>9, RunCreated
    DEF Firing!Generate, Firing!Handed, Firing!requestVars, Firing!logVars
  <1>10. ASSUME NEW w \in Runners, Firing!Step(w) PROVE PoolInv'
    BY <1>1, <1>10, TakeDelivers, StartDelivers, ExecuteDelivers, HandOverDelivers, SendDelivers,
       RecordDelivers DEF Firing!Step
  <1> QED
    BY <1>1, <1>3, <1>4, <1>5, <1>6, <1>7, <1>8, <1>9, <1>10, SubmitDelivers, ExitDelivers,
       RestartDelivers DEF Firing!Next

LEMMA PoolInvAlways ==
    ASSUME Firing!ScheduleAssumption PROVE Firing!Spec => []PoolInv
  <1>1. Firing!Init => PoolInv
    BY PoolInvInit
  <1>2. PoolInv /\ [Firing!Next]_(Firing!vars) => PoolInv'
    BY PoolInvStep
  <1> QED
    BY <1>1, <1>2, PTL DEF Firing!Spec

(* The scheduler, the pool and the log stay within their types, the queue   *)
(* within its capacity and a run within its attempts.                       *)
THEOREM ScheduleTypes ==
    ASSUME Firing!ScheduleAssumption PROVE Firing!Spec => []Firing!TypeOK
  <1>1. PoolInv => Firing!TypeOK
    <2> SUFFICES ASSUME PoolInv PROVE Firing!TypeOK
      OBVIOUS
    <2>1. /\ schedulesSchedule \in [next : 0..(MaxFirings + 1), enabled : BOOLEAN,
                                    deleted : BOOLEAN, target : 0..MaxTargetEdits]
          /\ edit \in [next : 0..(MaxFirings + 1), enabled : BOOLEAN, fresh : BOOLEAN]
      BY DEF PoolInv, FiringInv, ScheduleRow, Edit
    <2>2. /\ tick \in [due : 0..MaxFirings, at : 0..MaxFirings] /\ schedulesNow \in 0..MaxFirings
          /\ firing \in [Firings -> 0..MaxFirings] /\ rearmed \subseteq 1..MaxFirings
      BY DEF PoolInv, FiringInv
    <2>3. /\ schedulesWork \in [Runners ->
                [pc : {"idle", "start", "execute", "handover", "send", "record"},
                 job : Firings \cup {NoRun}, target : 0..MaxTargetEdits,
                 attempt : 0..MaxSends, outcome : {"none"} \cup Firing!Outcomes]]
          /\ log \in [Firings -> Seq([attempt : 1..MaxSends,
                                      outcome : {"succeeded", "skipped", "failed"}])]
          /\ schedulesRun \in [Firings -> {"none", "queued", "running"} \cup Firing!Finished]
          /\ sends \in [Firings -> 0..MaxSends]
      BY DEF PoolInv, Delivery, Entry, PoolStates
    <2>4. /\ schedulesProc \in {"up", "stopping", "down"}
          /\ schedulesErrors \in 0..MaxReportErrors /\ schedulesCrashes \in 0..MaxReportCrashes
          /\ submitting \subseteq Firings /\ refused \subseteq Firings
          /\ schedulesQueue \in Seq(Firings) /\ Len(schedulesQueue) <= PoolDepth
      BY DEF PoolInv, ProcessSound, PlacesSound
    <2> QED
      BY <2>1, <2>2, <2>3, <2>4 DEF Firing!TypeOK
  <1> QED
    BY <1>1, PoolInvAlways, PTL

(* A queued run is on its way to a worker, or one of the things that strand *)
(* it has happened: a full queue, a failed call, a process told to end      *)
(* (Pool.Submit, generateReport, Scheduler.fire).                           *)
THEOREM QueuedRunsAreUnderWay ==
    ASSUME Firing!ScheduleAssumption PROVE Firing!Spec => []QueuedIsUnderWay
  <1>1. PoolInv => QueuedIsUnderWay
    BY DEF PoolInv, QueuedIsUnderWay
  <1> QED
    BY <1>1, PoolInvAlways, PTL

(* The delivery log reads as what happened: attempts in order from 1,       *)
(* nothing after the one that settled the matter, no success without its    *)
(* send (deliverTo, RecordReportDelivery).                                  *)
THEOREM LogTellsWhatHappened ==
    ASSUME Firing!ScheduleAssumption PROVE Firing!Spec => []Firing!LogReadsTrue
  <1>1. PoolInv => Firing!LogReadsTrue
    <2> SUFFICES ASSUME PoolInv, NEW r \in Firings
                 PROVE  /\ \A i \in DOMAIN log[r] :
                             /\ log[r][i].attempt = i
                             /\ i < Len(log[r]) => log[r][i].outcome = "failed"
                             /\ log[r][i].outcome # "skipped" => i <= sends[r]
                                    /\ schedulesRun[r] # "failed"
                        /\ log[r] # <<>> => schedulesRun[r] \in Firing!Finished /\ firing[r] # 0
      BY DEF Firing!LogReadsTrue
    <2>1. LogTrue(log[r], sends[r], schedulesRun[r], firing[r])
      BY DEF PoolInv
    <2> QED
      BY <2>1 DEF LogTrue
  <1> QED
    BY <1>1, PoolInvAlways, PTL

(* A send is a row of the log once its worker is done with the run, unless  *)
(* a call failed, the process ended, or an update replaced the target while *)
(* the run was being delivered to it (record and its foreign key).          *)
THEOREM SendsReachTheLog ==
    ASSUME Firing!ScheduleAssumption PROVE Firing!Spec => []Firing!SendsAreLogged
  <1>1. PoolInv => Firing!SendsAreLogged
    BY DEF PoolInv
  <1> QED
    BY <1>1, PoolInvAlways, PTL

-----------------------------------------------------------------------------
(* Brands, templates and share links (ReportAdmin) *)

BrandsTyped ==
    /\ DOMAIN brand = Brands
    /\ \A b \in Brands : brand[b] # Nobody => brand[b] \in Admin!BrandRow

OneDefault == \A b, c \in Brands : Admin!Default(b) /\ Admin!Default(c) => b = c

\* A template that exists makes sense, refers to a brand that exists, and while
\* it is live has the one its last write named.
TemplateSound(t) ==
    template[t] # Nobody =>
        /\ template[t] \in Admin!TemplateRow
        /\ Admin!Coherent(template[t]) /\ Admin!Referable(template[t])
        /\ template[t].live => template[t].brand = chosen[t]

\* What a request holds between its two steps.
AdminRequestSound(q) ==
    /\ adminReq[q].at = "brand" =>
          /\ adminReq[q].id \in Brands /\ adminReq[q].copy \in Admin!BrandRow
          /\ adminReq[q].body \in Admin!BrandBodies
    /\ adminReq[q].at = "template" =>
          /\ adminReq[q].id \in Templates /\ adminReq[q].copy \in Admin!TemplateRow
          /\ adminReq[q].copy.live /\ adminReq[q].body \in TemplateBodies
          /\ Admin!Coherent(Admin!Merged(adminReq[q].copy, adminReq[q].body))
    /\ adminReq[q].at = "share" =>
          /\ adminReq[q].id \in Links /\ link[adminReq[q].id] # Nobody /\ ~adminReq[q].body

LinksSound ==
    /\ DOMAIN link = Links
    /\ \A k \in Links : link[k] # Nobody => link[k] \in Admin!LinkRow
    /\ \A j, k \in Links :
          /\ link[j] # Nobody /\ link[k] # Nobody /\ link[j].of = link[k].of
          /\ ~link[j].revoked /\ ~link[k].revoked
          => j = k

TemplatesSound ==
    /\ DOMAIN template = Templates /\ DOMAIN chosen = Templates
    /\ \A t \in Templates : TemplateSound(t)

RequestsSound ==
    /\ DOMAIN adminReq = Editors
    /\ \A q \in Editors : AdminRequestSound(q)

\* The inductive invariant.
AdminInv ==
    /\ BrandsTyped /\ OneDefault /\ TemplatesSound /\ RequestsSound /\ LinksSound
    /\ adminNow \in Int

-----------------------------------------------------------------------------
(* Requests *)

\* A request that begins holds what its first step read.
LEMMA Begun ==
    ASSUME AdminInv, UNCHANGED link, NEW q \in Editors, NEW x,
           adminReq' = [adminReq EXCEPT ![q] = x],
           x.at = "brand" =>
             x.id \in Brands /\ x.copy \in Admin!BrandRow /\ x.body \in Admin!BrandBodies,
           x.at = "template" =>
             /\ x.id \in Templates /\ x.copy \in Admin!TemplateRow /\ x.copy.live
             /\ x.body \in TemplateBodies /\ Admin!Coherent(Admin!Merged(x.copy, x.body)),
           x.at = "share" => x.id \in Links /\ link[x.id] # Nobody /\ ~x.body
    PROVE  RequestsSound'
  <1>1. /\ DOMAIN adminReq' = Editors /\ adminReq'[q] = x
        /\ \A o \in Editors : o # q => adminReq'[o] = adminReq[o]
    BY DEF AdminInv, RequestsSound
  <1>2. AdminRequestSound(q)'
    BY <1>1 DEF AdminRequestSound
  <1>3. ASSUME NEW o \in Editors, o # q PROVE AdminRequestSound(o)'
    BY <1>1, <1>3 DEF AdminInv, RequestsSound, AdminRequestSound
  <1> QED
    BY <1>1, <1>2, <1>3 DEF RequestsSound

\* One that ends holds nothing, and no link is taken from under the others.
LEMMA Ended ==
    ASSUME RequestsSound, NEW q, 
           adminReq' = adminReq \/ adminReq' = [adminReq EXCEPT ![q] = Admin!Idle],
           \A k \in Links : link[k] # Nobody => link'[k] # Nobody
    PROVE  RequestsSound'
  <1>1. DOMAIN adminReq' = Editors
    BY DEF RequestsSound
  <1>2. ASSUME NEW o \in Editors PROVE AdminRequestSound(o)'
    <2>1. adminReq'[o] = adminReq[o] \/ adminReq'[o] = Admin!Idle
      BY DEF RequestsSound
    <2>2. CASE adminReq'[o] = Admin!Idle
      BY <2>2 DEF Admin!Idle, AdminRequestSound
    <2>3. CASE adminReq'[o] = adminReq[o]
      BY <2>3 DEF RequestsSound, AdminRequestSound
    <2> QED
      BY <2>1, <2>2, <2>3
  <1> QED
    BY <1>1, <1>2 DEF RequestsSound

-----------------------------------------------------------------------------
(* Brands *)

\* A write of a profile leaves one default, and takes no profile away.
LEMMA SavedKeeps ==
    ASSUME BrandsTyped, OneDefault, Admin!AdminAssumption, NEW b \in Brands,
           NEW profile \in Admin!BrandRow, brand' = Admin!Saved(b, profile)
    PROVE  /\ BrandsTyped' /\ OneDefault'
           /\ \A c \in Brands : brand[c] # Nobody => brand'[c] # Nobody
  <1>1. /\ DOMAIN brand' = Brands /\ brand'[b] = profile
        /\ \A c \in Brands : c # b =>
             brand'[c] = IF brand[c] # Nobody /\ profile.default
                         THEN [brand[c] EXCEPT !.default = FALSE] ELSE brand[c]
    BY DEF Admin!Saved
  <1>2. Nobody \notin Admin!BrandRow
    BY DEF Admin!AdminAssumption
  <1>3. ASSUME NEW c \in Brands, brand[c] # Nobody
        PROVE  /\ brand'[c] \in Admin!BrandRow
               /\ c # b => (brand'[c].default <=> brand[c].default /\ ~profile.default)
    <2>1. CASE c = b
      BY <1>1, <2>1
    <2>2. CASE c # b
      <3>1. brand[c] \in Admin!BrandRow
        BY <1>3 DEF BrandsTyped
      <3> QED
        BY <1>1, <1>3, <2>2, <3>1 DEF Admin!BrandRow
    <2> QED
      BY <2>1, <2>2
  <1>4. ASSUME NEW c \in Brands, brand'[c] # Nobody, c # b PROVE brand[c] # Nobody
    BY <1>1, <1>4
  <1>5. BrandsTyped'
    BY <1>1, <1>3, <1>4 DEF BrandsTyped, Admin!BrandRow
  <1>6. OneDefault'
    BY <1>1, <1>3, <1>4 DEF OneDefault, Admin!Default
  <1> QED
    BY <1>2, <1>3, <1>5, <1>6

\* Templates do not notice a brand that comes or changes.
LEMMA TemplatesKept ==
    ASSUME TemplatesSound, UNCHANGED <<template, chosen>>,
           \A c \in Brands : brand[c] # Nobody => brand'[c] # Nobody
    PROVE  TemplatesSound'
  <1>1. ASSUME NEW t \in Templates PROVE TemplateSound(t)'
    BY DEF TemplatesSound, TemplateSound, Admin!Referable, Admin!Coherent, Admin!TemplateRow,
           Admin!Types
  <1> QED
    BY <1>1 DEF TemplatesSound

LEMMA BrandSteps ==
    ASSUME AdminInv, Admin!AdminAssumption, Admin!BrandStep
    PROVE  AdminInv'
  <1> PICK b \in Brands :
         \/ \E d \in BOOLEAN : Admin!CreateBrand(b, d)
         \/ \E q \in Editors, body \in Admin!BrandBodies : Admin!LoadBrand(q, b, body)
         \/ Admin!UploadLogo(b) \/ Admin!DeleteBrand(b)
    BY DEF Admin!BrandStep
  <1>1. LinksSound' /\ adminNow' \in Int /\ UNCHANGED link
    <2>1. UNCHANGED <<link, adminNow>>
      BY DEF Admin!CreateBrand, Admin!LoadBrand, Admin!UploadLogo, Admin!DeleteBrand,
             Admin!rows, Admin!shares
    <2> QED
      BY <2>1 DEF AdminInv, LinksSound, Admin!LinkRow
  <1>2. ASSUME NEW d \in BOOLEAN, Admin!CreateBrand(b, d) PROVE AdminInv'
    <2> DEFINE profile == [default |-> d, logo |-> "none"]
    <2>1. profile \in Admin!BrandRow /\ brand' = Admin!Saved(b, profile)
      BY <1>2 DEF Admin!CreateBrand, Admin!BrandRow
    <2> HIDE DEF profile
    <2>2. /\ BrandsTyped' /\ OneDefault'
          /\ \A c \in Brands : brand[c] # Nobody => brand'[c] # Nobody
      BY <2>1, SavedKeeps DEF AdminInv
    <2>3. UNCHANGED <<template, chosen, adminReq>>
      BY <1>2 DEF Admin!CreateBrand
    <2>4. TemplatesSound' /\ RequestsSound'
      BY <1>1, <2>2, <2>3, TemplatesKept, Ended DEF AdminInv
    <2> QED
      BY <1>1, <2>2, <2>4 DEF AdminInv
  <1>3. ASSUME NEW q \in Editors, NEW body \in Admin!BrandBodies, Admin!LoadBrand(q, b, body)
        PROVE  AdminInv'
    <2>1. /\ UNCHANGED <<brand, template, chosen>> /\ brand[b] # Nobody
          /\ adminReq' = [adminReq EXCEPT ![q] = [at |-> "brand", id |-> b, copy |-> brand[b],
                                                  body |-> body]]
      BY <1>3 DEF Admin!LoadBrand, Admin!Begins, Admin!rows
    <2>2. brand[b] \in Admin!BrandRow
      BY <2>1 DEF AdminInv, BrandsTyped
    <2>3. RequestsSound'
      <3> DEFINE x == [at |-> "brand", id |-> b, copy |-> brand[b], body |-> body]
      <3>1. x.at = "brand" /\ x.id = b /\ x.copy = brand[b] /\ x.body = body
        OBVIOUS
      <3>2. adminReq' = [adminReq EXCEPT ![q] = x]
        BY <2>1
      <3> HIDE DEF x
      <3> QED
        BY <1>1, <1>3, <2>2, <3>1, <3>2, Begun
    <2>4. TemplatesSound'
      BY <2>1, TemplatesKept DEF AdminInv
    <2>5. BrandsTyped' /\ OneDefault'
      BY <2>1 DEF AdminInv, BrandsTyped, OneDefault, Admin!Default, Admin!BrandRow
    <2> QED
      BY <1>1, <2>3, <2>4, <2>5 DEF AdminInv
  <1>4. CASE Admin!UploadLogo(b)
    <2>1. /\ UNCHANGED <<template, chosen, adminReq>> /\ brand[b] # Nobody
          /\ brand' = [brand EXCEPT ![b].logo = "raster"]
      BY <1>4 DEF Admin!UploadLogo
    <2>2. brand[b] \in Admin!BrandRow /\ Nobody \notin Admin!BrandRow
      BY <2>1 DEF AdminInv, BrandsTyped, Admin!AdminAssumption
    <2>3. /\ DOMAIN brand' = Brands /\ brand'[b] \in Admin!BrandRow
          /\ brand'[b].default = brand[b].default
          /\ \A c \in Brands : c # b => brand'[c] = brand[c]
      BY <2>1, <2>2 DEF AdminInv, BrandsTyped, Admin!BrandRow
    <2>4. BrandsTyped' /\ OneDefault' /\ \A c \in Brands : brand[c] # Nobody => brand'[c] # Nobody
      BY <2>1, <2>2, <2>3 DEF AdminInv, BrandsTyped, OneDefault, Admin!Default, Admin!BrandRow
    <2>5. TemplatesSound' /\ RequestsSound'
      BY <1>1, <2>1, <2>4, TemplatesKept, Ended DEF AdminInv
    <2> QED
      BY <1>1, <2>4, <2>5 DEF AdminInv
  <1>5. CASE Admin!DeleteBrand(b)
    <2>1. /\ UNCHANGED <<chosen, adminReq>> /\ brand' = [brand EXCEPT ![b] = Nobody]
          /\ template' = [t \in Templates |->
                IF template[t] # Nobody /\ template[t].brand = b
                THEN [template[t] EXCEPT !.brand = Nobody] ELSE template[t]]
      BY <1>5 DEF Admin!DeleteBrand
    <2>2. /\ DOMAIN brand' = Brands /\ brand'[b] = Nobody
          /\ \A c \in Brands : c # b => brand'[c] = brand[c]
      BY <2>1 DEF AdminInv, BrandsTyped
    <2>3. BrandsTyped' /\ OneDefault'
      BY <2>2 DEF AdminInv, BrandsTyped, OneDefault, Admin!Default, Admin!BrandRow
    <2>4. ASSUME NEW t \in Templates, template'[t] # Nobody PROVE TemplateSound(t)'
      <3>1. template[t] # Nobody /\ TemplateSound(t)
        BY <2>1, <2>4 DEF AdminInv, TemplatesSound
      <3>2. CASE template[t].brand = b
        <4>1. ~template[t].live
          BY <1>5, <3>1, <3>2 DEF Admin!DeleteBrand, Admin!InUse, Admin!Live
        <4>2. template'[t] = [template[t] EXCEPT !.brand = Nobody]
          BY <2>1, <3>1, <3>2
        <4> QED
          BY <3>1, <4>1, <4>2 DEF TemplateSound, Admin!TemplateRow, Admin!Coherent,
                                  Admin!Referable, Admin!Types
      <3>3. CASE template[t].brand # b
        <4>1. template'[t] = template[t]
          BY <2>1, <3>3
        <4> QED
          BY <2>1, <2>2, <3>1, <3>3, <4>1 DEF TemplateSound, Admin!TemplateRow,
             Admin!Coherent, Admin!Referable, Admin!Types
      <3> QED
        BY <3>2, <3>3
    <2>5. TemplatesSound'
      BY <2>1, <2>4 DEF TemplatesSound, TemplateSound, AdminInv
    <2>6. RequestsSound'
      BY <1>1, <2>1, Ended DEF AdminInv
    <2> QED
      BY <1>1, <2>3, <2>5, <2>6 DEF AdminInv
  <1> QED
    BY <1>2, <1>3, <1>4, <1>5

-----------------------------------------------------------------------------
(* Templates *)

\* A body merged onto a row is a row.
LEMMA MergedTyped ==
    ASSUME Admin!AdminAssumption, NEW x \in Admin!TemplateRow, NEW body \in TemplateBodies
    PROVE  Admin!Merged(x, body) \in Admin!TemplateRow /\ Admin!Merged(x, body).live = x.live
  <1> DEFINE type == IF body.type = Nobody THEN x.type ELSE body.type
             comparison == IF body.comparison = Nobody THEN x.comparison
                           ELSE body.comparison = "given"
             formats == IF body.formats = Nobody THEN x.formats ELSE body.formats
             profile == IF body.brand = Nobody THEN x.brand
                        ELSE IF body.brand = "null" THEN Nobody ELSE body.brand
  <1>1. body \in [type : Admin!Types \cup {Nobody}, comparison : {Nobody, "null", "given"},
                  formats : (SUBSET TemplateFormats) \cup {Nobody},
                  brand : Brands \cup {Nobody, "null"}]
    BY DEF Admin!AdminAssumption
  <1>2. /\ type \in Admin!Types /\ comparison \in BOOLEAN /\ formats \in SUBSET TemplateFormats
        /\ profile \in Brands \cup {Nobody}
    BY <1>1 DEF Admin!TemplateRow
  <1>3. Admin!Merged(x, body) = [x EXCEPT !.type = type, !.comparison = comparison,
                                          !.formats = formats, !.brand = profile]
    BY DEF Admin!Merged, Admin!TemplateRow
  <1> HIDE DEF type, comparison, formats, profile
  <1> QED
    BY <1>2, <1>3 DEF Admin!TemplateRow

\* A template that is created or rewritten names a brand that exists and makes
\* sense; the others stay.
LEMMA Rewritten ==
    ASSUME TemplatesSound, UNCHANGED brand, NEW t \in Templates, NEW x \in Admin!TemplateRow,
           Admin!Coherent(x), Admin!Referable(x),
           template' = [template EXCEPT ![t] = x], chosen' = [chosen EXCEPT ![t] = x.brand]
    PROVE  TemplatesSound'
  <1>1. /\ DOMAIN template' = Templates /\ DOMAIN chosen' = Templates
        /\ template'[t] = x /\ chosen'[t] = x.brand
        /\ \A u \in Templates : u # t => template'[u] = template[u] /\ chosen'[u] = chosen[u]
    BY DEF TemplatesSound
  <1>2. \A y : Admin!Referable(y) => Admin!Referable(y)'
    BY DEF Admin!Referable
  <1>3. TemplateSound(t)'
    <2>1. Admin!Referable(template[t])'
      BY <1>1 DEF Admin!Referable
    <2> QED
      BY <1>1, <2>1 DEF TemplateSound
  <1>4. ASSUME NEW u \in Templates, u # t PROVE TemplateSound(u)'
    <2>1. Admin!Referable(template[u]) => Admin!Referable(template[u])'
      BY <1>1, <1>4 DEF Admin!Referable
    <2> QED
      BY <1>1, <1>4, <2>1 DEF TemplatesSound, TemplateSound
  <1> QED
    BY <1>1, <1>3, <1>4 DEF TemplatesSound

LEMMA BrandsKept ==
    ASSUME BrandsTyped, OneDefault, UNCHANGED brand
    PROVE  /\ BrandsTyped' /\ OneDefault'
           /\ \A c \in Brands : brand[c] # Nobody => brand'[c] # Nobody
  BY DEF BrandsTyped, OneDefault, Admin!Default, Admin!BrandRow

LEMMA LinksKept ==
    ASSUME LinksSound, UNCHANGED link PROVE LinksSound'
  BY DEF LinksSound, Admin!LinkRow

LEMMA TemplateSteps ==
    ASSUME AdminInv, Admin!AdminAssumption, Admin!TemplateStep
    PROVE  AdminInv'
  <1> PICK t \in Templates :
        \/ \E body \in TemplateBodies : Admin!CreateTemplate(t, body)
        \/ \E q \in Editors, body \in TemplateBodies : Admin!LoadTemplate(q, t, body)
        \/ \E q \in Editors, s \in Schedules : Admin!LoadSchedule(q, s, t)
        \/ \E r \in Reports : Admin!Generate(r, t)
        \/ Admin!DeleteTemplate(t)
    BY DEF Admin!TemplateStep
  <1>1. UNCHANGED <<brand, link, adminNow>>
    BY DEF Admin!CreateTemplate, Admin!LoadTemplate, Admin!LoadSchedule, Admin!Generate,
           Admin!DeleteTemplate, Admin!rows, Admin!shares
  <1>2. /\ BrandsTyped' /\ OneDefault' /\ LinksSound' /\ adminNow' \in Int
        /\ \A c \in Brands : brand[c] # Nobody => brand'[c] # Nobody
    BY <1>1, BrandsKept, LinksKept DEF AdminInv
  <1>3. ASSUME NEW body \in TemplateBodies, Admin!CreateTemplate(t, body) PROVE AdminInv'
    <2> DEFINE x == Admin!Merged(Admin!Blank, body)
    <2>1. /\ Admin!Coherent(x) /\ Admin!Referable(x) /\ UNCHANGED adminReq
          /\ template' = [template EXCEPT ![t] = x] /\ chosen' = [chosen EXCEPT ![t] = x.brand]
      BY <1>3 DEF Admin!CreateTemplate
    <2>2. Admin!Blank \in Admin!TemplateRow
      BY DEF Admin!Blank, Admin!TemplateRow, Admin!Types
    <2>3. x \in Admin!TemplateRow
      BY <1>3, <2>2, MergedTyped
    <2> HIDE DEF x
    <2>4. TemplatesSound'
      BY <1>1, <2>1, <2>3, Rewritten DEF AdminInv
    <2>5. RequestsSound'
      BY <1>1, <2>1, Ended DEF AdminInv
    <2> QED
      BY <1>2, <2>4, <2>5 DEF AdminInv
  <1>4. ASSUME NEW q \in Editors, NEW body \in TemplateBodies, Admin!LoadTemplate(q, t, body)
        PROVE  AdminInv'
    <2>1. /\ UNCHANGED <<template, chosen>> /\ template[t] # Nobody /\ template[t].live
          /\ Admin!Coherent(Admin!Merged(template[t], body))
          /\ adminReq' = [adminReq EXCEPT ![q] =
                            [at |-> "template", id |-> t, copy |-> template[t], body |-> body]]
      BY <1>4 DEF Admin!LoadTemplate, Admin!Begins, Admin!Live, Admin!rows
    <2>2. template[t] \in Admin!TemplateRow
      BY <2>1 DEF AdminInv, TemplatesSound, TemplateSound
    <2>3. RequestsSound'
      <3> DEFINE x == [at |-> "template", id |-> t, copy |-> template[t], body |-> body]
      <3>1. x.at = "template" /\ x.id = t /\ x.copy = template[t] /\ x.body = body
        OBVIOUS
      <3>2. adminReq' = [adminReq EXCEPT ![q] = x]
        BY <2>1
      <3> HIDE DEF x
      <3> QED
        BY <1>1, <1>4, <2>1, <2>2, <3>1, <3>2, Begun
    <2>4. TemplatesSound'
      BY <1>2, <2>1, TemplatesKept DEF AdminInv
    <2> QED
      BY <1>2, <2>3, <2>4 DEF AdminInv
  <1>5. ASSUME NEW q \in Editors, NEW s \in Schedules, Admin!LoadSchedule(q, s, t)
        PROVE  AdminInv'
    <2>1. /\ UNCHANGED <<template, chosen>>
          /\ adminReq' = [adminReq EXCEPT ![q] =
                            [at |-> "schedule", id |-> s, copy |-> t, body |-> Nobody]]
      BY <1>5 DEF Admin!LoadSchedule, Admin!Begins, Admin!rows
    <2>2. RequestsSound'
      <3> DEFINE x == [at |-> "schedule", id |-> s, copy |-> t, body |-> Nobody]
      <3>1. x.at = "schedule"
        OBVIOUS
      <3>2. adminReq' = [adminReq EXCEPT ![q] = x]
        BY <2>1
      <3> HIDE DEF x
      <3> QED
        BY <1>1, <1>5, <3>1, <3>2, Begun
    <2>3. TemplatesSound'
      BY <1>2, <2>1, TemplatesKept DEF AdminInv
    <2> QED
      BY <1>2, <2>2, <2>3 DEF AdminInv
  <1>6. ASSUME NEW r \in Reports, Admin!Generate(r, t) PROVE AdminInv'
    <2>1. UNCHANGED <<template, chosen, adminReq>>
      BY <1>6 DEF Admin!Generate, Admin!rows
    <2>2. RequestsSound' /\ TemplatesSound'
      BY <1>1, <1>2, <2>1, Ended, TemplatesKept DEF AdminInv
    <2> QED
      BY <1>2, <2>2 DEF AdminInv
  <1>7. CASE Admin!DeleteTemplate(t)
    <2>1. /\ template[t] # Nobody /\ UNCHANGED <<chosen, adminReq>>
          /\ template' = [template EXCEPT ![t].live = FALSE]
      BY <1>7 DEF Admin!DeleteTemplate, Admin!Live
    <2>2. /\ DOMAIN template' = Templates
          /\ \A u \in Templates : u # t => template'[u] = template[u]
          /\ template'[t] = [template[t] EXCEPT !.live = FALSE]
      BY <2>1 DEF AdminInv, TemplatesSound
    <2>3. TemplateSound(t)'
      BY <1>1, <2>1, <2>2 DEF AdminInv, TemplatesSound, TemplateSound, Admin!TemplateRow,
                       Admin!Coherent, Admin!Referable
    <2>4. ASSUME NEW u \in Templates, u # t PROVE TemplateSound(u)'
      <3>1. Admin!Referable(template[u]) => Admin!Referable(template[u])'
        BY <1>1, <2>2, <2>4 DEF Admin!Referable
      <3> QED
        BY <2>1, <2>2, <2>4, <3>1 DEF AdminInv, TemplatesSound, TemplateSound
    <2>5. TemplatesSound'
      BY <2>1, <2>2, <2>3, <2>4 DEF AdminInv, TemplatesSound
    <2>6. RequestsSound'
      BY <1>1, <2>1, Ended DEF AdminInv
    <2> QED
      BY <1>2, <2>5, <2>6 DEF AdminInv
  <1> QED
    BY <1>3, <1>4, <1>5, <1>6, <1>7

-----------------------------------------------------------------------------
(* Share links *)

\* A link that is withdrawn or opened is the same link.
LEMMA LinksChange ==
    ASSUME LinksSound, Admin!AdminAssumption, DOMAIN link' = Links,
           \A k \in Links : link[k] = Nobody => link'[k] = Nobody,
           \A k \in Links : link[k] # Nobody =>
              \/ link'[k] = link[k] \/ link'[k] = [link[k] EXCEPT !.revoked = TRUE]
              \/ link'[k] = [link[k] EXCEPT !.opened = TRUE]
    PROVE  LinksSound' /\ \A k \in Links : link[k] # Nobody => link'[k] # Nobody
  <1>1. Nobody \notin Admin!LinkRow
    BY DEF Admin!AdminAssumption
  <1>2. ASSUME NEW k \in Links, link[k] # Nobody
        PROVE  /\ link'[k] \in Admin!LinkRow /\ link'[k].of = link[k].of
               /\ link[k].revoked => link'[k].revoked
    <2>1. link[k] \in Admin!LinkRow
      BY <1>2 DEF LinksSound
    <2> QED
      BY <1>2, <2>1 DEF Admin!LinkRow
  <1>3. \A k \in Links : link'[k] # Nobody => link'[k] \in Admin!LinkRow
    BY <1>2
  <1>4. ASSUME NEW j \in Links, NEW k \in Links, link'[j] # Nobody, link'[k] # Nobody,
               link'[j].of = link'[k].of, ~link'[j].revoked, ~link'[k].revoked
        PROVE  j = k
    BY <1>2, <1>4 DEF LinksSound
  <1> QED
    BY <1>1, <1>2, <1>3, <1>4 DEF LinksSound, Admin!LinkRow

\* What does not touch the definitions.
LEMMA DefinitionsKept ==
    ASSUME AdminInv, UNCHANGED <<brand, template, chosen>>
    PROVE  BrandsTyped' /\ OneDefault' /\ TemplatesSound'
  BY BrandsKept, TemplatesKept DEF AdminInv

LEMMA ShareSteps ==
    ASSUME AdminInv, Admin!AdminAssumption, Admin!ShareStep
    PROVE  AdminInv'
  <1>1. /\ UNCHANGED <<brand, template, chosen>> /\ UNCHANGED adminNow
    BY DEF Admin!ShareStep, Admin!Share, Admin!Revoke, Admin!Resolve, Admin!Loses, Admin!rows
  <1>2. BrandsTyped' /\ OneDefault' /\ TemplatesSound' /\ adminNow' \in Int
    BY <1>1, DefinitionsKept DEF AdminInv
  <1>3. ASSUME NEW k \in Links, NEW r \in Reports, NEW e \in {1, MaxAdminTime + 1},
               Admin!Share(k, r, e)
        PROVE  AdminInv'
    <2> DEFINE x == [of |-> r, expires |-> e, revoked |-> FALSE, opened |-> FALSE]
    <2>1. /\ link[k] = Nobody /\ UNCHANGED adminReq /\ link' = [link EXCEPT ![k] = x]
          /\ \A j \in Links : link[j] # Nobody /\ link[j].of = r => link[j].revoked
      BY <1>3 DEF Admin!Share, Admin!Unshared
    <2>2. x \in Admin!LinkRow /\ x.of = r /\ e \in Int
      BY <1>3 DEF Admin!LinkRow, Admin!AdminAssumption
    <2> HIDE DEF x
    <2>3. /\ DOMAIN link' = Links /\ link'[k] = x
          /\ \A j \in Links : j # k => link'[j] = link[j]
      BY <2>1 DEF AdminInv, LinksSound
    <2>4. LinksSound'
      <3>1. \A j \in Links : link'[j] # Nobody => link'[j] \in Admin!LinkRow
        BY <2>2, <2>3 DEF AdminInv, LinksSound
      <3>2. ASSUME NEW i \in Links, NEW j \in Links, link'[i] # Nobody, link'[j] # Nobody,
                   link'[i].of = link'[j].of, ~link'[i].revoked, ~link'[j].revoked
            PROVE  i = j
        BY <2>1, <2>2, <2>3, <3>2 DEF AdminInv, LinksSound
      <3> QED
        BY <2>3, <3>1, <3>2 DEF LinksSound, Admin!LinkRow
    <2>5. \A j \in Links : link[j] # Nobody => link'[j] # Nobody
      BY <2>1, <2>3
    <2>6. RequestsSound'
      BY <2>1, <2>5, Ended DEF AdminInv
    <2> QED
      BY <1>2, <2>4, <2>6 DEF AdminInv
  <1>4. ASSUME NEW r \in Reports, Admin!Revoke(r) PROVE AdminInv'
    <2>1. /\ UNCHANGED adminReq
          /\ link' = [k \in Links |-> IF link[k] # Nobody /\ link[k].of = r
                                      THEN [link[k] EXCEPT !.revoked = TRUE] ELSE link[k]]
      BY <1>4 DEF Admin!Revoke
    <2>2. LinksSound' /\ \A k \in Links : link[k] # Nobody => link'[k] # Nobody
      BY <2>1, LinksChange DEF AdminInv
    <2>3. RequestsSound'
      BY <2>1, <2>2, Ended DEF AdminInv
    <2> QED
      BY <1>2, <2>2, <2>3 DEF AdminInv
  <1>5. ASSUME NEW q \in Editors, NEW k \in Links, Admin!Resolve(q, k) PROVE AdminInv'
    <2>1. UNCHANGED link /\ LinksSound'
      BY <1>5, LinksKept DEF Admin!Resolve, AdminInv
    <2>2. CASE UNCHANGED adminReq
      <3>1. RequestsSound'
        BY <2>1, <2>2, Ended DEF AdminInv
      <3> QED
        BY <1>2, <2>1, <3>1 DEF AdminInv
    <2>3. CASE ~UNCHANGED adminReq
      <3> DEFINE gone == link[k].revoked \/ link[k].expires <= adminNow
                 x == [at |-> "share", id |-> k, copy |-> link[k], body |-> gone]
      <3>1. Admin!Open(k) /\ adminReq' = [adminReq EXCEPT ![q] = x]
        BY <1>5, <2>3 DEF Admin!Resolve
      <3>2. link[k] # Nobody /\ ~link[k].revoked /\ link[k].expires > adminNow
        BY <3>1 DEF Admin!Open
      <3>3. link[k].expires \in Int /\ adminNow \in Int
        BY <1>5, <3>2 DEF AdminInv, LinksSound, Admin!LinkRow
      <3>4. gone = FALSE
        BY <3>2, <3>3
      <3>6. x.at = "share" /\ x.id = k /\ x.body = gone
        <4> HIDE DEF gone
        <4> QED
          OBVIOUS
      <3> HIDE DEF x, gone
      <3>5. RequestsSound'
        BY <1>5, <2>1, <3>1, <3>2, <3>4, <3>6, Begun
      <3> QED
        BY <1>2, <2>1, <3>5 DEF AdminInv
    <2> QED
      BY <2>2, <2>3
  <1>6. ASSUME NEW p \in DOMAIN adminFile, Admin!Loses(p) PROVE AdminInv'
    <2>1. UNCHANGED <<link, adminReq>>
      BY <1>6 DEF Admin!Loses, Admin!shares
    <2>2. LinksSound' /\ RequestsSound'
      BY <2>1, LinksKept, Ended DEF AdminInv
    <2> QED
      BY <1>2, <2>2 DEF AdminInv
  <1> QED
    BY <1>3, <1>4, <1>5, <1>6 DEF Admin!ShareStep

-----------------------------------------------------------------------------
(* The second step of a request *)

LEMMA WriteSteps ==
    ASSUME AdminInv, Admin!AdminAssumption, NEW q \in Editors,
           \/ Admin!WriteBrand(q) \/ Admin!WriteTemplate(q) \/ Admin!WriteSchedule(q)
           \/ Admin!ShowReport(q) \/ Admin!Download(q)
    PROVE  AdminInv'
  <1>1. adminReq' = [adminReq EXCEPT ![q] = Admin!Idle] /\ UNCHANGED adminNow /\ adminNow' \in Int
    BY DEF Admin!WriteBrand, Admin!WriteTemplate, Admin!WriteSchedule, Admin!ShowReport,
           Admin!Download, Admin!Ends, AdminInv
  <1>2. CASE Admin!WriteBrand(q)
    <2>1. /\ adminReq[q].at = "brand" /\ UNCHANGED <<template, chosen, link>>
      BY <1>2 DEF Admin!WriteBrand, Admin!shares
    <2>2. /\ adminReq[q].id \in Brands /\ adminReq[q].copy \in Admin!BrandRow
          /\ adminReq[q].body \in Admin!BrandBodies
      BY <2>1 DEF AdminInv, RequestsSound, AdminRequestSound
    <2> DEFINE b == adminReq[q].id
               default == IF adminReq[q].body.default = Nobody THEN adminReq[q].copy.default
                          ELSE adminReq[q].body.default
               profile == [default |-> default, logo |-> brand[b].logo]
    <2>3. default \in BOOLEAN
      BY <2>2 DEF Admin!BrandBodies, Admin!BrandRow
    <2>4. brand' = IF brand[b] = Nobody THEN brand ELSE Admin!Saved(b, profile)
      BY <1>2 DEF Admin!WriteBrand
    <2> HIDE DEF b, default
    <2>5. BrandsTyped' /\ OneDefault' /\ \A c \in Brands : brand[c] # Nobody => brand'[c] # Nobody
      <3>1. CASE brand[b] = Nobody
        <4>1. UNCHANGED brand
          BY <2>4, <3>1
        <4> QED
          BY <4>1, BrandsKept DEF AdminInv
      <3>2. CASE brand[b] # Nobody
        <4>1. b \in Brands /\ brand[b] \in Admin!BrandRow
          BY <2>2, <3>2 DEF AdminInv, BrandsTyped, b
        <4>2. profile \in Admin!BrandRow
          BY <2>3, <4>1 DEF Admin!BrandRow
        <4> HIDE DEF profile
        <4> QED
          BY <2>4, <3>2, <4>1, <4>2, SavedKeeps DEF AdminInv
      <3> QED
        BY <3>1, <3>2
    <2>6. TemplatesSound' /\ LinksSound' /\ RequestsSound'
      BY <1>1, <2>1, <2>5, TemplatesKept, LinksKept, Ended DEF AdminInv
    <2> QED
      BY <1>1, <2>5, <2>6 DEF AdminInv
  <1>3. CASE Admin!WriteTemplate(q)
    <2>1. adminReq[q].at = "template" /\ UNCHANGED <<brand, link>>
      BY <1>3 DEF Admin!WriteTemplate, Admin!shares
    <2> DEFINE t == adminReq[q].id  x == Admin!Written(q)
    <2>2. /\ t \in Templates /\ adminReq[q].copy \in Admin!TemplateRow
          /\ adminReq[q].body \in TemplateBodies /\ Admin!Coherent(x)
      BY <2>1 DEF AdminInv, RequestsSound, AdminRequestSound, Admin!Written
    <2>3. x \in Admin!TemplateRow
      BY <2>2, MergedTyped DEF Admin!Written
    <2>4. \/ UNCHANGED <<template, chosen>>
          \/ /\ Admin!Referable(x) /\ template' = [template EXCEPT ![t] = x]
             /\ chosen' = [chosen EXCEPT ![t] = x.brand]
      BY <1>3 DEF Admin!WriteTemplate
    <2> HIDE DEF t, x
    <2>5. BrandsTyped' /\ OneDefault' /\ \A c \in Brands : brand[c] # Nobody => brand'[c] # Nobody
      BY <2>1, BrandsKept DEF AdminInv
    <2>6. TemplatesSound'
      BY <2>1, <2>2, <2>3, <2>4, <2>5, TemplatesKept, Rewritten DEF AdminInv
    <2>7. LinksSound' /\ RequestsSound'
      BY <1>1, <2>1, LinksKept, Ended DEF AdminInv
    <2> QED
      BY <1>1, <2>5, <2>6, <2>7 DEF AdminInv
  <1>4. CASE Admin!WriteSchedule(q) \/ Admin!Download(q)
    <2>1. UNCHANGED <<brand, template, chosen>> /\ UNCHANGED link
      BY <1>4 DEF Admin!WriteSchedule, Admin!Download, Admin!shares, Admin!rows
    <2>2. BrandsTyped' /\ OneDefault' /\ TemplatesSound' /\ LinksSound'
      BY <2>1, DefinitionsKept, LinksKept DEF AdminInv
    <2>3. RequestsSound'
      BY <1>1, <2>1, Ended DEF AdminInv
    <2> QED
      BY <1>1, <2>2, <2>3 DEF AdminInv
  <1>5. CASE Admin!ShowReport(q)
    <2>1. adminReq[q].at = "share" /\ UNCHANGED <<brand, template, chosen>>
      BY <1>5 DEF Admin!ShowReport, Admin!rows
    <2> DEFINE k == adminReq[q].id
    <2>2. k \in Links /\ link[k] # Nobody
      BY <2>1 DEF AdminInv, RequestsSound, AdminRequestSound
    <2>3. link' = link \/ link' = [link EXCEPT ![k].opened = TRUE]
      BY <1>5 DEF Admin!ShowReport
    <2> HIDE DEF k
    <2>4. /\ DOMAIN link' = Links
          /\ \A j \in Links : link[j] = Nobody => link'[j] = Nobody
          /\ \A j \in Links : link'[j] = link[j] \/ link'[j] = [link[j] EXCEPT !.opened = TRUE]
      BY <2>2, <2>3 DEF AdminInv, LinksSound
    <2>5. LinksSound' /\ \A j \in Links : link[j] # Nobody => link'[j] # Nobody
      BY <2>4, LinksChange DEF AdminInv
    <2>6. RequestsSound'
      BY <1>1, <2>5, Ended DEF AdminInv
    <2>7. BrandsTyped' /\ OneDefault' /\ TemplatesSound'
      BY <2>1, DefinitionsKept
    <2> QED
      BY <1>1, <2>5, <2>6, <2>7 DEF AdminInv
  <1> QED
    BY <1>2, <1>3, <1>4, <1>5

LEMMA AdminHolds ==
    ASSUME Admin!AdminAssumption PROVE Admin!Spec => []AdminInv
  <1>1. Admin!Init => AdminInv
    <2> SUFFICES ASSUME Admin!Init PROVE AdminInv
      OBVIOUS
    <2>1. BrandsTyped /\ OneDefault
      BY DEF Admin!Init, BrandsTyped, OneDefault, Admin!Default
    <2>2. TemplatesSound
      BY DEF Admin!Init, TemplatesSound, TemplateSound
    <2>3. RequestsSound
      BY DEF Admin!Init, RequestsSound, AdminRequestSound, Admin!Idle
    <2>4. LinksSound
      BY DEF Admin!Init, LinksSound
    <2> QED
      BY <2>1, <2>2, <2>3, <2>4 DEF Admin!Init, AdminInv
  <1>2. AdminInv /\ [Admin!Next]_Admin!vars => AdminInv'
    <2> SUFFICES ASSUME AdminInv, [Admin!Next]_Admin!vars PROVE AdminInv'
      OBVIOUS
    <2>1. CASE Admin!TimePasses \/ UNCHANGED Admin!vars
      <3>1. /\ UNCHANGED <<brand, template, chosen>> /\ UNCHANGED link /\ UNCHANGED adminReq
            /\ adminNow' = adminNow + 1 \/ adminNow' = adminNow
        BY <2>1 DEF Admin!TimePasses, Admin!vars, Admin!rows, Admin!shares
      <3>2. BrandsTyped' /\ OneDefault' /\ TemplatesSound' /\ LinksSound'
        BY <3>1, DefinitionsKept, LinksKept DEF AdminInv
      <3>3. RequestsSound'
        BY <3>1, Ended DEF AdminInv
      <3> QED
        BY <3>1, <3>2, <3>3 DEF AdminInv
    <2>2. CASE Admin!BrandStep
      BY <2>2, BrandSteps
    <2>3. CASE Admin!TemplateStep
      BY <2>3, TemplateSteps
    <2>4. CASE Admin!ShareStep
      BY <2>4, ShareSteps
    <2>5. CASE \E q \in Editors : \/ Admin!WriteBrand(q) \/ Admin!WriteTemplate(q)
                                  \/ Admin!WriteSchedule(q)
                                  \/ Admin!ShowReport(q) \/ Admin!Download(q)
      BY <2>5, WriteSteps
    <2> QED
      BY <2>1, <2>2, <2>3, <2>4, <2>5 DEF Admin!Next
  <1> QED
    BY <1>1, <1>2, PTL DEF Admin!Spec

\* A live template keeps the brand its last write named, whichever requests
\* delete profiles meanwhile, every template refers to a profile that exists,
\* and one profile at most is the default (DeleteBrandProfile and
\* clearDefaultBrand, report_brands.go).
THEOREM BrandsStayPut ==
    ASSUME Admin!AdminAssumption PROVE Admin!Spec => []BrandsStay
  <1>1. AdminInv => BrandsStay
    <2> SUFFICES ASSUME AdminInv PROVE BrandsStay
      OBVIOUS
    <2>1. \A t \in Templates : Admin!Live(t) => template[t].brand = chosen[t]
      BY DEF AdminInv, TemplatesSound, TemplateSound, Admin!Live
    <2>2. \A t \in Templates : template[t] # Nobody => Admin!Referable(template[t])
      BY DEF AdminInv, TemplatesSound, TemplateSound
    <2>3. \A b, c \in Brands : Admin!Default(b) /\ Admin!Default(c) => b = c
      BY DEF AdminInv, OneDefault, Admin!Default
    <2> QED
      BY <2>1, <2>2, <2>3 DEF BrandsStay, Admin!BrandsStay
  <1> QED
    BY <1>1, AdminHolds, PTL

\* Two PATCHes that each make sense leave a template that makes sense
\* (applyReportTemplate with the whole row UpdateReportTemplate writes).
THEOREM TemplatesAlwaysRender ==
    ASSUME Admin!AdminAssumption PROVE Admin!Spec => []Admin!TemplatesRender
  <1>1. AdminInv => Admin!TemplatesRender
    BY DEF AdminInv, TemplatesSound, TemplateSound, Admin!TemplatesRender, Admin!Coherent,
           Admin!TemplateRow
  <1> QED
    BY <1>1, AdminHolds, PTL

\* A run has one link that is not withdrawn, and a client is let through only
\* by a link that was neither withdrawn nor past its time (report_shares.go).
THEOREM SharesComeToAnEnd ==
    ASSUME Admin!AdminAssumption PROVE Admin!Spec => []Admin!SharesEnd
  <1>1. AdminInv => Admin!SharesEnd
    BY DEF AdminInv, LinksSound, RequestsSound, AdminRequestSound, Admin!SharesEnd
  <1> QED
    BY <1>1, AdminHolds, PTL

-----------------------------------------------------------------------------
(* Status pages (StatusPages) *)

\* What the rules of a page say of its row, whatever the other rows hold.
PageSound(x) ==
    /\ x \in Publication!PageRow
    /\ x.protected => x.password # Nobody
    /\ x.sections[1] \cap x.sections[2] = {}

\* Rows that exist are sound, list what exists, and share no slug and no
\* hostname.
PageRowsSound ==
    /\ monitors \subseteq PageMonitors /\ DOMAIN pagesPage = StatusSites
    /\ \A p \in StatusSites : pagesPage[p] # Nobody =>
          /\ PageSound(pagesPage[p])
          /\ pagesPage[p].sections[1] \cup pagesPage[p].sections[2] \subseteq monitors
    /\ \A p, q \in StatusSites :
          pagesPage[p] # Nobody /\ pagesPage[q] # Nobody /\ p # q =>
             /\ pagesPage[p].slug # pagesPage[q].slug
             /\ pagesPage[p].domain = pagesPage[q].domain => pagesPage[p].domain = Nobody

Doing(r, kind) == pagesReq[r] # Nobody /\ pagesReq[r].kind = kind

\* A request that will write holds a sound row, and one that will store a map
\* holds the map of now unless a write has crossed it.
PageRequestSound(r) ==
    /\ Doing(r, "create") \/ Doing(r, "update") =>
          pagesReq[r].id \in StatusSites /\ PageSound(pagesReq[r].row)
    /\ Doing(r, "lookup") /\ ~crossed => pagesReq[r].map = Publication!CustomDomains

\* The inductive invariant.
PagesInv ==
    /\ PageRowsSound
    /\ DOMAIN pagesReq = Editors /\ pagesWrites \in Nat /\ DOMAIN cache = {"map", "fresh"}
    /\ \A r \in Editors : PageRequestSound(r)
    /\ Publication!DomainsFollowWrites

\* The pages a hostname is answered with.
Served == {p \in StatusSites : /\ pagesPage[p] # Nobody
                               /\ pagesPage[p].published /\ pagesPage[p].domain # Nobody}

MapIsOfNow ==
    /\ DOMAIN Publication!CustomDomains = {pagesPage[p].domain : p \in Served}
    /\ \A p \in Served : Publication!CustomDomains[pagesPage[p].domain] = pagesPage[p].slug
    /\ Publication!CustomDomains =
         [d \in DOMAIN Publication!CustomDomains |-> Publication!CustomDomains[d]]

\* No two pages share a hostname, so the map has the slug of each.
LEMMA MapOfNow == PageRowsSound => MapIsOfNow
  <1> SUFFICES ASSUME PageRowsSound PROVE MapIsOfNow
    OBVIOUS
  <1> DEFINE Of(d) == CHOOSE p \in Served : pagesPage[p].domain = d
             Hosts == {pagesPage[p].domain : p \in Served}
  <1>1. Served = {p \in Publication!Live(pagesPage) : pagesPage[p].published
            /\ pagesPage[p].domain # Nobody}
    BY DEF Served, PageRowsSound, Publication!Live
  <1>2. Publication!CustomDomains = [d \in Hosts |-> pagesPage[Of(d)].slug]
    BY <1>1 DEF Publication!CustomDomains
  <1>3. ASSUME NEW p \in Served, NEW q \in Served, pagesPage[q].domain = pagesPage[p].domain
        PROVE  p = q
    BY <1>3 DEF Served, PageRowsSound
  <1>4. ASSUME NEW p \in Served PROVE Of(pagesPage[p].domain) = p
    <2>1. /\ Of(pagesPage[p].domain) \in Served
          /\ pagesPage[Of(pagesPage[p].domain)].domain = pagesPage[p].domain
      OBVIOUS
    <2> HIDE DEF Of
    <2> QED
      BY <1>3, <2>1
  <1> HIDE DEF Of, Hosts
  <1>5. DOMAIN Publication!CustomDomains = Hosts
    BY <1>2
  <1>6. ASSUME NEW p \in Served PROVE Publication!CustomDomains[pagesPage[p].domain] = pagesPage[p].slug
    <2>1. pagesPage[p].domain \in Hosts
      BY DEF Hosts
    <2> QED
      BY <1>2, <1>4, <2>1
  <1>7. Publication!CustomDomains =
          [d \in DOMAIN Publication!CustomDomains |-> Publication!CustomDomains[d]]
    BY <1>2
  <1> QED
    BY <1>5, <1>6, <1>7 DEF MapIsOfNow, Hosts

\* The map is a matter of the hostnames, the slugs and what is published.
LEMMA SameMap ==
    ASSUME PageRowsSound, PageRowsSound',
           \A p \in StatusSites : (pagesPage'[p] = Nobody) = (pagesPage[p] = Nobody),
           \A p \in StatusSites : pagesPage[p] # Nobody =>
              /\ pagesPage'[p].published = pagesPage[p].published
              /\ pagesPage'[p].domain = pagesPage[p].domain
              /\ pagesPage'[p].slug = pagesPage[p].slug
    PROVE  Publication!CustomDomains' = Publication!CustomDomains
  <1>1. Served' = Served
    BY DEF Served
  <1>2. MapIsOfNow
    BY MapOfNow
  <1>3. MapIsOfNow'
    BY MapOfNow, PTL
  <1>4. \A p \in Served : /\ pagesPage'[p].domain = pagesPage[p].domain
                          /\ pagesPage'[p].slug = pagesPage[p].slug
    BY DEF Served
  <1>5. DOMAIN Publication!CustomDomains' = DOMAIN Publication!CustomDomains
    BY <1>1, <1>2, <1>3, <1>4 DEF MapIsOfNow
  <1>6. \A d \in DOMAIN Publication!CustomDomains : Publication!CustomDomains'[d] = Publication!CustomDomains[d]
    BY <1>1, <1>2, <1>3, <1>4 DEF MapIsOfNow
  <1> QED
    BY <1>2, <1>3, <1>5, <1>6 DEF MapIsOfNow

-----------------------------------------------------------------------------
(* Requests on pages *)

\* A page that is folded from a row obeys the rules that span two fields.
LEMMA FoldedSound ==
    ASSUME PageRowsSound, pagesWrites \in Nat, pagesWrites < MaxPageWrites,
           Publication!PagesAssumption,
           NEW x \in Publication!PageRow, NEW y \in Publication!Folded(x)
    PROVE  PageSound(y)
  <1>1. (y.protected => y.password # Nobody) /\ y.sections[1] \cap y.sections[2] = {}
    BY DEF Publication!Folded
  <1>2. MaxPageWrites \in Nat /\ monitors \subseteq PageMonitors
    BY DEF Publication!PagesAssumption, PageRowsSound
  <1>3. \/ \E s \in Slugs : y = [x EXCEPT !.slug = s]
        \/ \E d \in Hostnames \cup {Nobody} : y = [x EXCEPT !.domain = d]
        \/ \E b \in BOOLEAN : y = [x EXCEPT !.published = b]
        \/ \E b \in BOOLEAN : y = x \/ y \in Publication!WithPassword([x EXCEPT !.protected = b])
        \/ y \in Publication!WithSections(x)
    <2>1. \/ y \in {[x EXCEPT !.slug = s] : s \in Slugs}
          \/ y \in {[x EXCEPT !.domain = d] : d \in Hostnames \cup {Nobody}}
          \/ y \in {[x EXCEPT !.published = b] : b \in BOOLEAN}
          \/ y \in UNION {{x} \cup Publication!WithPassword([x EXCEPT !.protected = b]) : b \in BOOLEAN}
          \/ y \in Publication!WithSections(x)
      <3>1. y \in Publication!Edits(x)
        BY DEF Publication!Folded
      <3> QED
        BY <3>1 DEF Publication!Edits
    <2>2. CASE y \in UNION {{x} \cup Publication!WithPassword([x EXCEPT !.protected = b]) : b \in BOOLEAN}
      <3>1. \E b \in BOOLEAN : y \in {x} \cup Publication!WithPassword([x EXCEPT !.protected = b])
        BY <2>2
      <3> QED
        BY <3>1
    <2> QED
      BY <2>1, <2>2
  <1>4. CASE \E s \in Slugs : y = [x EXCEPT !.slug = s]
    BY <1>1, <1>4 DEF PageSound, Publication!PageRow
  <1>5. CASE \E d \in Hostnames \cup {Nobody} : y = [x EXCEPT !.domain = d]
    BY <1>1, <1>5 DEF PageSound, Publication!PageRow
  <1>6. CASE \E b \in BOOLEAN : y = [x EXCEPT !.published = b]
    BY <1>1, <1>6 DEF PageSound, Publication!PageRow
  <1>7. CASE \E b \in BOOLEAN : y = x \/ y \in Publication!WithPassword([x EXCEPT !.protected = b])
    <2>1. PICK b \in BOOLEAN : y = x \/ y \in Publication!WithPassword([x EXCEPT !.protected = b])
      BY <1>7
    <2>2. CASE y = x
      BY <1>1, <2>2 DEF PageSound
    <2>3. CASE y # x
      <3>1. PICK w \in {Nobody, pagesWrites + 1} : y = [[x EXCEPT !.protected = b] EXCEPT !.password = w]
        BY <2>1, <2>3 DEF Publication!WithPassword
      <3>2. w \in {Nobody} \cup 1 .. MaxPageWrites
        BY <1>2
      <3>3. [x EXCEPT !.protected = b] \in Publication!PageRow
        BY DEF Publication!PageRow
      <3>4. y \in Publication!PageRow
        <4> DEFINE z == [x EXCEPT !.protected = b]
        <4>1. y = [z EXCEPT !.password = w] /\ z \in Publication!PageRow
          BY <3>1, <3>3
        <4> HIDE DEF z
        <4> QED
          BY <3>2, <4>1 DEF Publication!PageRow
      <3> QED
        BY <1>1, <3>4 DEF PageSound
    <2> QED
      BY <2>2, <2>3
  <1>8. CASE y \in Publication!WithSections(x)
    <2>1. PICK a \in SUBSET monitors, b \in SUBSET monitors : y = [x EXCEPT !.sections = <<a, b>>]
      BY <1>8 DEF Publication!WithSections
    <2>2. <<a, b>> \in (SUBSET PageMonitors) \X (SUBSET PageMonitors)
      BY <1>2
    <2> QED
      BY <1>1, <2>1, <2>2 DEF PageSound, Publication!PageRow
  <1> QED
    BY <1>3, <1>4, <1>5, <1>6, <1>7, <1>8

LEMMA RowsKept ==
    ASSUME PageRowsSound, UNCHANGED <<monitors, pagesPage>>
    PROVE  PageRowsSound' /\ Publication!CustomDomains' = Publication!CustomDomains
  <1>1. PageRowsSound'
    BY DEF PageRowsSound
  <1> QED
    BY <1>1, SameMap

\* A step between two others that leaves the pages alone: of what requests
\* hold, only what it puts down can matter.
LEMMA RequestMoves ==
    ASSUME PagesInv, NEW r \in Editors, NEW x, pagesReq' = [pagesReq EXCEPT ![r] = x],
           UNCHANGED <<monitors, pagesPage, cache, crossed>>, pagesWrites' \in Nat,
           ~Doing(r, "invalidate"),
           x # Nobody =>
              \/ x.kind \in {"invalidate", "entry", "event", "edit"}
              \/ x.kind \in {"create", "update"} /\ x.id \in StatusSites /\ PageSound(x.row)
    PROVE  PagesInv'
  <1>1. PageRowsSound' /\ Publication!CustomDomains' = Publication!CustomDomains
    BY RowsKept DEF PagesInv
  <1>2. /\ DOMAIN pagesReq' = Editors /\ pagesReq'[r] = x
        /\ \A q \in Editors : q # r => pagesReq'[q] = pagesReq[q]
    BY DEF PagesInv
  <1>3. \A q \in Editors : PageRequestSound(q)'
    <2> SUFFICES ASSUME NEW q \in Editors PROVE PageRequestSound(q)'
      OBVIOUS
    <2>1. CASE q = r
      BY <1>2, <2>1 DEF PageRequestSound, Doing
    <2>2. CASE q # r
      BY <1>1, <1>2, <2>2 DEF PagesInv, PageRequestSound, Doing
    <2> QED
      BY <2>1, <2>2
  <1>4. Publication!DomainsFollowWrites'
    <2> SUFFICES ASSUME cache'.fresh, ~crossed',
                        \A q \in Editors : pagesReq'[q] = Nobody \/ pagesReq'[q].kind # "invalidate"
                 PROVE  cache'.map = Publication!CustomDomains'
      BY DEF Publication!DomainsFollowWrites
    <2>1. \A q \in Editors : pagesReq[q] = Nobody \/ pagesReq[q].kind # "invalidate"
      BY <1>2 DEF Doing
    <2> QED
      BY <1>1, <2>1 DEF PagesInv, Publication!DomainsFollowWrites
  <1> QED
    BY <1>1, <1>2, <1>3, <1>4 DEF PagesInv

LEMMA PageReads ==
    ASSUME PagesInv, Publication!PagesAssumption, NEW r \in Editors, NEW p \in StatusSites,
           \/ \E s \in Slugs : Publication!CreateReads(r, p, s)
           \/ Publication!UpdateReads(r, p)
    PROVE  PagesInv'
  <1>1. /\ pagesReq[r] = Nobody /\ pagesWrites < MaxPageWrites /\ pagesWrites' = pagesWrites + 1
        /\ UNCHANGED <<monitors, pagesPage, cache, crossed>>
    BY DEF Publication!CreateReads, Publication!UpdateReads, Publication!Begin, Publication!Write
  <1>2. pagesWrites \in Nat /\ pagesWrites' \in Nat /\ PageRowsSound
    BY <1>1 DEF PagesInv
  <1>3. PICK kind \in {"create", "update"}, x \in Publication!PageRow :
           \E y \in Publication!Folded(x) :
              pagesReq' = [pagesReq EXCEPT ![r] = [kind |-> kind, id |-> p, row |-> y]]
    <2>1. CASE \E s \in Slugs : Publication!CreateReads(r, p, s)
      <3>1. PICK s \in Slugs : Publication!CreateReads(r, p, s)
        BY <2>1
      <3>2. Publication!NewPage(s) \in Publication!PageRow
        <4>1. <<{}, {}>> \in (SUBSET PageMonitors) \X (SUBSET PageMonitors)
          OBVIOUS
        <4> QED
          BY <4>1 DEF Publication!NewPage, Publication!PageRow
      <3> QED
        BY <3>1, <3>2 DEF Publication!CreateReads, Publication!Begin
    <2>2. CASE Publication!UpdateReads(r, p)
      <3>1. pagesPage[p] \in Publication!PageRow
        BY <1>2, <2>2 DEF Publication!UpdateReads, PageRowsSound, PageSound
      <3> QED
        BY <2>2, <3>1 DEF Publication!UpdateReads, Publication!Begin
    <2> QED
      BY <2>1, <2>2
  <1> PICK y \in Publication!Folded(x) :
         pagesReq' = [pagesReq EXCEPT ![r] = [kind |-> kind, id |-> p, row |-> y]]
    BY <1>3
  <1>4. PageSound(y)
    BY <1>1, <1>2, FoldedSound
  <1> DEFINE z == [kind |-> kind, id |-> p, row |-> y]
  <1>5. z.kind = kind /\ z.id = p /\ z.row = y /\ pagesReq' = [pagesReq EXCEPT ![r] = z]
    OBVIOUS
  <1>6. ~Doing(r, "invalidate")
    BY <1>1 DEF Doing
  <1> HIDE DEF z
  <1> QED
    BY <1>1, <1>2, <1>4, <1>5, <1>6, RequestMoves

\* A write that commits is announced by an invalidation to come, and marks
\* every lookup it crosses.
LEMMA RowsWritten ==
    ASSUME PagesInv, PageRowsSound', Publication!PagesAssumption, NEW r \in Editors,
           pagesReq' = [pagesReq EXCEPT ![r] = [kind |-> "invalidate"]],
           crossed' = (crossed \/ Publication!Crosses), UNCHANGED cache, pagesWrites' \in Nat
    PROVE  PagesInv'
  <1> DEFINE x == [kind |-> "invalidate"]
  <1>1. x # Nobody /\ x.kind = "invalidate" /\ pagesReq' = [pagesReq EXCEPT ![r] = x]
    BY DEF Publication!PagesAssumption
  <1> HIDE DEF x
  <1>2. /\ DOMAIN pagesReq' = Editors /\ pagesReq'[r] = x
        /\ \A q \in Editors : q # r => pagesReq'[q] = pagesReq[q]
    BY <1>1 DEF PagesInv
  <1>3. ASSUME NEW q \in Editors PROVE PageRequestSound(q)'
    <2>1. CASE q = r
      BY <1>1, <1>2, <2>1 DEF PageRequestSound, Doing
    <2>2. CASE q # r
      <3>1. pagesReq'[q] = pagesReq[q] /\ PageRequestSound(q)
        BY <1>2, <2>2 DEF PagesInv
      <3>2. Doing(q, "lookup") => crossed'
        BY DEF Publication!Crosses, Doing
      <3> QED
        BY <3>1, <3>2 DEF PageRequestSound, Doing
    <2> QED
      BY <2>1, <2>2
  <1>4. Publication!DomainsFollowWrites'
    BY <1>1, <1>2 DEF Publication!DomainsFollowWrites
  <1> QED
    BY <1>2, <1>3, <1>4 DEF PagesInv

LEMMA PageWritesKeeps ==
    ASSUME PagesInv, Publication!PagesAssumption, NEW r \in Editors, Publication!PageWrites(r)
    PROVE  PagesInv'
  <1> DEFINE q == pagesReq[r]
  <1>1. /\ q # Nobody /\ q.kind \in {"create", "update"}
        /\ pagesReq' = [pagesReq EXCEPT ![r] = [kind |-> "invalidate"]]
        /\ UNCHANGED <<monitors, cache, pagesWrites>>
    BY DEF Publication!PageWrites
  <1>2. q.id \in StatusSites /\ PageSound(q.row) /\ PageRowsSound
    BY <1>1 DEF PagesInv, PageRequestSound, Doing
  <1>3. CASE Publication!Commits(q)
    <2>1. /\ pagesPage' = [pagesPage EXCEPT ![q.id] = q.row]
          /\ crossed' = (crossed \/ Publication!Crosses)
      BY <1>3 DEF Publication!PageWrites
    <2> DEFINE i == q.id  row == q.row
    <2>2. /\ DOMAIN pagesPage' = StatusSites /\ pagesPage'[i] = row
          /\ \A p \in StatusSites : p # i => pagesPage'[p] = pagesPage[p]
      BY <1>2, <2>1 DEF PageRowsSound
    <2>3. /\ row.sections[1] \cup row.sections[2] \subseteq monitors
          /\ \A p \in StatusSites : p # i /\ pagesPage[p] # Nobody =>
                /\ pagesPage[p].slug # row.slug
                /\ pagesPage[p].domain = row.domain => row.domain = Nobody
      BY <1>2, <1>3 DEF Publication!Commits, Publication!Taken, Publication!Live, PageRowsSound
    <2>4. i \in StatusSites /\ PageSound(row) /\ PageRowsSound
      BY <1>2
    <2> HIDE DEF i, row, q
    <2>5. PageRowsSound'
      <3>1. ASSUME NEW p \in StatusSites, pagesPage'[p] # Nobody
            PROVE  /\ PageSound(pagesPage'[p])
                   /\ pagesPage'[p].sections[1] \cup pagesPage'[p].sections[2] \subseteq monitors
        <4>1. CASE p = i
          BY <2>2, <2>3, <2>4, <4>1
        <4>2. CASE p # i
          BY <2>2, <2>4, <3>1, <4>2 DEF PageRowsSound
        <4> QED
          BY <4>1, <4>2
      <3>2. ASSUME NEW p \in StatusSites, NEW o \in StatusSites, p # o,
                   pagesPage'[p] # Nobody, pagesPage'[o] # Nobody
            PROVE  /\ pagesPage'[p].slug # pagesPage'[o].slug
                   /\ pagesPage'[p].domain = pagesPage'[o].domain => pagesPage'[p].domain = Nobody
        <4>1. CASE p = i
          BY <2>2, <2>3, <3>2, <4>1
        <4>2. CASE o = i
          BY <2>2, <2>3, <3>2, <4>2
        <4>3. CASE p # i /\ o # i
          BY <2>2, <2>4, <3>2, <4>3 DEF PageRowsSound
        <4> QED
          BY <4>1, <4>2, <4>3
      <3>3. \A p \in StatusSites : PageSound(p) = PageSound(p)'
        BY DEF PageSound, Publication!PageRow
      <3> QED
        BY <1>1, <2>2, <2>4, <3>1, <3>2 DEF PageRowsSound, PageSound
    <2> QED
      BY <1>1, <2>1, <2>5, RowsWritten DEF PagesInv
  <1>4. CASE ~Publication!Commits(q)
    <2>1. UNCHANGED <<pagesPage, crossed>>
      BY <1>4 DEF Publication!PageWrites
    <2> DEFINE x == [kind |-> "invalidate"]
    <2>2. x.kind = "invalidate" /\ pagesReq' = [pagesReq EXCEPT ![r] = x] /\ ~Doing(r, "invalidate")
      BY <1>1 DEF Doing
    <2> HIDE DEF x
    <2> QED
      BY <1>1, <2>1, <2>2, RequestMoves DEF PagesInv
  <1> QED
    BY <1>3, <1>4

LEMMA DeletePageKeeps ==
    ASSUME PagesInv, Publication!PagesAssumption, NEW r \in Editors, NEW p \in StatusSites,
           Publication!DeletePage(r, p)
    PROVE  PagesInv'
  <1>1. /\ pagesPage' = [pagesPage EXCEPT ![p] = Nobody] /\ pagesWrites' = pagesWrites + 1
        /\ pagesReq' = [pagesReq EXCEPT ![r] = [kind |-> "invalidate"]]
        /\ crossed' = (crossed \/ Publication!Crosses) /\ UNCHANGED <<monitors, cache>>
    BY DEF Publication!DeletePage, Publication!Begin, Publication!Write
  <1>2. PageRowsSound'
    <2>1. /\ DOMAIN pagesPage' = StatusSites /\ pagesPage'[p] = Nobody
          /\ \A q \in StatusSites : q # p => pagesPage'[q] = pagesPage[q]
      BY <1>1 DEF PagesInv, PageRowsSound
    <2>2. \A q \in StatusSites : pagesPage'[q] # Nobody => q # p
      BY <2>1
    <2> QED
      BY <1>1, <2>1, <2>2 DEF PagesInv, PageRowsSound, PageSound
  <1>3. pagesWrites' \in Nat
    BY <1>1 DEF PagesInv
  <1> QED
    BY <1>1, <1>2, <1>3, RowsWritten

LEMMA DeleteMonitorKeeps ==
    ASSUME PagesInv, Publication!PagesAssumption, NEW m \in PageMonitors,
           Publication!DeleteMonitor(m)
    PROVE  PagesInv'
  <1>1. /\ monitors' = monitors \ {m} /\ pagesWrites' = pagesWrites + 1
        /\ UNCHANGED <<cache, pagesReq, crossed>>
    BY DEF Publication!DeleteMonitor, Publication!Write
  <1>2. ASSUME NEW p \in StatusSites, pagesPage[p] # Nobody
        PROVE  /\ pagesPage'[p] # Nobody /\ PageSound(pagesPage'[p])
               /\ pagesPage'[p].slug = pagesPage[p].slug
               /\ pagesPage'[p].domain = pagesPage[p].domain
               /\ pagesPage'[p].published = pagesPage[p].published
               /\ pagesPage'[p].sections[1] \cup pagesPage'[p].sections[2] \subseteq monitors'
    <2> DEFINE x == pagesPage[p]  a == x.sections[1]  b == x.sections[2]
    <2>1. /\ pagesPage'[p] = [x EXCEPT !.sections = <<a \ {m}, b \ {m}>>]
          /\ x \in Publication!PageRow /\ (x.protected => x.password # Nobody)
          /\ a \cap b = {} /\ a \cup b \subseteq monitors /\ monitors \subseteq PageMonitors
      BY <1>2 DEF Publication!DeleteMonitor, PagesInv, PageRowsSound, PageSound
    <2> HIDE DEF a, b, x
    <2> DEFINE c == a \ {m}  d == b \ {m}
    <2>2. c \cap d = {} /\ c \cup d \subseteq monitors' /\ c \in SUBSET PageMonitors
              /\ d \in SUBSET PageMonitors
      BY <1>1, <2>1
    <2> HIDE DEF c, d
    <2> DEFINE s == <<c, d>>
    <2>3. s \in (SUBSET PageMonitors) \X (SUBSET PageMonitors) /\ s[1] = c /\ s[2] = d
      BY <2>2
    <2>4. pagesPage'[p] = [x EXCEPT !.sections = s]
      BY <2>1 DEF c, d
    <2> HIDE DEF s
    <2>5. [x EXCEPT !.sections = s] \in Publication!PageRow
      BY <2>1, <2>3 DEF Publication!PageRow
    <2>6. /\ pagesPage'[p].sections = s /\ pagesPage'[p].slug = x.slug
          /\ pagesPage'[p].domain = x.domain /\ pagesPage'[p].published = x.published
          /\ pagesPage'[p].protected = x.protected /\ pagesPage'[p].password = x.password
      BY <2>1, <2>4 DEF Publication!PageRow
    <2>7. PageSound(pagesPage'[p])
      BY <2>1, <2>2, <2>3, <2>4, <2>5, <2>6 DEF PageSound
    <2>8. pagesPage'[p] # Nobody
      BY <2>4, <2>5 DEF Publication!PagesAssumption
    <2> QED
      BY <2>2, <2>3, <2>6, <2>7, <2>8 DEF x
  <1>3. \A p \in StatusSites : (pagesPage'[p] = Nobody) = (pagesPage[p] = Nobody)
    BY <1>2 DEF Publication!DeleteMonitor
  <1>4. DOMAIN pagesPage' = StatusSites
    BY DEF Publication!DeleteMonitor
  <1>5. PageRowsSound'
    <2>1. monitors' \subseteq PageMonitors
      BY <1>1 DEF PagesInv, PageRowsSound
    <2>2. \A p \in StatusSites : pagesPage'[p] # Nobody => PageSound(pagesPage[p])'
      BY <1>2, <1>3 DEF PageSound, Publication!PageRow
    <2>3. \A p, q \in StatusSites : pagesPage'[p] # Nobody /\ pagesPage'[q] # Nobody /\ p # q =>
             /\ pagesPage'[p].slug # pagesPage'[q].slug
             /\ pagesPage'[p].domain = pagesPage'[q].domain => pagesPage'[p].domain = Nobody
      BY <1>2, <1>3 DEF PagesInv, PageRowsSound
    <2> QED
      BY <1>2, <1>3, <1>4, <2>1, <2>2, <2>3 DEF PageRowsSound
  <1>6. Publication!CustomDomains' = Publication!CustomDomains
    BY <1>2, <1>3, <1>5, SameMap DEF PagesInv
  <1> QED
    BY <1>1, <1>5, <1>6 DEF PagesInv, PageRequestSound, Doing, Publication!DomainsFollowWrites

\* A lookup and the cache it fills.
LEMMA CacheSteps ==
    ASSUME PagesInv, Publication!PagesAssumption, NEW r \in Editors,
           \/ Publication!Invalidate(r) \/ Publication!LookupLoads(r)
           \/ Publication!LookupStores(r)
    PROVE  PagesInv'
  <1>1. /\ UNCHANGED <<monitors, pagesPage, pagesWrites, crossed>>
        /\ PageRowsSound' /\ Publication!CustomDomains' = Publication!CustomDomains
    <2>1. UNCHANGED <<monitors, pagesPage, pagesWrites, crossed>>
      BY DEF Publication!Invalidate, Publication!LookupLoads, Publication!LookupStores
    <2> QED
      BY <2>1, RowsKept DEF PagesInv
  <1>2. CASE Publication!Invalidate(r)
    <2>1. cache' = [cache EXCEPT !.fresh = FALSE]
      BY <1>2 DEF Publication!Invalidate
    <2>2. ~cache'.fresh /\ DOMAIN cache' = {"map", "fresh"}
      BY <2>1 DEF PagesInv
    <2>3. /\ DOMAIN pagesReq' = Editors
          /\ \A q \in Editors : pagesReq'[q] = Nobody \/ pagesReq'[q] = pagesReq[q]
      BY <1>2 DEF PagesInv, Publication!Invalidate, Publication!End
    <2>4. \A q \in Editors : PageRequestSound(q)'
      BY <1>1, <2>3 DEF PagesInv, PageRequestSound, Doing
    <2> QED
      BY <1>1, <2>2, <2>3, <2>4 DEF PagesInv, Publication!DomainsFollowWrites
  <1>3. CASE Publication!LookupLoads(r)
    <2> DEFINE x == [kind |-> "lookup", map |-> Publication!CustomDomains]
    <2>1. /\ x.kind = "lookup" /\ x.map = Publication!CustomDomains /\ ~cache.fresh /\ UNCHANGED cache
          /\ pagesReq' = [pagesReq EXCEPT ![r] = x]
      BY <1>3 DEF Publication!LookupLoads, Publication!Begin
    <2> HIDE DEF x
    <2>2. /\ DOMAIN pagesReq' = Editors /\ pagesReq'[r] = x
          /\ \A q \in Editors : q # r => pagesReq'[q] = pagesReq[q]
      BY <2>1 DEF PagesInv
    <2>3. ASSUME NEW q \in Editors PROVE PageRequestSound(q)'
      <3>1. CASE q = r
        BY <1>1, <2>1, <2>2, <3>1 DEF PageRequestSound, Doing
      <3>2. CASE q # r
        BY <1>1, <2>2, <3>2 DEF PagesInv, PageRequestSound, Doing
      <3> QED
        BY <3>1, <3>2
    <2> QED
      BY <1>1, <2>1, <2>2, <2>3 DEF PagesInv, Publication!DomainsFollowWrites
  <1>4. CASE Publication!LookupStores(r)
    <2>1. /\ Doing(r, "lookup") /\ cache' = [map |-> pagesReq[r].map, fresh |-> TRUE]
          /\ pagesReq' = [pagesReq EXCEPT ![r] = Nobody]
      BY <1>4 DEF Publication!LookupStores, Publication!End, Doing
    <2>2. DOMAIN cache' = {"map", "fresh"} /\ cache'.map = pagesReq[r].map
      BY <2>1
    <2>3. ~crossed => pagesReq[r].map = Publication!CustomDomains
      BY <2>1 DEF PagesInv, PageRequestSound
    <2>4. /\ DOMAIN pagesReq' = Editors
          /\ \A q \in Editors : pagesReq'[q] = Nobody \/ pagesReq'[q] = pagesReq[q]
      BY <2>1 DEF PagesInv
    <2>5. \A q \in Editors : PageRequestSound(q)'
      BY <1>1, <2>4 DEF PagesInv, PageRequestSound, Doing
    <2> QED
      BY <1>1, <2>2, <2>3, <2>4, <2>5 DEF PagesInv, Publication!DomainsFollowWrites
  <1> QED
    BY <1>2, <1>3, <1>4

-----------------------------------------------------------------------------
(* Requests on incidents leave the pages alone. *)

LEMMA NothingMoves ==
    ASSUME PagesInv, UNCHANGED <<monitors, pagesPage, pagesReq, crossed>>, pagesWrites' \in Nat,
           cache' = cache \/ cache' = [cache EXCEPT !.fresh = FALSE]
    PROVE  PagesInv'
  <1>1. PageRowsSound' /\ Publication!CustomDomains' = Publication!CustomDomains
    BY RowsKept DEF PagesInv
  <1>2. DOMAIN cache' = {"map", "fresh"} /\ (cache'.fresh => cache.fresh /\ cache'.map = cache.map)
    BY DEF PagesInv
  <1> QED
    BY <1>1, <1>2 DEF PagesInv, PageRequestSound, Doing, Publication!DomainsFollowWrites

\* A request on an incident is put down, moves on or ends.
LEMMA IncidentMoves ==
    ASSUME PagesInv, NEW r \in Editors, ~Doing(r, "invalidate"),
           UNCHANGED <<monitors, pagesPage, cache, crossed>>,
           pagesWrites' = pagesWrites \/ pagesWrites' = pagesWrites + 1,
           \/ UNCHANGED pagesReq
           \/ pagesReq' = [pagesReq EXCEPT ![r] = Nobody]
           \/ \E x : pagesReq' = [pagesReq EXCEPT ![r] = x] /\ x.kind \in {"entry", "event", "edit"}
    PROVE  PagesInv'
  <1>1. pagesWrites' \in Nat
    BY DEF PagesInv
  <1>2. CASE UNCHANGED pagesReq
    BY <1>1, <1>2, NothingMoves
  <1>3. CASE pagesReq' = [pagesReq EXCEPT ![r] = Nobody]
    BY <1>1, <1>3, RequestMoves
  <1>4. CASE \E x : pagesReq' = [pagesReq EXCEPT ![r] = x] /\ x.kind \in {"entry", "event", "edit"}
    <2>1. PICK x : pagesReq' = [pagesReq EXCEPT ![r] = x] /\ x.kind \in {"entry", "event", "edit"}
      BY <1>4
    <2> QED
      BY <1>1, <2>1, RequestMoves
  <1> QED
    BY <1>2, <1>3, <1>4

LEMMA TimelineSteps ==
    ASSUME PagesInv, NEW r \in Editors,
           \/ Publication!AddIncidentUpdate(r) \/ Publication!RaiseEvent(r)
           \/ Publication!UpdateIncident(r)
    PROVE  PagesInv'
  <1>1. CASE Publication!AddIncidentUpdate(r)
    <2>1. /\ ~Doing(r, "invalidate")
          /\ UNCHANGED <<monitors, pagesPage, cache, crossed, pagesWrites>>
      BY <1>1 DEF Publication!AddIncidentUpdate, Doing
    <2>2. CASE inc[pagesReq[r].id] = Nobody
      <3>1. pagesReq' = [pagesReq EXCEPT ![r] = Nobody]
        BY <1>1, <2>2 DEF Publication!AddIncidentUpdate, Publication!End
      <3> QED
        BY <2>1, <3>1, IncidentMoves
    <2>3. CASE inc[pagesReq[r].id] # Nobody
      <3> DEFINE x == [kind |-> "event", id |-> pagesReq[r].id, event |-> pagesReq[r].event]
      <3>1. x.kind = "event" /\ pagesReq' = [pagesReq EXCEPT ![r] = x]
        BY <1>1, <2>3 DEF Publication!AddIncidentUpdate
      <3> HIDE DEF x
      <3> QED
        BY <2>1, <3>1, IncidentMoves
    <2> QED
      BY <2>2, <2>3
  <1>2. CASE Publication!RaiseEvent(r)
    <2>1. /\ ~Doing(r, "invalidate") /\ pagesReq' = [pagesReq EXCEPT ![r] = Nobody]
          /\ UNCHANGED <<monitors, pagesPage, cache, crossed, pagesWrites>>
      BY <1>2 DEF Publication!RaiseEvent, Publication!End, Doing
    <2> QED
      BY <2>1, IncidentMoves
  <1>3. CASE Publication!UpdateIncident(r)
    <2>1. /\ ~Doing(r, "invalidate") /\ pagesReq' = [pagesReq EXCEPT ![r] = Nobody]
          /\ UNCHANGED <<monitors, pagesPage, cache, crossed, pagesWrites>>
      BY <1>3 DEF Publication!UpdateIncident, Publication!End, Doing
    <2> QED
      BY <2>1, IncidentMoves
  <1> QED
    BY <1>1, <1>2, <1>3

LEMMA IncidentSteps ==
    ASSUME PagesInv, NEW r \in Editors, NEW i \in Incidents,
           \/ \E s \in IncidentStates \cup {Nobody} : Publication!PostEntry(r, i, s)
           \/ \E ps \in SUBSET StatusSites, ms \in SUBSET PageMonitors :
                \/ Publication!EditIncident(r, i, ps, ms)
                \/ \E s \in IncidentStates, note \in BOOLEAN :
                      Publication!CreateIncident(r, i, s, ps, ms, note)
    PROVE  PagesInv'
  <1>1. ASSUME NEW s \in IncidentStates \cup {Nobody}, Publication!PostEntry(r, i, s)
        PROVE  PagesInv'
    <2> DEFINE x == [kind |-> "entry", id |-> i, state |-> s, event |-> "updated"]
    <2>1. /\ x.kind = "entry" /\ pagesReq' = [pagesReq EXCEPT ![r] = x] /\ ~Doing(r, "invalidate")
          /\ UNCHANGED <<monitors, pagesPage, cache, crossed>> /\ pagesWrites' = pagesWrites + 1
      BY <1>1 DEF Publication!PostEntry, Publication!Begin, Publication!Write, Doing
    <2> HIDE DEF x
    <2> QED
      BY <2>1, IncidentMoves
  <1>2. ASSUME NEW ps \in SUBSET StatusSites, NEW ms \in SUBSET PageMonitors,
               Publication!EditIncident(r, i, ps, ms)
        PROVE  PagesInv'
    <2> DEFINE x == [kind |-> "edit", id |-> i,
                     row |-> [inc[i] EXCEPT !.pages = ps, !.monitors = ms]]
    <2>1. /\ x.kind = "edit" /\ pagesReq' = [pagesReq EXCEPT ![r] = x] /\ ~Doing(r, "invalidate")
          /\ UNCHANGED <<monitors, pagesPage, cache, crossed>> /\ pagesWrites' = pagesWrites + 1
      BY <1>2 DEF Publication!EditIncident, Publication!Begin, Publication!Write, Doing
    <2> HIDE DEF x
    <2> QED
      BY <2>1, IncidentMoves
  <1>3. ASSUME NEW ps \in SUBSET StatusSites, NEW ms \in SUBSET PageMonitors,
               NEW s \in IncidentStates, NEW note \in BOOLEAN,
               Publication!CreateIncident(r, i, s, ps, ms, note)
        PROVE  PagesInv'
    <2>1. UNCHANGED <<monitors, pagesPage, cache, crossed>> /\ pagesWrites' = pagesWrites + 1
      BY <1>3 DEF Publication!CreateIncident, Publication!Write
    <2>2. CASE ~note
      <3>1. UNCHANGED pagesReq /\ pagesWrites' \in Nat
        BY <1>3, <2>1, <2>2 DEF Publication!CreateIncident, PagesInv
      <3> QED
        BY <2>1, <3>1, NothingMoves
    <2>3. CASE note
      <3> DEFINE x == [kind |-> "entry", id |-> i, state |-> s, event |-> "opened"]
      <3>1. x.kind = "entry" /\ pagesReq' = [pagesReq EXCEPT ![r] = x] /\ ~Doing(r, "invalidate")
        BY <1>3, <2>3 DEF Publication!CreateIncident, Publication!Begin, Doing
      <3> HIDE DEF x
      <3> QED
        BY <2>1, <3>1, IncidentMoves
    <2> QED
      BY <2>2, <2>3
  <1> QED
    BY <1>1, <1>2, <1>3

LEMMA PagesHold ==
    ASSUME Publication!PagesAssumption PROVE Publication!Spec => []PagesInv
  <1>1. Publication!Init => PagesInv
    <2> SUFFICES ASSUME Publication!Init PROVE PagesInv
      OBVIOUS
    <2>1. \A p \in StatusSites : pagesPage[p] = Nobody
      BY DEF Publication!Init
    <2>2. PageRowsSound
      BY <2>1 DEF Publication!Init, PageRowsSound
    <2>3. \A r \in Editors : pagesReq[r] = Nobody
      BY DEF Publication!Init
    <2>4. DOMAIN cache = {"map", "fresh"} /\ ~cache.fresh
      BY DEF Publication!Init
    <2> QED
      BY <2>2, <2>3, <2>4 DEF Publication!Init, PagesInv, PageRequestSound, Doing,
                              Publication!DomainsFollowWrites
  <1>2. PagesInv /\ [Publication!Next]_Publication!vars => PagesInv'
    <2> SUFFICES ASSUME PagesInv, [Publication!Next]_Publication!vars PROVE PagesInv'
      OBVIOUS
    <2>1. ASSUME NEW r \in Editors, NEW p \in StatusSites, Publication!UpdateReads(r, p)
          PROVE  PagesInv'
      BY <2>1, PageReads
    <2>2. ASSUME NEW r \in Editors, NEW p \in StatusSites, Publication!DeletePage(r, p)
          PROVE  PagesInv'
      BY <2>2, DeletePageKeeps
    <2>3. ASSUME NEW r \in Editors, NEW p \in StatusSites, NEW s \in Slugs,
                 Publication!CreateReads(r, p, s)
          PROVE  PagesInv'
      BY <2>3, PageReads
    <2>4. ASSUME NEW r \in Editors, Publication!PageWrites(r) PROVE PagesInv'
      BY <2>4, PageWritesKeeps
    <2>5. ASSUME NEW r \in Editors,
                 \/ Publication!Invalidate(r) \/ Publication!LookupLoads(r)
                 \/ Publication!LookupStores(r)
          PROVE  PagesInv'
      BY <2>5, CacheSteps
    <2>6. ASSUME NEW r \in Editors,
                 \/ Publication!AddIncidentUpdate(r) \/ Publication!RaiseEvent(r)
                 \/ Publication!UpdateIncident(r)
          PROVE  PagesInv'
      BY <2>6, TimelineSteps
    <2>7. ASSUME NEW m \in PageMonitors, Publication!DeleteMonitor(m) PROVE PagesInv'
      BY <2>7, DeleteMonitorKeeps
    <2>8. CASE Publication!CacheExpires
      <3>1. /\ UNCHANGED <<monitors, pagesPage, pagesReq, crossed, pagesWrites>>
            /\ cache' = [cache EXCEPT !.fresh = FALSE] /\ pagesWrites \in Nat
        BY <2>8 DEF Publication!CacheExpires, PagesInv
      <3> QED
        BY <3>1, NothingMoves
    <2>9. ASSUME NEW r \in Editors, NEW i \in Incidents, NEW s \in IncidentStates \cup {Nobody},
                 Publication!PostEntry(r, i, s)
          PROVE  PagesInv'
      BY <2>9, IncidentSteps
    <2>10. ASSUME NEW r \in Editors, NEW i \in Incidents, NEW ps \in SUBSET StatusSites,
                  NEW ms \in SUBSET PageMonitors,
                  \/ Publication!EditIncident(r, i, ps, ms)
                  \/ \E s \in IncidentStates, note \in BOOLEAN :
                        Publication!CreateIncident(r, i, s, ps, ms, note)
           PROVE  PagesInv'
      BY <2>10, IncidentSteps
    <2>11. ASSUME NEW i \in Incidents, Publication!DeleteIncident(i) PROVE PagesInv'
      <3>1. UNCHANGED <<monitors, pagesPage, cache, pagesReq, crossed>> /\ pagesWrites' \in Nat
        BY <2>11 DEF Publication!DeleteIncident, Publication!Write, PagesInv
      <3> QED
        BY <3>1, NothingMoves
    <2>12. CASE UNCHANGED Publication!vars
      <3>1. /\ UNCHANGED <<monitors, pagesPage, cache, pagesReq, pagesWrites, crossed>>
            /\ pagesWrites \in Nat
        BY <2>12 DEF Publication!vars, PagesInv
      <3> QED
        BY <3>1, NothingMoves
    <2> QED
      BY <2>1, <2>2, <2>3, <2>4, <2>5, <2>6, <2>7, <2>8, <2>9, <2>10, <2>11, <2>12
      DEF Publication!Next
  <1> QED
    BY <1>1, <1>2, PTL DEF Publication!Spec

\* A page write takes effect on its hostname at once (invalidate in
\* api/domains.go, deferred after every write of api/statuspages.go): a trusted
\* cache with no invalidation to come has the map of now, unless a lookup
\* stored what it had loaded before a write.
THEOREM DomainsFollow ==
    ASSUME Publication!PagesAssumption PROVE Publication!Spec => []DomainsFollowWrites
  <1>1. PagesInv => DomainsFollowWrites
    BY DEF PagesInv, DomainsFollowWrites
  <1> QED
    BY <1>1, PagesHold, PTL

\* However creates, whole-row edits and deletions cross, a slug and a hostname
\* serve one page, a protected page has a password, a monitor is in one section
\* and no section lists one that is gone (CreateStatusPage, UpdateStatusPage and
\* slugOrDomainTaken of store/sqlite).
THEOREM PagesStaySound ==
    ASSUME Publication!PagesAssumption PROVE Publication!Spec => []Publication!PagesSound
  <1>1. PagesInv => Publication!PagesSound
    <2> SUFFICES ASSUME PagesInv PROVE Publication!PagesSound
      OBVIOUS
    <2>1. Publication!Live(pagesPage) = {p \in StatusSites : pagesPage[p] # Nobody}
      BY DEF PagesInv, PageRowsSound, Publication!Live
    <2> QED
      BY <2>1 DEF PagesInv, PageRowsSound, PageSound, Publication!PagesSound, Publication!Taken
  <1> QED
    BY <1>1, PagesHold, PTL
=============================================================================
