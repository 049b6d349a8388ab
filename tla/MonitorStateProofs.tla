------------------------- MODULE MonitorStateProofs -------------------------
(***************************************************************************)
(* Proofs about MonitorState, for any set of monitors, any number of       *)
(* overlapping ingests, and any number of checks, redeliveries, failures,  *)
(* pauses and windows: what is true of the rows, the types of the whole    *)
(* component, and, where no result is delivered twice, that nobody is left *)
(* untold of a monitor that is down for a reason other than the two the    *)
(* code names.                                                             *)
(***************************************************************************)
EXTENDS MonitorState, TLAPS, WellFoundedInduction

\* What the proofs need of the type of a row: the counts are numbers.  A row an
\* ingest has not read is the record Unread, and has the same shape.
Record == [status : Statuses \cup {"unread"}, failures : Nat, by : Reasons]

RowsTyped ==
    /\ row \in [Monitors -> Record]
    /\ seen \in [Writers -> [Monitors -> Record]]

\* The two columns agree.
Agrees(r) == r.status = "maintenance" <=> r.by = "maintenance"

\* The verdict agrees with the count.
Counted(m, r) ==
    /\ r.status = "down" => r.failures > Retries[m]
    /\ r.status = "up" => r.failures = 0

\* A record of monitor m that every writer may store or hold.
Sound(m, r) == Agrees(r) /\ Counted(m, r)

\* The inductive invariant: every row, stored or held by an ingest, is sound.
RowsSound ==
    /\ \A m \in Monitors : Sound(m, row[m])
    /\ \A w \in Writers, m \in Monitors : Sound(m, seen[w][m])

RowInv == RowsTyped /\ RowsSound

-----------------------------------------------------------------------------
(* The operators *)

\* Verdict says down only past the retries, and never says up or maintenance.
LEMMA VerdictSound ==
    ASSUME NEW m \in Monitors, NEW f \in Nat
    PROVE  /\ Verdict(m, f) \in {"down", "pending"}
           /\ Verdict(m, f) = "down" => f > Retries[m]
  BY DEF Verdict

\* apply turns a sound record into a sound record, if the reason it is given
\* agrees with the record about maintenance, as suppression's answer does.
LEMMA AppliedSound ==
    ASSUME NEW m \in Monitors, NEW s \in Record, Sound(m, s), NEW o,
           NEW by \in Reasons, by = "maintenance" <=> s.by = "maintenance"
    PROVE  Applied(m, s, o, by) \in Record /\ Sound(m, Applied(m, s, o, by))
  <1>1. /\ s.status \in Statuses \cup {"unread"} /\ s.failures \in Nat
        /\ s.by \in Reasons
        /\ s = [status |-> s.status, failures |-> s.failures, by |-> s.by]
    BY DEF Record
  <1>2. CASE by = "maintenance"
    <2>1. Applied(m, s, o, by)
            = [status |-> "maintenance", failures |-> s.failures, by |-> s.by]
      BY <1>1, <1>2 DEF Applied
    <2> QED
      BY <1>1, <1>2, <2>1 DEF Record, Statuses, Sound, Agrees, Counted
  <1>3. CASE by # "maintenance" /\ o = "up"
    <2>1. Applied(m, s, o, by) = [status |-> "up", failures |-> 0, by |-> by]
      BY <1>3 DEF Applied
    <2> QED
      BY <1>3, <2>1 DEF Record, Statuses, Sound, Agrees, Counted
  <1>4. CASE by # "maintenance" /\ o = "down"
    <2> DEFINE f == s.failures + 1
    <2>1. f \in Nat
      BY <1>1
    <2>2. Applied(m, s, o, by)
            = [status |-> Verdict(m, f), failures |-> f, by |-> by]
      BY <1>4 DEF Applied
    <2>3. Verdict(m, f) \in {"down", "pending"} /\ (Verdict(m, f) = "down" => f > Retries[m])
      BY <2>1, VerdictSound
    <2> HIDE DEF f
    <2> QED
      BY <1>4, <2>1, <2>2, <2>3 DEF Record, Statuses, Sound, Agrees, Counted
  <1>5. CASE by # "maintenance" /\ o # "up" /\ o # "down"
    <2>1. Applied(m, s, o, by)
            = [status |-> s.status, failures |-> s.failures, by |-> by]
      BY <1>1, <1>5 DEF Applied
    <2> QED
      BY <1>1, <1>5, <2>1 DEF Record, Sound, Agrees, Counted
  <1> QED
    BY <1>2, <1>3, <1>4, <1>5

\* SaveState keeps a sound row sound, whichever of the two is newer.
LEMMA SavedSound ==
    ASSUME NEW m \in Monitors, NEW r \in Record, NEW s \in Record,
           Sound(m, r), Sound(m, s)
    PROVE  Saved(r, s) \in Record /\ Sound(m, Saved(r, s))
  <1>1. CASE r.by = "maintenance"
    <2>1. /\ r = [status |-> r.status, failures |-> r.failures, by |-> r.by]
          /\ r.status \in Statuses \cup {"unread"} /\ s.failures \in Nat
          /\ r.by \in Reasons
      BY DEF Record
    <2>2. Saved(r, s)
            = [status |-> r.status, failures |-> s.failures, by |-> r.by]
      BY <1>1, <2>1 DEF Saved
    <2>3. r.status = "maintenance"
      BY <1>1 DEF Sound, Agrees
    <2> QED
      BY <1>1, <2>1, <2>2, <2>3 DEF Record, Sound, Agrees, Counted
  <1>2. CASE r.by # "maintenance"
    BY <1>2 DEF Saved
  <1> QED
    BY <1>1, <1>2

\* suppression answers maintenance exactly when the record says maintenance.
LEMMA SuppressionAgrees ==
    ASSUME NEW w, NEW m
    PROVE  /\ SuppressedBy(w, m) \in Reasons
           /\ SuppressedBy(w, m) = "maintenance" <=> seen[w][m].by = "maintenance"
  BY DEF SuppressedBy, Reasons

\* A record nobody has read is sound.
LEMMA UnreadSound ==
    ASSUME NEW m
    PROVE  Unread \in Record /\ Sound(m, Unread)
  BY DEF Unread, Record, Reasons, Sound, Agrees, Counted

-----------------------------------------------------------------------------
(* The actions *)

\* A row freshly created is pending, with no failures and no reason.
LEMMA RowInvInit == Init => RowInv
  <1> SUFFICES ASSUME Init PROVE RowInv
    OBVIOUS
  <1> DEFINE r == [status |-> "pending", failures |-> 0, by |-> "none"]
  <1>1. r \in Record /\ \A m : Sound(m, r)
    BY DEF Record, Statuses, Reasons, Sound, Agrees, Counted
  <1>2. row = [m \in Monitors |-> r]
    BY DEF Init
  <1>3. seen = [w \in Writers |-> [m \in Monitors |-> Unread]]
    BY DEF Init
  <1> HIDE DEF r
  <1>4. RowsTyped
    BY <1>1, <1>2, <1>3, UnreadSound DEF RowsTyped
  <1>5. RowsSound
    BY <1>1, <1>2, <1>3, UnreadSound DEF RowsSound
  <1> QED
    BY <1>4, <1>5 DEF RowInv

\* GetState copies a stored row.
LEMMA ReadKeeps ==
    ASSUME RowInv, NEW w \in Writers, IngestRead(w)
    PROVE  RowInv'
  <1> DEFINE k == checks[Current(w)].monitor
  <1>1. row' = row /\ (seen' = seen \/ seen' = [seen EXCEPT ![w][k] = row[k]])
    BY DEF IngestRead, storeVars
  <1>2. CASE seen' = seen
    BY <1>1, <1>2 DEF RowInv, RowsTyped, RowsSound
  <1>3. CASE seen' = [seen EXCEPT ![w][k] = row[k]]
    <2>1. \A v \in Writers, m \in Monitors :
             seen'[v][m] = IF v = w /\ m = k THEN row[k] ELSE seen[v][m]
      BY <1>3 DEF RowInv, RowsTyped
    <2>2. RowsTyped'
      BY <1>1, <1>3, <2>1 DEF RowInv, RowsTyped
    <2>3. RowsSound'
      BY <1>1, <2>1 DEF RowInv, RowsSound
    <2> QED
      BY <2>2, <2>3 DEF RowInv
  <1> QED
    BY <1>1, <1>2, <1>3

\* apply works on the record the ingest holds.
LEMMA ApplyKeeps ==
    ASSUME RowInv, NEW w \in Writers, IngestApply(w)
    PROVE  RowInv'
  <1> DEFINE k  == checks[Current(w)].monitor
             o  == checks[Current(w)].outcome
             by == SuppressedBy(w, k)
             n  == Applied(k, seen[w][k], o, by)
  <1>1. row' = row /\ seen' = [seen EXCEPT ![w][k] = n]
    BY DEF IngestApply, storeVars
  <1>2. ASSUME k \in Monitors PROVE n \in Record /\ Sound(k, n)
    <2>1. seen[w][k] \in Record /\ Sound(k, seen[w][k])
      BY <1>2 DEF RowInv, RowsTyped, RowsSound
    <2>2. by \in Reasons /\ (by = "maintenance" <=> seen[w][k].by = "maintenance")
      BY SuppressionAgrees
    <2> QED
      BY <1>2, <2>1, <2>2, AppliedSound
  <1> HIDE DEF n, k
  <1>3. \A v \in Writers, m \in Monitors :
           seen'[v][m] = IF v = w /\ m = k THEN n ELSE seen[v][m]
    BY <1>1 DEF RowInv, RowsTyped
  <1>4. RowsTyped'
    BY <1>1, <1>2, <1>3 DEF RowInv, RowsTyped
  <1>5. RowsSound'
    BY <1>1, <1>2, <1>3 DEF RowInv, RowsSound
  <1> QED
    BY <1>4, <1>5 DEF RowInv

\* SaveState writes a sound record over a sound row.
LEMMA SaveKeeps ==
    ASSUME RowInv, NEW w \in Writers, IngestSave(w)
    PROVE  RowInv'
  <1>1. seen' = seen
    BY DEF IngestSave
  <1>2. PICK k \in unsaved[w] : row' = [row EXCEPT ![k] = Saved(row[k], seen[w][k])]
    BY DEF IngestSave
  <1>3. ASSUME k \in Monitors
        PROVE  /\ Saved(row[k], seen[w][k]) \in Record
               /\ Sound(k, Saved(row[k], seen[w][k]))
    BY <1>3, SavedSound DEF RowInv, RowsTyped, RowsSound
  <1>4. \A m \in Monitors :
           row'[m] = IF m = k THEN Saved(row[k], seen[w][k]) ELSE row[m]
    BY <1>2 DEF RowInv, RowsTyped
  <1>5. RowsTyped'
    BY <1>1, <1>2, <1>3, <1>4 DEF RowInv, RowsTyped
  <1>6. RowsSound'
    BY <1>1, <1>3, <1>4 DEF RowInv, RowsSound
  <1> QED
    BY <1>5, <1>6 DEF RowInv

\* An ingest that ends forgets its records.
LEMMA FinishKeeps ==
    ASSUME RowInv, NEW w \in Writers, Finish(w), row' = row
    PROVE  RowInv'
  <1>1. seen' = [seen EXCEPT ![w] = [m \in Monitors |-> Unread]]
    BY DEF Finish
  <1>2. \A v \in Writers, m \in Monitors :
           seen'[v][m] = IF v = w THEN Unread ELSE seen[v][m]
    BY <1>1 DEF RowInv, RowsTyped
  <1>3. RowsTyped'
    BY <1>1, UnreadSound DEF RowInv, RowsTyped
  <1>4. RowsSound'
    BY <1>2, UnreadSound DEF RowInv, RowsSound
  <1> QED
    BY <1>3, <1>4 DEF RowInv

\* Pausing and resuming write both columns of a row, and a count of zero.
LEMMA EnabledKeeps ==
    ASSUME RowInv, NEW k \in Monitors, NEW e \in BOOLEAN, SetMonitorEnabled(k, e)
    PROVE  RowInv'
  <1> DEFINE st == IF row[k].by = "maintenance" THEN "maintenance"
                   ELSE IF e THEN "pending" ELSE "paused"
             r  == [status |-> st, failures |-> 0, by |-> row[k].by]
  <1>1. row' = [row EXCEPT ![k] = r] /\ seen' = seen
    BY DEF SetMonitorEnabled, ingestVars
  <1>2. row[k].by \in Reasons
    BY DEF RowInv, RowsTyped, Record
  <1>3. /\ st \in {"maintenance", "pending", "paused"}
        /\ st = "maintenance" <=> row[k].by = "maintenance"
    OBVIOUS
  <1> HIDE DEF st
  <1>4. r \in Record /\ Sound(k, r)
    BY <1>2, <1>3 DEF Record, Statuses, Sound, Agrees, Counted
  <1> HIDE DEF r
  <1>5. \A m \in Monitors : row'[m] = IF m = k THEN r ELSE row[m]
    BY <1>1 DEF RowInv, RowsTyped
  <1>6. RowsTyped'
    BY <1>1, <1>4 DEF RowInv, RowsTyped
  <1>7. RowsSound'
    BY <1>1, <1>4, <1>5 DEF RowInv, RowsSound
  <1> QED
    BY <1>6, <1>7 DEF RowInv

\* ApplyMaintenance writes status and reason together.
LEMMA SweepKeeps ==
    ASSUME RowInv, SweepApply
    PROVE  RowInv'
  <1>1. seen' = seen
    BY DEF SweepApply, ingestVars
  <1>2. row' = [m \in Monitors |->
           IF Enters(m) THEN [row[m] EXCEPT !.status = "maintenance", !.by = "maintenance"]
           ELSE IF Leaves(m) THEN [row[m] EXCEPT !.status = "pending", !.by = "none"]
           ELSE row[m]]
    BY DEF SweepApply
  <1>3. ASSUME NEW m \in Monitors PROVE row'[m] \in Record /\ Sound(m, row'[m])
    <2>1. /\ row[m] = [status |-> row[m].status, failures |-> row[m].failures,
                       by |-> row[m].by]
          /\ row[m] \in Record /\ row[m].failures \in Nat /\ Sound(m, row[m])
      BY DEF RowInv, RowsTyped, RowsSound, Record
    <2>2. \/ row'[m] = [status |-> "maintenance", failures |-> row[m].failures,
                        by |-> "maintenance"]
          \/ row'[m] = [status |-> "pending", failures |-> row[m].failures,
                        by |-> "none"]
          \/ row'[m] = row[m]
      BY <1>2, <2>1
    <2> QED
      BY <2>1, <2>2 DEF Record, Statuses, Reasons, Sound, Agrees, Counted
  <1>4. RowsTyped'
    <2>1. row' \in [Monitors -> Record]
      BY <1>2, <1>3
    <2> QED
      BY <1>1, <2>1 DEF RowInv, RowsTyped
  <1>5. RowsSound'
    BY <1>1, <1>3 DEF RowInv, RowsSound
  <1> QED
    BY <1>4, <1>5 DEF RowInv

\* Every row, stored or held by an ingest, stays sound.
THEOREM RowsStaySound == Spec => []RowInv
  <1>1. RowInv /\ [Next]_vars => RowInv'
    <2> SUFFICES ASSUME RowInv, [Next]_vars PROVE RowInv'
      OBVIOUS
    <2>1. ASSUME UNCHANGED <<row, seen>> PROVE RowInv'
      BY <2>1 DEF RowInv, RowsTyped, RowsSound
    <2>2. ASSUME NEW m \in Monitors, NEW o \in Outcomes, Check(m, o) PROVE RowInv'
      BY <2>1, <2>2 DEF Check, storeVars, ingestVars
    <2>3. ASSUME NEW w \in Writers, NEW m \in Monitors, NEW o \in Outcomes,
                 CheckNow(w, m, o)
          PROVE  RowInv'
      BY <2>1, <2>3 DEF CheckNow, Start, storeVars
    <2>4. ASSUME NEW w \in Writers, Deliver(w) \/ Redeliver(w) PROVE RowInv'
      BY <2>1, <2>4 DEF Deliver, Redeliver, Start, storeVars
    <2>5. ASSUME NEW w \in Writers, Ingest(w) PROVE RowInv'
      <3>1. CASE IngestWrite(w)
        BY <2>1, <3>1 DEF IngestWrite
      <3>2. CASE IngestRaise(w)
        BY <3>2, FinishKeeps DEF IngestRaise
      <3> QED
        BY <2>5, <3>1, <3>2, ReadKeeps, ApplyKeeps, SaveKeeps DEF Ingest
    <2>6. ASSUME NEW w \in Writers, Abandon(w) PROVE RowInv'
      BY <2>6, FinishKeeps DEF Abandon, storeVars
    <2>7. ASSUME NEW m \in Monitors, NEW e \in BOOLEAN, SetMonitorEnabled(m, e)
          PROVE  RowInv'
      BY <2>7, EnabledKeeps
    <2>8. ASSUME NEW m \in Monitors, TurnWindow(m) PROVE RowInv'
      BY <2>1, <2>8 DEF TurnWindow, storeVars, ingestVars
    <2>9. CASE SweepResolve
      BY <2>1, <2>9 DEF SweepResolve, storeVars, ingestVars
    <2>10. CASE UNCHANGED vars
      BY <2>1, <2>10 DEF vars, storeVars, ingestVars
    <2> QED
      BY <2>2, <2>3, <2>4, <2>5, <2>6, <2>7, <2>8, <2>9, <2>10, SweepKeeps
      DEF Next
  <1> QED
    BY <1>1, RowInvInit, PTL DEF Spec

\* Status maintenance and reason maintenance come and go together, whatever the
\* order of ingests, sweeps, pauses and resumes.
THEOREM MaintenanceAlwaysTagged == Spec => []MaintenanceTagged
  <1>1. RowInv => MaintenanceTagged
    BY DEF RowInv, RowsSound, Sound, Agrees, MaintenanceTagged
  <1> QED
    BY <1>1, RowsStaySound, PTL

\* A stored verdict always agrees with the stored count.
THEOREM VerdictAlwaysMatches == Spec => []VerdictMatchesCount
  <1>1. RowInv => VerdictMatchesCount
    BY DEF RowInv, RowsSound, Sound, Counted, VerdictMatchesCount
  <1> QED
    BY <1>1, RowsStaySound, PTL

\* Only ApplyMaintenance, for a monitor no open window covers, takes a row out
\* of maintenance: not a result in flight, and not a pause or a resume.
THEOREM MaintenanceLeftBySweep == Spec => OnlySweepLeavesMaintenance
  <1> DEFINE Left == \A m \in Monitors :
                row[m].status = "maintenance" /\ row'[m].status # "maintenance"
                   => sweep = "apply" /\ m \notin under
  <1>1. RowInv /\ [Next]_vars => [Left]_vars
    <2> SUFFICES ASSUME RowInv, Next, NEW m \in Monitors,
                        row[m].status = "maintenance",
                        row'[m].status # "maintenance"
                 PROVE  sweep = "apply" /\ m \notin under
      OBVIOUS
    <2>1. row \in [Monitors -> Record] /\ row[m].by = "maintenance"
      BY DEF RowInv, RowsTyped, RowsSound, Sound, Agrees
    <2>2. ASSUME NEW w \in Writers, IngestSave(w) PROVE FALSE
      <3>1. PICK k \in unsaved[w] : row' = [row EXCEPT ![k] = Saved(row[k], seen[w][k])]
        BY <2>2 DEF IngestSave
      <3>2. row'[m] = row[m] \/ row'[m] = Saved(row[m], seen[w][m])
        BY <2>1, <3>1
      <3>3. Saved(row[m], seen[w][m]).status = row[m].status
        BY <2>1 DEF Saved, Record
      <3> QED
        BY <3>2, <3>3
    <2>3. ASSUME NEW k \in Monitors, NEW e \in BOOLEAN, SetMonitorEnabled(k, e)
          PROVE  FALSE
      <3>1. row'[m] = row[m] \/ row'[m].status = "maintenance"
        BY <2>1, <2>3 DEF SetMonitorEnabled
      <3> QED
        BY <3>1
    <2>4. CASE SweepApply
      <3>1. /\ sweep = "apply"
            /\ row'[m] = IF Enters(m)
                 THEN [row[m] EXCEPT !.status = "maintenance", !.by = "maintenance"]
                 ELSE IF Leaves(m) THEN [row[m] EXCEPT !.status = "pending", !.by = "none"]
                 ELSE row[m]
        BY <2>4 DEF SweepApply
      <3>2. ~Enters(m)
        BY <2>1 DEF Enters
      <3>3. Leaves(m)
        BY <3>1, <3>2
      <3> QED
        BY <3>1, <3>3 DEF Leaves
    <2>5. row' # row
      OBVIOUS
    <2>6. ASSUME NEW w \in Writers, Ingest(w) PROVE FALSE
      BY <2>2, <2>5, <2>6
      DEF Ingest, IngestRead, IngestApply, IngestWrite, IngestRaise, storeVars
    <2>7. ASSUME NEW w \in Writers, Deliver(w) \/ Redeliver(w) \/ Abandon(w)
          PROVE  FALSE
      BY <2>5, <2>7 DEF Deliver, Redeliver, Start, Abandon, storeVars
    <2>8. ASSUME NEW w \in Writers, NEW k \in Monitors, NEW o \in Outcomes,
                 CheckNow(w, k, o)
          PROVE  FALSE
      BY <2>5, <2>8 DEF CheckNow, Start, storeVars
    <2>9. ASSUME NEW k \in Monitors, TurnWindow(k) \/ SweepResolve PROVE FALSE
      BY <2>5, <2>9 DEF TurnWindow, SweepResolve, storeVars
    <2>10. ASSUME NEW k \in Monitors, NEW o \in Outcomes, Check(k, o) PROVE FALSE
      BY <2>5, <2>10 DEF Check, storeVars
    <2> QED
      BY <2>3, <2>4, <2>6, <2>7, <2>8, <2>9, <2>10 DEF Next
  <1> QED
    BY <1>1, RowsStaySound, PTL DEF Spec, OnlySweepLeavesMaintenance

-----------------------------------------------------------------------------
(* Who was told *)

CheckSet == [monitor : Monitors, outcome : Outcomes]

\* An ingest applies, and saves, only records it has read.
UsesRead ==
    \A w \in Writers :
        /\ pc[w] = "apply" => seen[w][MonitorOf(Current(w))] # Unread
        /\ \A m \in unsaved[w] : seen[w][m] # Unread

\* The types of all variables, as an inductive invariant.
TypeInv == TypeOK /\ UsesRead

TimesOf(S) == {x.time : x \in S}

\* The ingest has not written its heartbeats.
Unwritten(w) == pc[w] \in {"read", "apply", "write"}

\* The results an ingest was handed.
Owned(w) == todo[w] \cup TimesOf(made[w])

\* No two ingests hold one result, and none holds one that has its heartbeat.
AppliedOnce ==
    /\ resends = 0
    /\ TimesOf(beats) \subseteq delivered
    /\ \A w \in Writers :
          /\ Owned(w) \subseteq delivered
          /\ pc[w] = "idle" => made[w] = {}
          /\ Unwritten(w) => Owned(w) \cap TimesOf(beats) = {}
    /\ \A w, v \in Writers : w # v => Owned(w) \cap Owned(v) = {}

\* Monitors of which an ingest holds a heartbeat suppressed by a dependency.
Withholding(w) == {MonitorOf(b.time) : b \in {x \in made[w] : x.by = "dependency"}}

\* Monitors of which somebody was told that they are down, or that need no telling.
Known == Told \cup Telling \cup Withheld \cup forgotten

\* A verdict of down, stored or held by an ingest, is accounted for.
DownsKnown ==
    /\ \A m \in Monitors : row[m].status = "down" => m \in Known
    /\ \A w \in Writers, m \in Monitors :
          seen[w][m].status = "down" =>
             m \in Known \/ (Unwritten(w) /\ m \in Withholding(w))

\* The inductive invariant, beside the types.
ToldInv == AppliedOnce /\ DownsKnown

-----------------------------------------------------------------------------
(* The operators *)

\* The earliest of a set of times is one of them.
LEMMA MinIn ==
    ASSUME NEW S \in SUBSET Nat, S # {}
    PROVE  Min(S) \in S
  <1>1. PICK x \in S : \A y \in S : ~ (<<y, x>> \in OpToRel(<, Nat))
    BY NatLessThanWellFounded, WFMin, Zenon
  <1>2. \A y \in S : ~ (y < x)
    BY <1>1, Zenon DEF OpToRel
  <1>3. \A y \in S : x <= y
    BY <1>2
  <1> QED
    BY <1>3 DEF Min

\* The result an ingest takes next is one of those it has left, and one that ran.
LEMMA CurrentIsDue ==
    ASSUME TypeOK, NEW w \in Writers, pc[w] \in {"read", "apply"}
    PROVE  /\ Current(w) \in todo[w]
           /\ Current(w) \in Times
           /\ Current(w) \in Nat
           /\ checks[Current(w)] \in CheckSet
           /\ MonitorOf(Current(w)) \in Monitors
  <1>1. /\ checks \in Seq(CheckSet)
        /\ todo[w] \in SUBSET Times /\ todo[w] # {}
    BY DEF TypeOK, StoreType, IngestType, CheckSet
  <1>2. Len(checks) \in Nat /\ Times \subseteq Nat
    BY <1>1 DEF Times
  <1>3. todo[w] \in SUBSET Nat
    BY <1>1, <1>2
  <1>4. Current(w) \in todo[w]
    BY <1>1, <1>3, MinIn DEF Current
  <1>5. Current(w) \in Times
    BY <1>1, <1>4
  <1>6. checks[Current(w)] \in CheckSet
    BY <1>1, <1>5 DEF Times
  <1> QED
    BY <1>2, <1>4, <1>5, <1>6 DEF MonitorOf, CheckSet

\* A check that completes leaves those that ran before as they are.
LEMMA ChecksGrow ==
    ASSUME TypeOK, NEW m \in Monitors, NEW o \in Outcomes,
           checks' = Append(checks, [monitor |-> m, outcome |-> o])
    PROVE  /\ checks' \in Seq(CheckSet)
           /\ Len(checks) \in Nat /\ Len(checks') = Len(checks) + 1
           /\ Times \subseteq Times'
           /\ \A t \in Times : checks'[t] = checks[t]
  <1>1. checks \in Seq(CheckSet) /\ [monitor |-> m, outcome |-> o] \in CheckSet
    BY DEF TypeOK, StoreType, CheckSet
  <1>2. /\ checks' \in Seq(CheckSet)
        /\ Len(checks) \in Nat /\ Len(checks') = Len(checks) + 1
        /\ \A t \in Times : checks'[t] = checks[t]
    BY <1>1 DEF Times
  <1>3. Times \subseteq Times'
    BY <1>2 DEF Times
  <1> QED
    BY <1>2, <1>3

\* What is recorded of a check can be recorded of it later.
LEMMA RecordsKeep ==
    /\ Times \subseteq Times' => Beat \subseteq Beat' /\ Alert \subseteq Alert'
    /\ checks' = checks => Times' = Times /\ Beat' = Beat /\ Alert' = Alert
  BY DEF Times, Beat, Alert

\* An alert names a monitor.
LEMMA MonitorsRan ==
    ASSUME TypeOK
    PROVE  /\ \A t \in Times : MonitorOf(t) \in Monitors
           /\ \A a \in Alert : MonitorOf(a.time) \in Monitors
  <1>1. checks \in Seq(CheckSet)
    BY DEF TypeOK, StoreType, CheckSet
  <1>2. \A t \in Times : checks[t] \in CheckSet
    BY <1>1 DEF Times
  <1> QED
    BY <1>2 DEF CheckSet, MonitorOf, Alert

\* A row that was read is no Unread.
LEMMA RowIsRead ==
    ASSUME NEW r \in Row
    PROVE  r # Unread
  BY DEF Row, Statuses, Unread

\* apply turns a row into a row.
LEMMA AppliedIsRow ==
    ASSUME NEW m \in Monitors, NEW s \in Row, NEW o, NEW by \in Reasons
    PROVE  Applied(m, s, o, by) \in Row
  <1>1. /\ s = [status |-> s.status, failures |-> s.failures, by |-> s.by]
        /\ s.status \in Statuses /\ s.failures \in Nat /\ s.by \in Reasons
    BY DEF Row
  <1>2. s.failures + 1 \in Nat
    BY <1>1
  <1>3. Verdict(m, s.failures + 1) \in Statuses
    BY DEF Verdict, Statuses
  <1>4. \/ Applied(m, s, o, by) =
              [status |-> "maintenance", failures |-> s.failures, by |-> s.by]
        \/ Applied(m, s, o, by) = [status |-> "up", failures |-> 0, by |-> by]
        \/ Applied(m, s, o, by) =
              [status |-> Verdict(m, s.failures + 1), failures |-> s.failures + 1, by |-> by]
        \/ Applied(m, s, o, by) =
              [status |-> s.status, failures |-> s.failures, by |-> by]
    BY <1>1 DEF Applied
  <1> QED
    BY <1>1, <1>2, <1>3, <1>4 DEF Row, Statuses

\* SaveState turns rows into a row.
LEMMA SavedIsRow ==
    ASSUME NEW r \in Row, NEW s \in Row
    PROVE  Saved(r, s) \in Row
  BY DEF Saved, Row

\* The alerts of a result are alerts at its time.
LEMMA EventsTyped ==
    ASSUME NEW m, NEW t \in Times, NEW s, NEW n, NEW by
    PROVE  /\ EventsOf(m, t, s, n, by) \subseteq Alert
           /\ \A a \in EventsOf(m, t, s, n, by) : a.time = t
  <1>1. TransitionEvents(s, n) \subseteq {"down", "pending", "up"}
    BY DEF TransitionEvents
  <1>2. ASSUME NEW a \in EventsOf(m, t, s, n, by)
        PROVE  \E e \in {"down", "pending", "up"}, b \in BOOLEAN :
                  a = [time |-> t, event |-> e, resend |-> b]
    BY <1>1, <1>2 DEF EventsOf
  <1> QED
    BY <1>2 DEF Alert

-----------------------------------------------------------------------------
(* The types *)

LEMMA TypeInvInit == Init => TypeInv
  <1> SUFFICES ASSUME Init PROVE TypeInv
    OBVIOUS
  <1> DEFINE r == [status |-> "pending", failures |-> 0, by |-> "none"]
  <1>1. r \in Row
    BY DEF Row, Statuses, Reasons
  <1>2. row = [m \in Monitors |-> r]
    BY DEF Init
  <1> HIDE DEF r
  <1>3. StoreType
    BY <1>1, <1>2 DEF Init, StoreType
  <1>4. SweepType /\ BoundType
    BY DEF Init, SweepType, BoundType
  <1>5. IngestType
    BY DEF Init, IngestType
  <1>6. UsesRead
    BY DEF Init, UsesRead
  <1> QED
    BY <1>3, <1>4, <1>5, <1>6 DEF TypeInv, TypeOK

\* A check completes, and an ingest may start on it.
LEMMA CheckTyped ==
    ASSUME TypeInv, NEW m \in Monitors, NEW o \in Outcomes, Check(m, o)
    PROVE  TypeInv'
  <1>1. /\ checks' \in Seq(CheckSet)
        /\ Times \subseteq Times'
        /\ \A t \in Times : checks'[t] = checks[t]
    BY ChecksGrow DEF TypeInv, Check
  <1>2. UNCHANGED <<storeVars, delivered, manual, resends, sweepVars, ingestVars,
                    abandons, toggles, forgotten>>
    BY DEF Check
  <1>3. TypeOK'
    BY <1>1, <1>2, RecordsKeep
    DEF TypeInv, TypeOK, StoreType, SweepType, IngestType, BoundType, CheckSet,
        storeVars, sweepVars, ingestVars
  <1>4. UsesRead'
    <2>1. ASSUME NEW w \in Writers, pc[w] = "apply"
          PROVE  MonitorOf(Current(w))' = MonitorOf(Current(w))
      BY <1>1, <1>2, <2>1, CurrentIsDue DEF TypeInv, Current, MonitorOf, ingestVars
    <2> QED
      BY <1>2, <2>1 DEF TypeInv, UsesRead, ingestVars
  <1> QED
    BY <1>3, <1>4 DEF TypeInv

\* An ingest starts on results that ran.
LEMMA StartTyped ==
    ASSUME TypeInv, NEW w \in Writers, NEW batch, Start(w, batch), batch # {},
           checks' \in Seq(CheckSet), batch \subseteq Times',
           Times \subseteq Times',
           \A t \in Times : checks'[t] = checks[t],
           manual' \in Nat, resends' \in Nat
    PROVE  TypeInv'
  <1>1. /\ pc[w] = "idle"
        /\ pc' = [pc EXCEPT ![w] = "read"]
        /\ todo' = [todo EXCEPT ![w] = batch]
        /\ delivered' = delivered \cup batch
        /\ UNCHANGED <<storeVars, sweepVars, seen, made, raised, unsaved,
                       abandons, toggles, forgotten>>
    BY DEF Start
  <1>2. StoreType'
    BY <1>1, RecordsKeep DEF TypeInv, TypeOK, StoreType, CheckSet, storeVars
  <1>3. SweepType' /\ BoundType'
    BY <1>1 DEF TypeInv, TypeOK, SweepType, BoundType, sweepVars
  <1>4. IngestType'
    BY <1>1, RecordsKeep DEF TypeInv, TypeOK, IngestType
  <1>5. UsesRead'
    <2>1. ASSUME NEW v \in Writers, pc'[v] = "apply"
          PROVE  pc[v] = "apply" /\ MonitorOf(Current(v))' = MonitorOf(Current(v))
      <3>1. pc[v] = "apply" /\ todo'[v] = todo[v]
        BY <1>1, <2>1 DEF TypeInv, TypeOK, IngestType
      <3> QED
        BY <3>1, CurrentIsDue DEF TypeInv, Current, MonitorOf
    <2> QED
      BY <1>1, <2>1 DEF TypeInv, UsesRead
  <1> QED
    BY <1>2, <1>3, <1>4, <1>5 DEF TypeInv, TypeOK

LEMMA ArrivalsTyped ==
    ASSUME TypeInv, NEW w \in Writers,
           \/ Deliver(w) \/ Redeliver(w)
           \/ \E m \in Monitors, o \in Outcomes : CheckNow(w, m, o)
    PROVE  TypeInv'
  <1>1. /\ checks \in Seq(CheckSet) /\ delivered \subseteq Times
        /\ manual \in Nat /\ resends \in Nat
    BY DEF TypeInv, TypeOK, StoreType, BoundType, CheckSet
  <1>2. CASE Deliver(w)
    <2>1. PICK batch \in (SUBSET (Times \ delivered)) \ {{}} : Start(w, batch)
      BY <1>2 DEF Deliver
    <2>2. checks' = checks /\ manual' = manual /\ resends' = resends
      BY <1>2 DEF Deliver
    <2>3. batch # {} /\ batch \subseteq Times
      OBVIOUS
    <2> QED
      BY <1>1, <2>1, <2>2, <2>3, StartTyped, RecordsKeep
  <1>3. CASE Redeliver(w)
    <2>1. PICK batch \in (SUBSET delivered) \ {{}} : Start(w, batch)
      BY <1>3 DEF Redeliver
    <2>2. checks' = checks /\ manual' = manual /\ resends' = resends + 1
      BY <1>3 DEF Redeliver
    <2>3. batch # {} /\ batch \subseteq Times /\ resends' \in Nat
      BY <1>1, <2>2
    <2> QED
      BY <1>1, <2>1, <2>2, <2>3, StartTyped, RecordsKeep
  <1>4. ASSUME NEW m \in Monitors, NEW o \in Outcomes, CheckNow(w, m, o)
        PROVE  TypeInv'
    <2>1. Start(w, {Len(checks) + 1}) /\ manual' = manual + 1 /\ resends' = resends
      BY <1>4 DEF CheckNow
    <2>2. checks' = Append(checks, [monitor |-> m, outcome |-> o])
      BY <1>4 DEF CheckNow
    <2>3. /\ checks' \in Seq(CheckSet)
          /\ Len(checks) \in Nat /\ Len(checks') = Len(checks) + 1
          /\ Times \subseteq Times'
          /\ \A t \in Times : checks'[t] = checks[t]
      BY <2>2, ChecksGrow DEF TypeInv
    <2>4. {Len(checks) + 1} \subseteq Times'
      BY <2>3 DEF Times
    <2> QED
      BY <1>1, <2>1, <2>3, <2>4, StartTyped
  <1> QED
    BY <1>2, <1>3, <1>4

LEMMA ReadTyped ==
    ASSUME TypeInv, NEW w \in Writers, IngestRead(w)
    PROVE  TypeInv'
  <1> DEFINE k == MonitorOf(Current(w))
  <1>1. /\ pc[w] = "read"
        /\ pc' = [pc EXCEPT ![w] = "apply"]
        /\ seen' = IF seen[w][k] = Unread THEN [seen EXCEPT ![w][k] = row[k]] ELSE seen
        /\ UNCHANGED <<storeVars, sourceVars, sweepVars, todo, made, raised,
                       unsaved, abandons, toggles, forgotten>>
    BY DEF IngestRead, MonitorOf
  <1>2. k \in Monitors
    BY <1>1, CurrentIsDue DEF TypeInv
  <1>3. row[k] \in Row /\ row[k] # Unread
    BY <1>2, RowIsRead DEF TypeInv, TypeOK, StoreType
  <1>4. \A v \in Writers : Current(v)' = Current(v) /\ MonitorOf(Current(v))' = MonitorOf(Current(v))
    BY <1>1 DEF Current, MonitorOf, sourceVars
  <1> HIDE DEF k
  <1>5. seen' \in [Writers -> [Monitors -> Row \cup {Unread}]]
    BY <1>1, <1>2, <1>3 DEF TypeInv, TypeOK, IngestType
  <1>6. /\ \A v \in Writers, m \in Monitors : seen[v][m] # Unread => seen'[v][m] # Unread
        /\ seen'[w][k] # Unread
    BY <1>1, <1>2, <1>3 DEF TypeInv, TypeOK, IngestType
  <1>7. IngestType'
    BY <1>1, <1>5, RecordsKeep DEF TypeInv, TypeOK, IngestType, sourceVars
  <1>8. StoreType' /\ SweepType' /\ BoundType'
    BY <1>1, RecordsKeep
    DEF TypeInv, TypeOK, StoreType, SweepType, BoundType, storeVars, sourceVars, sweepVars
  <1>9. UsesRead'
    <2>1. ASSUME NEW v \in Writers, pc'[v] = "apply"
          PROVE  seen'[v][MonitorOf(Current(v))] # Unread
      <3>1. CASE v = w
        BY <1>6, <3>1 DEF k
      <3>2. CASE v # w
        <4>1. pc[v] = "apply"
          BY <1>1, <2>1, <3>2 DEF TypeInv, TypeOK, IngestType
        <4> QED
          BY <1>6, <4>1, CurrentIsDue DEF TypeInv, UsesRead
      <3> QED
        BY <3>1, <3>2
    <2>2. ASSUME NEW v \in Writers, NEW m \in unsaved'[v] PROVE seen'[v][m] # Unread
      BY <1>1, <1>6, <2>2 DEF TypeInv, TypeOK, IngestType, UsesRead
    <2> QED
      BY <1>4, <2>1, <2>2 DEF UsesRead
  <1> QED
    BY <1>7, <1>8, <1>9 DEF TypeInv, TypeOK

LEMMA ApplyTyped ==
    ASSUME TypeInv, NEW w \in Writers, IngestApply(w)
    PROVE  TypeInv'
  <1> DEFINE t  == Current(w)
             k  == checks[t].monitor
             o  == checks[t].outcome
             by == SuppressedBy(w, k)
             n  == Applied(k, seen[w][k], o, by)
             b  == [time |-> t, status |-> IF by = "maintenance" THEN by ELSE o,
                    important |-> Important(seen[w][k], n, by), by |-> by]
             as == EventsOf(k, t, seen[w][k], n, by)
  <1>1. /\ pc[w] = "apply"
        /\ seen' = [seen EXCEPT ![w][k] = n]
        /\ made' = [made EXCEPT ![w] = @ \cup {b}]
        /\ raised' = [raised EXCEPT ![w] = @ \cup as]
        /\ todo' = [todo EXCEPT ![w] = @ \ {t}]
        /\ pc' = [pc EXCEPT ![w] = IF todo[w] = {t} THEN "write" ELSE "read"]
        /\ UNCHANGED <<storeVars, sourceVars, sweepVars, unsaved, abandons,
                       toggles, forgotten>>
    BY DEF IngestApply
  <1>2. /\ t \in todo[w] /\ t \in Times /\ k \in Monitors /\ o \in Outcomes
    BY <1>1, CurrentIsDue DEF TypeInv, MonitorOf, CheckSet
  <1>3. by \in Reasons
    BY DEF SuppressedBy, Reasons
  <1>4. seen[w][k] \in Row
    BY <1>1, <1>2 DEF TypeInv, TypeOK, IngestType, UsesRead, MonitorOf
  <1>5. n \in Row /\ n # Unread
    BY <1>2, <1>3, <1>4, AppliedIsRow, RowIsRead
  <1>6. b \in Beat
    BY <1>2, <1>3 DEF Beat, Important
  <1>7. as \subseteq Alert
    BY <1>2, EventsTyped
  <1> HIDE DEF t, k, o, by, n, b, as
  <1>8. /\ seen' \in [Writers -> [Monitors -> Row \cup {Unread}]]
        /\ made' \in [Writers -> SUBSET Beat]
        /\ raised' \in [Writers -> SUBSET Alert]
        /\ todo' \in [Writers -> SUBSET Times]
    <2>1. seen' \in [Writers -> [Monitors -> Row \cup {Unread}]]
      BY <1>1, <1>2, <1>5 DEF TypeInv, TypeOK, IngestType
    <2>2. made' \in [Writers -> SUBSET Beat]
      BY <1>1, <1>6 DEF TypeInv, TypeOK, IngestType
    <2>3. raised' \in [Writers -> SUBSET Alert]
      BY <1>1, <1>7 DEF TypeInv, TypeOK, IngestType
    <2>4. todo' \in [Writers -> SUBSET Times]
      BY <1>1 DEF TypeInv, TypeOK, IngestType
    <2> QED
      BY <2>1, <2>2, <2>3, <2>4
  <1>9. IngestType'
    <2>1. pc' \in [Writers -> {"idle", "read", "apply", "write", "save", "raise"}]
      BY <1>1 DEF TypeInv, TypeOK, IngestType
    <2>2. ASSUME NEW v \in Writers
          PROVE  pc'[v] \in {"read", "apply"} <=> todo'[v] # {}
      <3>1. pc'[v] = IF v = w THEN IF todo[w] = {t} THEN "write" ELSE "read" ELSE pc[v]
        BY <1>1 DEF TypeInv, TypeOK, IngestType
      <3>2. todo'[v] = IF v = w THEN todo[w] \ {t} ELSE todo[v]
        BY <1>1 DEF TypeInv, TypeOK, IngestType
      <3>3. todo[w] = {t} <=> todo[w] \ {t} = {}
        BY <1>2
      <3> QED
        BY <3>1, <3>2, <3>3 DEF TypeInv, TypeOK, IngestType
    <2>3. unsaved' \in [Writers -> SUBSET Monitors] /\ checks' = checks
      BY <1>1 DEF TypeInv, TypeOK, IngestType, sourceVars
    <2> QED
      BY <1>8, <2>1, <2>2, <2>3, RecordsKeep DEF IngestType
  <1>10. StoreType' /\ SweepType' /\ BoundType'
    BY <1>1, RecordsKeep
    DEF TypeInv, TypeOK, StoreType, SweepType, BoundType, storeVars, sourceVars, sweepVars
  <1>11. \A v \in Writers, m \in Monitors : seen[v][m] # Unread => seen'[v][m] # Unread
    BY <1>1, <1>2, <1>5 DEF TypeInv, TypeOK, IngestType
  <1>12. UsesRead'
    <2>1. ASSUME NEW v \in Writers, pc'[v] = "apply"
          PROVE  (seen[v][MonitorOf(Current(v))] # Unread)'
      <3>1. pc[v] = "apply" /\ todo'[v] = todo[v] /\ checks' = checks
        BY <1>1, <2>1 DEF TypeInv, TypeOK, IngestType, sourceVars
      <3>2. MonitorOf(Current(v))' = MonitorOf(Current(v))
        BY <3>1 DEF Current, MonitorOf
      <3> QED
        BY <1>11, <3>1, <3>2, CurrentIsDue DEF TypeInv, UsesRead
    <2>2. ASSUME NEW v \in Writers, NEW m \in unsaved'[v] PROVE seen'[v][m] # Unread
      BY <1>1, <1>11, <2>2 DEF TypeInv, TypeOK, IngestType, UsesRead
    <2> QED
      BY <2>1, <2>2 DEF UsesRead
  <1> QED
    BY <1>9, <1>10, <1>12 DEF TypeInv, TypeOK

LEMMA WriteTyped ==
    ASSUME TypeInv, NEW w \in Writers, IngestWrite(w)
    PROVE  TypeInv'
  <1>1. /\ pc[w] = "write"
        /\ beats' = beats \cup {b \in made[w] : \A c \in beats : c.time # b.time}
        /\ unsaved' = [unsaved EXCEPT ![w] = Touched(w)]
        /\ pc' = [pc EXCEPT ![w] = "save"]
        /\ UNCHANGED <<row, enabled, alerts, sourceVars, sweepVars, todo, seen,
                       made, raised, abandons, toggles, forgotten>>
    BY DEF IngestWrite
  <1>2. Touched(w) \subseteq Monitors /\ \A m \in Touched(w) : seen[w][m] # Unread
    BY DEF Touched
  <1>3. StoreType'
    BY <1>1, RecordsKeep DEF TypeInv, TypeOK, StoreType, IngestType, sourceVars
  <1>4. SweepType' /\ BoundType'
    BY <1>1 DEF TypeInv, TypeOK, SweepType, BoundType, sourceVars, sweepVars
  <1>5. IngestType'
    BY <1>1, <1>2, RecordsKeep DEF TypeInv, TypeOK, IngestType, sourceVars
  <1>6. UsesRead'
    <2>1. \A v \in Writers : MonitorOf(Current(v))' = MonitorOf(Current(v))
      BY <1>1 DEF Current, MonitorOf, sourceVars
    <2> QED
      BY <1>1, <1>2, <2>1 DEF TypeInv, TypeOK, IngestType, UsesRead
  <1> QED
    BY <1>3, <1>4, <1>5, <1>6 DEF TypeInv, TypeOK

LEMMA SaveTyped ==
    ASSUME TypeInv, NEW w \in Writers, IngestSave(w)
    PROVE  TypeInv'
  <1>1. /\ pc[w] = "save"
        /\ UNCHANGED <<enabled, beats, alerts, sourceVars, sweepVars, todo, seen,
                       made, raised, abandons, toggles, forgotten>>
    BY DEF IngestSave
  <1>2. PICK k \in unsaved[w] :
           /\ row' = [row EXCEPT ![k] = Saved(row[k], seen[w][k])]
           /\ unsaved' = [unsaved EXCEPT ![w] = @ \ {k}]
           /\ pc' = [pc EXCEPT ![w] = IF unsaved[w] = {k} THEN "raise" ELSE "save"]
    BY DEF IngestSave
  <1>3. k \in Monitors /\ row[k] \in Row /\ seen[w][k] \in Row
    BY DEF TypeInv, TypeOK, StoreType, IngestType, UsesRead
  <1>4. Saved(row[k], seen[w][k]) \in Row
    BY <1>3, SavedIsRow
  <1>5. StoreType'
    BY <1>1, <1>2, <1>4, RecordsKeep DEF TypeInv, TypeOK, StoreType, sourceVars
  <1>6. SweepType' /\ BoundType'
    BY <1>1 DEF TypeInv, TypeOK, SweepType, BoundType, sourceVars, sweepVars
  <1>7. IngestType'
    BY <1>1, <1>2, RecordsKeep DEF TypeInv, TypeOK, IngestType, sourceVars
  <1>8. UsesRead'
    <2>1. \A v \in Writers : MonitorOf(Current(v))' = MonitorOf(Current(v))
      BY <1>1 DEF Current, MonitorOf, sourceVars
    <2>2. \A v \in Writers : /\ pc'[v] = "apply" => pc[v] = "apply"
                             /\ unsaved'[v] \subseteq unsaved[v]
      BY <1>1, <1>2 DEF TypeInv, TypeOK, IngestType
    <2> QED
      BY <1>1, <2>1, <2>2 DEF TypeInv, UsesRead
  <1> QED
    BY <1>5, <1>6, <1>7, <1>8 DEF TypeInv, TypeOK

\* An ingest that ends, well or badly, leaves nothing behind.
LEMMA EndTyped ==
    ASSUME TypeInv, NEW w \in Writers, IngestRaise(w) \/ Abandon(w)
    PROVE  TypeInv'
  <1>1. Finish(w) /\ UNCHANGED <<row, enabled, beats, sourceVars, sweepVars, toggles>>
    BY DEF IngestRaise, Abandon, storeVars
  <1>2. /\ pc' = [pc EXCEPT ![w] = "idle"]
        /\ todo' = [todo EXCEPT ![w] = {}]
        /\ seen' = [seen EXCEPT ![w] = [m \in Monitors |-> Unread]]
        /\ made' = [made EXCEPT ![w] = {}]
        /\ raised' = [raised EXCEPT ![w] = {}]
        /\ unsaved' = [unsaved EXCEPT ![w] = {}]
    BY <1>1 DEF Finish
  <1>3. alerts' \subseteq alerts \cup raised[w] /\ abandons' \in Nat
    BY DEF TypeInv, TypeOK, BoundType, IngestRaise, Abandon, storeVars
  <1>4. forgotten' \subseteq Monitors
    <2>1. CASE IngestRaise(w)
      BY <2>1 DEF TypeInv, TypeOK, SweepType, IngestRaise
    <2>2. CASE Abandon(w)
      <3>1. forgotten' = forgotten \cup {checks[a.time].monitor : a \in raised[w]}
        BY <2>2 DEF Abandon
      <3> QED
        BY <3>1, MonitorsRan DEF TypeInv, TypeOK, SweepType, IngestType, MonitorOf
    <2> QED
      BY <2>1, <2>2
  <1>5. StoreType'
    BY <1>1, <1>3, RecordsKeep DEF TypeInv, TypeOK, StoreType, IngestType, sourceVars
  <1>6. SweepType' /\ BoundType'
    BY <1>1, <1>3, <1>4 DEF TypeInv, TypeOK, SweepType, BoundType, sourceVars, sweepVars
  <1>7. IngestType'
    BY <1>1, <1>2, RecordsKeep DEF TypeInv, TypeOK, IngestType, sourceVars
  <1>8. UsesRead'
    <2>1. \A v \in Writers : v # w => MonitorOf(Current(v))' = MonitorOf(Current(v))
      BY <1>1, <1>2 DEF TypeInv, TypeOK, IngestType, Current, MonitorOf, sourceVars
    <2> QED
      BY <1>2, <2>1 DEF TypeInv, TypeOK, IngestType, UsesRead
  <1> QED
    BY <1>5, <1>6, <1>7, <1>8 DEF TypeInv, TypeOK

\* Pauses and sweeps write whole rows and leave the ingests alone.
LEMMA OthersTyped ==
    ASSUME TypeInv,
           \/ \E m \in Monitors, e \in BOOLEAN : SetMonitorEnabled(m, e)
           \/ \E m \in Monitors : TurnWindow(m)
           \/ SweepResolve \/ SweepApply \/ UNCHANGED vars
    PROVE  TypeInv'
  <1>1. UNCHANGED <<beats, alerts, sourceVars, ingestVars, abandons, forgotten>>
    BY DEF SetMonitorEnabled, TurnWindow, SweepResolve, SweepApply, vars, storeVars
  <1>2. row' \in [Monitors -> Row] /\ enabled' \in [Monitors -> BOOLEAN]
    <2>1. row \in [Monitors -> Row] /\ enabled \in [Monitors -> BOOLEAN]
      BY DEF TypeInv, TypeOK, StoreType
    <2>2. ASSUME NEW m \in Monitors, NEW e \in BOOLEAN, SetMonitorEnabled(m, e)
          PROVE  row' \in [Monitors -> Row] /\ enabled' \in [Monitors -> BOOLEAN]
      <3> DEFINE r == [status |-> IF row[m].by = "maintenance" THEN "maintenance"
                                  ELSE IF e THEN "pending" ELSE "paused",
                       failures |-> 0, by |-> row[m].by]
      <3>1. row' = [row EXCEPT ![m] = r] /\ enabled' = [enabled EXCEPT ![m] = e]
        BY <2>2 DEF SetMonitorEnabled
      <3>2. r \in Row
        BY <2>1 DEF Row, Statuses
      <3> QED
        BY <2>1, <3>1, <3>2
    <2>3. CASE SweepApply
      <3>1. enabled' = enabled
            /\ row' = [m \in Monitors |->
                  IF Enters(m)
                  THEN [row[m] EXCEPT !.status = "maintenance", !.by = "maintenance"]
                  ELSE IF Leaves(m)
                  THEN [row[m] EXCEPT !.status = "pending", !.by = "none"]
                  ELSE row[m]]
        BY <2>3 DEF SweepApply
      <3>2. ASSUME NEW r \in Row
            PROVE  /\ [r EXCEPT !.status = "maintenance", !.by = "maintenance"] \in Row
                   /\ [r EXCEPT !.status = "pending", !.by = "none"] \in Row
        BY DEF Row, Statuses, Reasons
      <3> QED
        BY <2>1, <3>1, <3>2
    <2>4. ASSUME NEW m \in Monitors, TurnWindow(m) \/ SweepResolve \/ UNCHANGED vars
          PROVE  row' = row /\ enabled' = enabled
      BY <2>4 DEF TurnWindow, SweepResolve, vars, storeVars
    <2>5. (SweepResolve \/ UNCHANGED vars) => row' = row /\ enabled' = enabled
      BY DEF SweepResolve, vars, storeVars
    <2> QED
      BY <2>1, <2>2, <2>3, <2>4, <2>5
  <1>3. StoreType'
    BY <1>1, <1>2, RecordsKeep DEF TypeInv, TypeOK, StoreType, sourceVars
  <1>4. SweepType'
    BY <1>1
    DEF TypeInv, TypeOK, SweepType, SetMonitorEnabled, TurnWindow, SweepResolve,
        SweepApply, vars, sweepVars
  <1>5. BoundType'
    <2>1. resends' = resends /\ manual' = manual /\ abandons' = abandons
      BY <1>1 DEF sourceVars
    <2>2. toggles' \in {toggles, toggles + 1} /\ turns' \in {turns, turns + 1}
      BY DEF SetMonitorEnabled, TurnWindow, SweepResolve, SweepApply, vars, sweepVars
    <2> QED
      BY <2>1, <2>2 DEF TypeInv, TypeOK, BoundType
  <1>6. IngestType'
    BY <1>1, RecordsKeep DEF TypeInv, TypeOK, IngestType, sourceVars, ingestVars
  <1>7. UsesRead'
    BY <1>1 DEF TypeInv, UsesRead, Current, MonitorOf, sourceVars, ingestVars
  <1> QED
    BY <1>3, <1>4, <1>5, <1>6, <1>7 DEF TypeInv, TypeOK

\* Every variable of the component keeps its type, whatever overlaps, and an
\* ingest never applies or saves a record it did not read (ingestResults).
THEOREM TypesStay == Spec => []TypeInv
  <1>1. TypeInv /\ [Next]_vars => TypeInv'
    <2> SUFFICES ASSUME TypeInv, [Next]_vars PROVE TypeInv'
      OBVIOUS
    <2>1. ASSUME NEW m \in Monitors, NEW o \in Outcomes, Check(m, o) PROVE TypeInv'
      BY <2>1, CheckTyped
    <2>2. ASSUME NEW w \in Writers,
                 \/ Deliver(w) \/ Redeliver(w)
                 \/ \E m \in Monitors, o \in Outcomes : CheckNow(w, m, o)
          PROVE  TypeInv'
      BY <2>2, ArrivalsTyped
    <2>3. ASSUME NEW w \in Writers, Ingest(w) \/ Abandon(w) PROVE TypeInv'
      BY <2>3, ReadTyped, ApplyTyped, WriteTyped, SaveTyped, EndTyped DEF Ingest
    <2> QED
      BY <2>1, <2>2, <2>3, OthersTyped DEF Next
  <1> QED
    BY <1>1, TypeInvInit, PTL DEF Spec

-----------------------------------------------------------------------------
(* A result is applied once *)

LEMMA OnceInit == Init => AppliedOnce
  BY DEF Init, AppliedOnce, Owned, TimesOf, Unwritten

\* A step that hands out and writes no result.
LEMMA OnceFrame ==
    ASSUME TypeOK, AppliedOnce, UNCHANGED <<resends, beats, delivered>>,
           \A v \in Writers : /\ Owned(v)' \subseteq Owned(v)
                              /\ pc'[v] = "idle" => made'[v] = {}
                              /\ Unwritten(v)' => Unwritten(v)
    PROVE  AppliedOnce'
  <1>1. TimesOf(beats)' = TimesOf(beats)
    BY DEF TimesOf
  <1> QED
    BY <1>1 DEF AppliedOnce

\* An ingest starts on results nobody was handed.
LEMMA OnceStart ==
    ASSUME TypeOK, AppliedOnce, NEW w \in Writers, NEW batch, Start(w, batch),
           batch \cap delivered = {}, resends' = resends
    PROVE  AppliedOnce'
  <1>1. /\ pc[w] = "idle"
        /\ pc' = [pc EXCEPT ![w] = "read"]
        /\ todo' = [todo EXCEPT ![w] = batch]
        /\ delivered' = delivered \cup batch
        /\ UNCHANGED <<beats, made>>
    BY DEF Start, storeVars
  <1>2. TimesOf(beats)' = TimesOf(beats) /\ \A v \in Writers : TimesOf(made[v])' = TimesOf(made[v])
    BY <1>1 DEF TimesOf
  <1>3. Owned(w)' = batch
    BY <1>1 DEF TypeOK, IngestType, AppliedOnce, Owned, TimesOf
  <1>4. \A v \in Writers : v # w => Owned(v)' = Owned(v) /\ (Unwritten(v)' <=> Unwritten(v))
    BY <1>1, <1>2 DEF TypeOK, IngestType, Owned, Unwritten
  <1>5. \A v \in Writers : /\ Owned(v)' \subseteq delivered'
                           /\ pc'[v] = "idle" => made'[v] = {}
                           /\ Unwritten(v)' => (Owned(v) \cap TimesOf(beats))' = {}
    BY <1>1, <1>2, <1>3, <1>4 DEF TypeOK, IngestType, AppliedOnce
  <1>6. \A u, v \in Writers : u # v => (Owned(u) \cap Owned(v))' = {}
    BY <1>3, <1>4 DEF AppliedOnce
  <1> QED
    BY <1>1, <1>2, <1>5, <1>6 DEF AppliedOnce

LEMMA OnceArrivals ==
    ASSUME MaxResends = 0, TypeOK, AppliedOnce, NEW w \in Writers,
           \/ Deliver(w) \/ Redeliver(w)
           \/ \E m \in Monitors, o \in Outcomes : CheckNow(w, m, o)
    PROVE  AppliedOnce'
  <1>1. CASE Deliver(w)
    <2>1. PICK batch \in (SUBSET (Times \ delivered)) \ {{}} : Start(w, batch)
      BY <1>1 DEF Deliver
    <2>2. batch \cap delivered = {} /\ resends' = resends
      BY <1>1 DEF Deliver
    <2> QED
      BY <2>1, <2>2, OnceStart
  <1>2. ~Redeliver(w)
    BY DEF Redeliver, AppliedOnce
  <1>3. ASSUME NEW m \in Monitors, NEW o \in Outcomes, CheckNow(w, m, o)
        PROVE  AppliedOnce'
    <2>1. Start(w, {Len(checks) + 1}) /\ resends' = resends
      BY <1>3 DEF CheckNow
    <2>2. checks \in Seq(CheckSet) /\ delivered \subseteq Times
      BY DEF TypeOK, StoreType, CheckSet
    <2>3. {Len(checks) + 1} \cap delivered = {}
      BY <2>2 DEF Times
    <2> QED
      BY <2>1, <2>3, OnceStart
  <1> QED
    BY <1>1, <1>2, <1>3

LEMMA OnceApply ==
    ASSUME TypeInv, AppliedOnce, NEW w \in Writers, IngestApply(w)
    PROVE  AppliedOnce'
  <1> DEFINE t  == Current(w)
             k  == checks[t].monitor
             by == SuppressedBy(w, k)
             n  == Applied(k, seen[w][k], checks[t].outcome, by)
             b  == [time |-> t,
                    status |-> IF by = "maintenance" THEN by ELSE checks[t].outcome,
                    important |-> Important(seen[w][k], n, by), by |-> by]
  <1>1. b.time = t /\ made' = [made EXCEPT ![w] = @ \cup {b}]
    BY DEF IngestApply
  <1>2. /\ pc[w] = "apply"
        /\ todo' = [todo EXCEPT ![w] = @ \ {t}]
        /\ pc' = [pc EXCEPT ![w] = IF todo[w] = {t} THEN "write" ELSE "read"]
        /\ UNCHANGED <<resends, beats, delivered>>
    BY DEF IngestApply, storeVars, sourceVars
  <1>3. t \in todo[w]
    BY <1>2, CurrentIsDue DEF TypeInv
  <1> HIDE DEF t, b
  <1>4. \A v \in Writers : Owned(v)' \subseteq Owned(v)
    <2>1. TimesOf(made[w])' = TimesOf(made[w]) \cup {t}
      BY <1>1 DEF TypeInv, TypeOK, IngestType, TimesOf
    <2>2. Owned(w)' \subseteq Owned(w)
      BY <1>2, <1>3, <2>1 DEF TypeInv, TypeOK, IngestType, Owned
    <2>3. \A v \in Writers : v # w => Owned(v)' = Owned(v)
      BY <1>1, <1>2 DEF TypeInv, TypeOK, IngestType, Owned, TimesOf
    <2> QED
      BY <2>2, <2>3
  <1>5. \A v \in Writers : /\ pc'[v] = "idle" => made'[v] = {}
                           /\ Unwritten(v)' => Unwritten(v)
    BY <1>1, <1>2 DEF TypeInv, TypeOK, IngestType, AppliedOnce, Unwritten
  <1> QED
    BY <1>2, <1>4, <1>5, OnceFrame DEF TypeInv

LEMMA OnceWrite ==
    ASSUME TypeInv, AppliedOnce, NEW w \in Writers, IngestWrite(w)
    PROVE  AppliedOnce'
  <1>1. /\ pc' = [pc EXCEPT ![w] = "save"]
        /\ beats' \subseteq beats \cup made[w]
        /\ UNCHANGED <<resends, delivered, todo, made>>
    BY DEF IngestWrite, sourceVars
  <1>2. TimesOf(beats)' \subseteq TimesOf(beats) \cup TimesOf(made[w])
    BY <1>1 DEF TimesOf
  <1>3. TimesOf(made[w]) \subseteq Owned(w)
    BY DEF Owned
  <1>4. \A v \in Writers : Owned(v)' = Owned(v)
    BY <1>1 DEF Owned, TimesOf
  <1>5. \A v \in Writers : Unwritten(v)' => v # w /\ Unwritten(v)
    BY <1>1 DEF TypeInv, TypeOK, IngestType, Unwritten
  <1>6. \A v \in Writers : pc'[v] = "idle" => made'[v] = {}
    BY <1>1 DEF TypeInv, TypeOK, IngestType, AppliedOnce
  <1>7. TimesOf(beats)' \subseteq delivered'
    BY <1>1, <1>2, <1>3 DEF AppliedOnce
  <1>8. \A v \in Writers : Unwritten(v)' => (Owned(v) \cap TimesOf(beats))' = {}
    <2> SUFFICES ASSUME NEW v \in Writers, Unwritten(v)'
                 PROVE  Owned(v)' \cap TimesOf(beats)' = {}
      OBVIOUS
    <2>1. Owned(v) \cap TimesOf(beats) = {} /\ Owned(v) \cap Owned(w) = {}
      BY <1>5 DEF AppliedOnce
    <2> QED
      BY <1>2, <1>3, <1>4, <2>1
  <1> QED
    BY <1>1, <1>4, <1>6, <1>7, <1>8 DEF AppliedOnce

LEMMA OnceRest ==
    ASSUME TypeInv, AppliedOnce,
           \/ \E m \in Monitors, o \in Outcomes : Check(m, o)
           \/ \E w \in Writers : IngestRead(w) \/ IngestSave(w) \/ IngestRaise(w) \/ Abandon(w)
           \/ \E m \in Monitors, e \in BOOLEAN : SetMonitorEnabled(m, e)
           \/ \E m \in Monitors : TurnWindow(m)
           \/ SweepResolve \/ SweepApply \/ UNCHANGED vars
    PROVE  AppliedOnce'
  <1>1. UNCHANGED <<resends, beats, delivered>>
    BY DEF Check, IngestRead, IngestSave, IngestRaise, Abandon, SetMonitorEnabled,
           TurnWindow, SweepResolve, SweepApply, vars, storeVars, sourceVars
  <1>2. CASE \E w \in Writers : IngestRead(w) \/ IngestSave(w)
    <2>1. PICK w \in Writers : IngestRead(w) \/ IngestSave(w)
      BY <1>2
    <2>2. /\ UNCHANGED <<todo, made>>
          /\ \/ pc[w] = "read" /\ pc' = [pc EXCEPT ![w] = "apply"]
             \/ pc[w] = "save" /\ pc' = [pc EXCEPT ![w] = "save"]
             \/ pc[w] = "save" /\ pc' = [pc EXCEPT ![w] = "raise"]
      <3>1. CASE IngestRead(w)
        BY <3>1 DEF IngestRead
      <3>2. CASE IngestSave(w)
        <4>1. PICK k \in unsaved[w] :
                pc' = [pc EXCEPT ![w] = IF unsaved[w] = {k} THEN "raise" ELSE "save"]
          BY <3>2 DEF IngestSave
        <4> QED
          BY <3>2, <4>1 DEF IngestSave
      <3> QED
        BY <2>1, <3>1, <3>2
    <2>3. \A v \in Writers : /\ Owned(v)' = Owned(v)
                             /\ pc'[v] = "idle" => made'[v] = {}
                             /\ Unwritten(v)' => Unwritten(v)
      BY <2>2 DEF TypeInv, TypeOK, IngestType, AppliedOnce, Owned, TimesOf, Unwritten
    <2> QED
      BY <1>1, <2>3, OnceFrame DEF TypeInv
  <1>3. CASE \E w \in Writers : IngestRaise(w) \/ Abandon(w)
    <2>1. PICK w \in Writers : Finish(w)
      BY <1>3 DEF IngestRaise, Abandon
    <2>2. /\ pc' = [pc EXCEPT ![w] = "idle"]
          /\ todo' = [todo EXCEPT ![w] = {}]
          /\ made' = [made EXCEPT ![w] = {}]
      BY <2>1 DEF Finish
    <2>3. \A v \in Writers : /\ Owned(v)' \subseteq Owned(v)
                             /\ pc'[v] = "idle" => made'[v] = {}
                             /\ Unwritten(v)' => Unwritten(v)
      BY <2>2 DEF TypeInv, TypeOK, IngestType, AppliedOnce, Owned, TimesOf, Unwritten
    <2> QED
      BY <1>1, <2>3, OnceFrame DEF TypeInv
  <1>4. CASE UNCHANGED <<pc, todo, made>>
    <2>1. \A v \in Writers : /\ Owned(v)' = Owned(v)
                             /\ pc'[v] = "idle" => made'[v] = {}
                             /\ Unwritten(v)' => Unwritten(v)
      BY <1>4 DEF AppliedOnce, Owned, TimesOf, Unwritten
    <2> QED
      BY <1>1, <2>1, OnceFrame DEF TypeInv
  <1> QED
    BY <1>2, <1>3, <1>4
    DEF Check, SetMonitorEnabled, TurnWindow, SweepResolve, SweepApply, vars, ingestVars

-----------------------------------------------------------------------------
(* A down is accounted for *)

LEMMA DownsInit == Init => DownsKnown
  BY DEF Init, DownsKnown, Unread

\* What is known stays known while nothing is forgotten: heartbeats, alerts and
\* pending alerts are only added.
LEMMA KnownGrows ==
    ASSUME TypeOK, beats \subseteq beats', alerts \subseteq alerts',
           forgotten \subseteq forgotten',
           \A t \in Times : checks'[t] = checks[t],
           \A v \in Writers : raised[v] \subseteq raised'[v]
    PROVE  Known \subseteq Known'
  <1>1. /\ beats \subseteq Beat /\ alerts \subseteq Alert
        /\ \A v \in Writers : raised[v] \subseteq Alert
    BY DEF TypeOK, StoreType, IngestType
  <1>2. \A t \in Times : MonitorOf(t)' = MonitorOf(t)
    BY DEF MonitorOf
  <1>3. /\ \A a \in Alert : a.time \in Times
        /\ \A b \in Beat : b.time \in Times
    BY DEF Alert, Beat
  <1>4. Told \subseteq Told'
    <2>1. ASSUME NEW m \in Told PROVE m \in Told'
      <3>1. PICK a \in alerts : a.event = "down" /\ m = MonitorOf(a.time)
        BY <2>1 DEF Told
      <3>2. a \in alerts' /\ MonitorOf(a.time)' = m
        BY <1>1, <1>2, <1>3, <3>1
      <3> QED
        BY <3>1, <3>2 DEF Told, MonitorOf
    <2> QED
      BY <2>1
  <1>5. Withheld \subseteq Withheld'
    <2>1. ASSUME NEW m \in Withheld PROVE m \in Withheld'
      <3>1. PICK b \in beats : b.by = "dependency" /\ m = MonitorOf(b.time)
        BY <2>1 DEF Withheld
      <3>2. b \in beats' /\ MonitorOf(b.time)' = m
        BY <1>1, <1>2, <1>3, <3>1
      <3> QED
        BY <3>1, <3>2 DEF Withheld, MonitorOf
    <2> QED
      BY <2>1
  <1>6. Telling \subseteq Telling'
    <2>1. ASSUME NEW m \in Telling PROVE m \in Telling'
      <3>1. PICK v \in Writers : \E a \in raised[v] : MonitorOf(a.time) = m /\ a.event = "down"
        BY <2>1 DEF Telling
      <3>2. PICK a \in raised[v] : MonitorOf(a.time) = m /\ a.event = "down"
        BY <3>1
      <3>3. m \in Monitors /\ a \in raised'[v] /\ MonitorOf(a.time)' = m
        BY <1>1, <1>2, <1>3, <2>1, <3>2 DEF Telling
      <3> QED
        BY <3>2, <3>3 DEF Telling, MonitorOf
    <2> QED
      BY <2>1
  <1> QED
    BY <1>4, <1>5, <1>6 DEF Known

\* A step after which no verdict is down that was not.
LEMMA DownsFrame ==
    ASSUME TypeOK, DownsKnown, Known \subseteq Known',
           \A m \in Monitors : row'[m].status = "down" => row[m].status = "down",
           \A v \in Writers, m \in Monitors :
              seen'[v][m].status = "down" =>
                 /\ seen[v][m].status = "down"
                 /\ Unwritten(v) => Unwritten(v)' /\ Withholding(v) \subseteq Withholding(v)'
    PROVE  DownsKnown'
  BY DEF DownsKnown

\* An ingest that starts, or a check that completes, brings no verdict.
LEMMA DownsArrivals ==
    ASSUME TypeInv, TypeInv', DownsKnown,
           \/ \E m \in Monitors, o \in Outcomes : Check(m, o)
           \/ \E w \in Writers :
                 \/ Deliver(w) \/ Redeliver(w)
                 \/ \E m \in Monitors, o \in Outcomes : CheckNow(w, m, o)
    PROVE  DownsKnown'
  <1>1. /\ UNCHANGED <<row, beats, alerts, forgotten, seen, made, raised>>
        /\ \A v \in Writers : Unwritten(v) => Unwritten(v)'
    <2>1. CASE \E m \in Monitors, o \in Outcomes : Check(m, o)
      BY <2>1 DEF Check, storeVars, ingestVars, Unwritten
    <2>2. CASE \E w \in Writers :
                 \/ Deliver(w) \/ Redeliver(w)
                 \/ \E m \in Monitors, o \in Outcomes : CheckNow(w, m, o)
      <3>1. PICK w \in Writers : \E batch : Start(w, batch)
        BY <2>2 DEF Deliver, Redeliver, CheckNow
      <3>2. /\ pc[w] = "idle" /\ pc' = [pc EXCEPT ![w] = "read"]
            /\ UNCHANGED <<storeVars, forgotten, seen, made, raised>>
        BY <3>1 DEF Start
      <3> QED
        BY <3>2 DEF TypeInv, TypeOK, IngestType, storeVars, Unwritten
    <2> QED
      BY <2>1, <2>2
  <1>2. \A t \in Times : checks'[t] = checks[t]
    <2>1. ASSUME NEW m \in Monitors, NEW o \in Outcomes,
                 checks' = Append(checks, [monitor |-> m, outcome |-> o])
          PROVE  \A t \in Times : checks'[t] = checks[t]
      BY <2>1, ChecksGrow DEF TypeInv
    <2> QED
      BY <2>1 DEF Check, Deliver, Redeliver, CheckNow
  <1>3. Known \subseteq Known'
    BY <1>1, <1>2, KnownGrows DEF TypeInv
  <1>4. \A v \in Writers : Withholding(v) \subseteq Withholding(v)'
    BY <1>1, <1>2 DEF TypeInv, TypeOK, IngestType, Withholding, MonitorOf, Beat
  <1> QED
    BY <1>1, <1>3, <1>4, DownsFrame DEF TypeInv

\* GetState copies a stored verdict.
LEMMA DownsRead ==
    ASSUME TypeInv, DownsKnown, NEW w \in Writers, IngestRead(w)
    PROVE  DownsKnown'
  <1> DEFINE k == MonitorOf(Current(w))
  <1>1. /\ pc[w] = "read" /\ pc' = [pc EXCEPT ![w] = "apply"]
        /\ seen' = IF seen[w][k] = Unread THEN [seen EXCEPT ![w][k] = row[k]] ELSE seen
        /\ UNCHANGED <<row, beats, alerts, checks, forgotten, raised, made>>
    BY DEF IngestRead, MonitorOf, storeVars, sourceVars
  <1>2. k \in Monitors
    BY <1>1, CurrentIsDue DEF TypeInv
  <1> HIDE DEF k
  <1>3. Known \subseteq Known'
    BY <1>1, KnownGrows DEF TypeInv
  <1>4. \A v \in Writers : /\ Unwritten(v) => Unwritten(v)'
                           /\ Withholding(v)' = Withholding(v)
    BY <1>1 DEF TypeInv, TypeOK, IngestType, Unwritten, Withholding, MonitorOf
  <1>5. \A v \in Writers, m \in Monitors :
           seen'[v][m] = seen[v][m] \/ seen'[v][m] = row[m]
    BY <1>1, <1>2 DEF TypeInv, TypeOK, IngestType
  <1> QED
    BY <1>1, <1>3, <1>4, <1>5 DEF DownsKnown

\* apply decides on a down either with an alert, or with a heartbeat that says
\* that a dependency suppressed it, or again.
LEMMA DownsApply ==
    ASSUME TypeInv, DownsKnown, NEW w \in Writers, IngestApply(w)
    PROVE  DownsKnown'
  <1> DEFINE t  == Current(w)
             k  == checks[t].monitor
             o  == checks[t].outcome
             by == SuppressedBy(w, k)
             r  == seen[w][k]
             n  == Applied(k, r, o, by)
             b  == [time |-> t, status |-> IF by = "maintenance" THEN by ELSE o,
                    important |-> Important(r, n, by), by |-> by]
             as == EventsOf(k, t, r, n, by)
             a  == [time |-> t, event |-> "down", resend |-> FALSE]
  <1>1. /\ pc[w] = "apply"
        /\ seen' = [seen EXCEPT ![w][k] = n]
        /\ made' = [made EXCEPT ![w] = @ \cup {b}]
        /\ raised' = [raised EXCEPT ![w] = @ \cup as]
        /\ pc' = [pc EXCEPT ![w] = IF todo[w] = {t} THEN "write" ELSE "read"]
        /\ UNCHANGED <<row, beats, alerts, checks, forgotten>>
    BY DEF IngestApply, storeVars, sourceVars
  <1>2. k \in Monitors /\ checks'[t].monitor = k
    BY <1>1, CurrentIsDue DEF TypeInv, MonitorOf
  <1>3. by \in Reasons
    BY DEF SuppressedBy, Reasons
  <1>4. r \in Row
    BY <1>1, CurrentIsDue DEF TypeInv, TypeOK, IngestType, UsesRead, MonitorOf
  <1>5. b.by = by /\ b.time = t /\ a.event = "down" /\ a.time = t
    OBVIOUS
  <1>6. by = "maintenance" => n.status # "down"
    BY <1>4 DEF Applied, Row
  <1>7. by = "none" /\ n.status = "down" => r.status = "down" \/ a \in as
    <2> SUFFICES ASSUME by = "none", n.status = "down", r.status # "down"
                 PROVE  a \in as
      OBVIOUS
    <2>1. "down" \in TransitionEvents(r, n)
      BY DEF TransitionEvents
    <2> HIDE DEF n, r, k, t, by
    <2> QED
      BY <2>1 DEF EventsOf
  <1> HIDE DEF t, k, o, by, r, n, b, as, a
  <1>8. \A v \in Writers : raised[v] \subseteq raised'[v] /\ made[v] \subseteq made'[v]
    BY <1>1 DEF TypeInv, TypeOK, IngestType
  <1>9. Known \subseteq Known'
    BY <1>1, <1>8, KnownGrows DEF TypeInv
  <1>10. \A v \in Writers : /\ Unwritten(v) => Unwritten(v)'
                            /\ Withholding(v) \subseteq Withholding(v)'
    BY <1>1, <1>8 DEF TypeInv, TypeOK, IngestType, Unwritten, Withholding, MonitorOf
  <1>11. n.status = "down" => k \in Known' \/ (Unwritten(w)' /\ k \in Withholding(w)')
    <2>1. CASE by = "dependency"
      <3>1. b \in made'[w] /\ b.by = "dependency" /\ checks'[b.time].monitor = k
        BY <1>1, <1>2, <1>5, <2>1 DEF TypeInv, TypeOK, IngestType
      <3>2. k \in Withholding(w)'
        BY <3>1 DEF Withholding, MonitorOf
      <3>3. Unwritten(w)'
        BY <1>1 DEF TypeInv, TypeOK, IngestType, Unwritten
      <3> QED
        BY <3>2, <3>3
    <2>2. CASE by = "none" /\ a \in as
      <3>1. a \in raised'[w] /\ a.event = "down" /\ checks'[a.time].monitor = k
        BY <1>1, <1>2, <1>5, <2>2 DEF TypeInv, TypeOK, IngestType
      <3>2. k \in Telling'
        BY <1>2, <3>1 DEF Telling, MonitorOf
      <3> QED
        BY <3>2 DEF Known
    <2>3. CASE r.status = "down"
      BY <1>2, <1>9, <1>10, <2>3 DEF DownsKnown, r
    <2> QED
      BY <1>3, <1>6, <1>7, <2>1, <2>2, <2>3 DEF Reasons
  <1>12. \A v \in Writers, m \in Monitors :
            seen'[v][m] = IF v = w /\ m = k THEN n ELSE seen[v][m]
    BY <1>1, <1>2 DEF TypeInv, TypeOK, IngestType
  <1> QED
    BY <1>1, <1>9, <1>10, <1>11, <1>12 DEF DownsKnown

\* WriteBatch stores every suppressed heartbeat of a batch no one else applied.
LEMMA DownsWrite ==
    ASSUME TypeInv, AppliedOnce, DownsKnown, NEW w \in Writers, IngestWrite(w)
    PROVE  DownsKnown'
  <1>1. /\ pc[w] = "write" /\ pc' = [pc EXCEPT ![w] = "save"]
        /\ beats' = beats \cup {b \in made[w] : \A c \in beats : c.time # b.time}
        /\ UNCHANGED <<row, alerts, checks, forgotten, seen, raised, made>>
    BY DEF IngestWrite, sourceVars
  <1>2. Known \subseteq Known'
    BY <1>1, KnownGrows DEF TypeInv
  <1>3. Withholding(w) \subseteq Known'
    <2>1. ASSUME NEW m \in Withholding(w) PROVE m \in Withheld'
      <3>1. PICK b \in made[w] : b.by = "dependency" /\ m = MonitorOf(b.time)
        BY <2>1 DEF Withholding
      <3>2. b.time \in Owned(w) /\ Owned(w) \cap TimesOf(beats) = {}
        BY <1>1, <3>1 DEF Owned, TimesOf, AppliedOnce, Unwritten
      <3>3. \A c \in beats : c.time # b.time
        BY <3>2 DEF TimesOf
      <3>4. b \in beats'
        BY <1>1, <3>1, <3>3
      <3> QED
        BY <1>1, <3>1, <3>4 DEF Withheld, MonitorOf
    <2> QED
      BY <2>1 DEF Known
  <1>4. \A v \in Writers : /\ v # w => (Unwritten(v)' <=> Unwritten(v))
                           /\ Withholding(v)' = Withholding(v)
    BY <1>1 DEF TypeInv, TypeOK, IngestType, Unwritten, Withholding, MonitorOf
  <1> QED
    BY <1>1, <1>2, <1>3, <1>4 DEF DownsKnown

\* SaveState stores a verdict whose heartbeats are written.
LEMMA DownsSave ==
    ASSUME TypeInv, DownsKnown, NEW w \in Writers, IngestSave(w)
    PROVE  DownsKnown'
  <1>1. /\ pc[w] = "save"
        /\ UNCHANGED <<beats, alerts, checks, forgotten, seen, raised, made>>
    BY DEF IngestSave, sourceVars
  <1>2. PICK k \in unsaved[w] :
           /\ row' = [row EXCEPT ![k] = Saved(row[k], seen[w][k])]
           /\ pc' = [pc EXCEPT ![w] = IF unsaved[w] = {k} THEN "raise" ELSE "save"]
    BY DEF IngestSave
  <1>3. k \in Monitors /\ row[k] \in Row
    BY DEF TypeInv, TypeOK, StoreType, IngestType
  <1>4. Known \subseteq Known'
    BY <1>1, KnownGrows DEF TypeInv
  <1>5. \A v \in Writers : /\ Unwritten(v) => Unwritten(v)'
                           /\ Withholding(v)' = Withholding(v)
    BY <1>1, <1>2 DEF TypeInv, TypeOK, IngestType, Unwritten, Withholding, MonitorOf
  <1>6. Saved(row[k], seen[w][k]).status \in {row[k].status, seen[w][k].status}
    BY <1>3 DEF Saved, Row
  <1>7. ~Unwritten(w)
    BY <1>1 DEF Unwritten
  <1>8. \A m \in Monitors : row'[m].status = "down" => m \in Known
    BY <1>2, <1>3, <1>6, <1>7 DEF DownsKnown, TypeInv, TypeOK, StoreType
  <1> QED
    BY <1>1, <1>4, <1>5, <1>8 DEF DownsKnown

\* raise publishes what an ingest holds; an ingest that is abandoned forgets it.
LEMMA DownsEnd ==
    ASSUME TypeInv, DownsKnown, NEW w \in Writers, IngestRaise(w) \/ Abandon(w)
    PROVE  DownsKnown'
  <1>1. Finish(w) /\ UNCHANGED <<row, beats, checks>>
    BY DEF IngestRaise, Abandon, storeVars, sourceVars
  <1>2. /\ pc' = [pc EXCEPT ![w] = "idle"]
        /\ seen' = [seen EXCEPT ![w] = [m \in Monitors |-> Unread]]
        /\ made' = [made EXCEPT ![w] = {}]
        /\ raised' = [raised EXCEPT ![w] = {}]
    BY <1>1 DEF Finish
  <1>3. alerts \subseteq alerts' /\ forgotten \subseteq forgotten'
    BY DEF IngestRaise, Abandon, storeVars
  <1>4. ASSUME NEW m \in Telling PROVE m \in Known'
    <2>1. PICK v \in Writers : \E a \in raised[v] : MonitorOf(a.time) = m /\ a.event = "down"
      BY <1>4 DEF Telling
    <2>2. PICK a \in raised[v] : MonitorOf(a.time) = m /\ a.event = "down"
      BY <2>1
    <2>3. m \in Monitors /\ MonitorOf(a.time)' = m
      BY <1>1, <1>4, <2>2 DEF Telling, MonitorOf
    <2>4. CASE v # w
      <3>1. a \in raised'[v]
        BY <1>2, <2>2, <2>4 DEF TypeInv, TypeOK, IngestType
      <3>2. m \in Telling'
        BY <2>2, <2>3, <3>1 DEF Telling, MonitorOf
      <3> QED
        BY <3>2 DEF Known
    <2>5. CASE v = w /\ IngestRaise(w)
      <3>1. a \in alerts'
        BY <2>2, <2>5 DEF IngestRaise
      <3>2. m \in Told'
        BY <2>2, <2>3, <3>1 DEF Told, MonitorOf
      <3> QED
        BY <3>2 DEF Known
    <2>6. CASE v = w /\ Abandon(w)
      <3>1. m \in forgotten'
        BY <2>2, <2>6 DEF Abandon, MonitorOf
      <3> QED
        BY <3>1 DEF Known
    <2> QED
      BY <2>4, <2>5, <2>6
  <1>5. Told \subseteq Told' /\ Withheld \subseteq Withheld'
    BY <1>1, <1>3 DEF Told, Withheld, MonitorOf
  <1>6. Known \subseteq Known'
    BY <1>3, <1>4, <1>5 DEF Known
  <1>7. \A v \in Writers : v # w => /\ Unwritten(v)' <=> Unwritten(v)
                                    /\ Withholding(v)' = Withholding(v)
                                    /\ \A m \in Monitors : seen'[v][m] = seen[v][m]
    BY <1>1, <1>2 DEF TypeInv, TypeOK, IngestType, Unwritten, Withholding, MonitorOf
  <1>8. \A m \in Monitors : seen'[w][m].status # "down"
    BY <1>2 DEF TypeInv, TypeOK, IngestType, Unread
  <1> QED
    BY <1>1, <1>6, <1>7, <1>8 DEF DownsKnown

\* No other writer decides that a monitor is down.
LEMMA DownsOthers ==
    ASSUME TypeInv, DownsKnown,
           \/ \E m \in Monitors, e \in BOOLEAN : SetMonitorEnabled(m, e)
           \/ \E m \in Monitors : TurnWindow(m)
           \/ SweepResolve \/ SweepApply \/ UNCHANGED vars
    PROVE  DownsKnown'
  <1>1. UNCHANGED <<beats, alerts, checks, pc, seen, made, raised, forgotten>>
    BY DEF SetMonitorEnabled, TurnWindow, SweepResolve, SweepApply, vars, storeVars,
           sourceVars, ingestVars
  <1>2. Known \subseteq Known'
    BY <1>1, KnownGrows DEF TypeInv
  <1>3. \A v \in Writers : /\ Unwritten(v)' <=> Unwritten(v)
                           /\ Withholding(v)' = Withholding(v)
    BY <1>1 DEF Unwritten, Withholding, MonitorOf
  <1>4. row \in [Monitors -> Row]
    BY DEF TypeInv, TypeOK, StoreType
  <1>5. \A m \in Monitors : row'[m].status = "down" => row[m].status = "down"
    <2>1. ASSUME NEW k \in Monitors, NEW e \in BOOLEAN, SetMonitorEnabled(k, e),
                 NEW m \in Monitors, row'[m].status = "down"
          PROVE  row[m].status = "down"
      <3> DEFINE st == IF row[k].by = "maintenance" THEN "maintenance"
                       ELSE IF e THEN "pending" ELSE "paused"
      <3>1. row' = [row EXCEPT ![k] = [status |-> st, failures |-> 0, by |-> row[k].by]]
        BY <2>1 DEF SetMonitorEnabled
      <3>2. st # "down"
        OBVIOUS
      <3> HIDE DEF st
      <3> QED
        BY <1>4, <2>1, <3>1, <3>2
    <2>2. ASSUME SweepApply, NEW m \in Monitors, row'[m].status = "down"
          PROVE  row[m].status = "down"
      <3>1. row'[m] = IF Enters(m)
                      THEN [row[m] EXCEPT !.status = "maintenance", !.by = "maintenance"]
                      ELSE IF Leaves(m)
                      THEN [row[m] EXCEPT !.status = "pending", !.by = "none"]
                      ELSE row[m]
        BY <2>2 DEF SweepApply
      <3>2. row[m] \in Row
        BY <1>4
      <3> QED
        BY <2>2, <3>1, <3>2 DEF Row
    <2>3. \A m \in Monitors : TurnWindow(m) => row' = row
      BY DEF TurnWindow, storeVars
    <2>4. SweepResolve \/ UNCHANGED vars => row' = row
      BY DEF SweepResolve, vars, storeVars
    <2> QED
      BY <2>1, <2>2, <2>3, <2>4
  <1> QED
    BY <1>1, <1>2, <1>3, <1>5 DEF DownsKnown

\* Where no result is delivered twice, every verdict of down, stored or on its
\* way into a row, is accounted for.
THEOREM DownsAccounted == ASSUME MaxResends = 0 PROVE Spec => [](TypeInv /\ ToldInv)
  <1>1. TypeInv /\ TypeInv' /\ ToldInv /\ [Next]_vars => ToldInv'
    <2> SUFFICES ASSUME TypeInv, TypeInv', ToldInv, [Next]_vars PROVE ToldInv'
      OBVIOUS
    <2>1. AppliedOnce /\ DownsKnown /\ TypeOK
      BY DEF ToldInv, TypeInv
    <2>2. ASSUME NEW m \in Monitors, NEW o \in Outcomes, Check(m, o) PROVE ToldInv'
      BY <2>1, <2>2, OnceRest, DownsArrivals DEF ToldInv
    <2>3. ASSUME NEW w \in Writers,
                 \/ Deliver(w) \/ Redeliver(w)
                 \/ \E m \in Monitors, o \in Outcomes : CheckNow(w, m, o)
          PROVE  ToldInv'
      BY <2>1, <2>3, OnceArrivals, DownsArrivals DEF ToldInv
    <2>4. ASSUME NEW w \in Writers, Ingest(w) \/ Abandon(w) PROVE ToldInv'
      <3>1. CASE IngestRead(w)
        BY <2>1, <3>1, OnceRest, DownsRead DEF ToldInv
      <3>2. CASE IngestApply(w)
        BY <2>1, <3>2, OnceApply, DownsApply DEF ToldInv
      <3>3. CASE IngestWrite(w)
        BY <2>1, <3>3, OnceWrite, DownsWrite DEF ToldInv
      <3>4. CASE IngestSave(w)
        BY <2>1, <3>4, OnceRest, DownsSave DEF ToldInv
      <3>5. CASE IngestRaise(w) \/ Abandon(w)
        BY <2>1, <3>5, OnceRest, DownsEnd DEF ToldInv
      <3> QED
        BY <2>4, <3>1, <3>2, <3>3, <3>4, <3>5 DEF Ingest
    <2>5. ASSUME \/ \E m \in Monitors, e \in BOOLEAN : SetMonitorEnabled(m, e)
                 \/ \E m \in Monitors : TurnWindow(m)
                 \/ SweepResolve \/ SweepApply \/ UNCHANGED vars
          PROVE  ToldInv'
      BY <2>1, <2>5, OnceRest, DownsOthers DEF ToldInv
    <2> QED
      BY <2>2, <2>3, <2>4, <2>5 DEF Next
  <1>2. Init => ToldInv
    BY OnceInit, DownsInit DEF ToldInv
  <1> QED
    BY <1>1, <1>2, TypesStay, PTL DEF Spec

\* Where no result is delivered twice, a monitor is down with nobody told only
\* if a dependency withheld the alert or an abandoned ingest forgot it, with any
\* number of overlapping ingests (ingestResults).
THEOREM DownAlwaysTold == ASSUME MaxResends = 0 PROVE Spec => []DownIsTold
  <1>1. ToldInv => DownIsTold
    BY DEF ToldInv, DownsKnown, Known, DownIsTold
  <1> QED
    BY <1>1, DownsAccounted, PTL
=============================================================================
