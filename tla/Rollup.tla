------------------------------- MODULE Rollup -------------------------------
(***************************************************************************)
(* The rollup pipeline and what is read from it: heartbeats are counted    *)
(* into a fine tier, the fine tier into a coarse one, retention deletes    *)
(* from all three, a deleted monitor's history is purged, and a history    *)
(* request picks raw heartbeats or a tier (internal/rollup,                *)
(* internal/store/sqlite/rollup.go and history.go).                        *)
(*                                                                         *)
(* A heartbeat is the tick it was taken at.  A bucket's counts are the set *)
(* of heartbeats counted into it: every column is a sum, minimum or        *)
(* maximum over them, and an empty set is a bucket with no row.  Two tiers *)
(* stand for the four, as each is computed from the one below by the same  *)
(* code.  The pipeline is one goroutine and every statement of it one      *)
(* transaction.                                                            *)
(***************************************************************************)
EXTENDS Naturals, FiniteSets, FiniteSetsExt

CONSTANTS
    MaxNow,         \* the last tick
    MaxBeats,       \* heartbeats recorded
    MaxLate,        \* how long after it was taken a heartbeat may arrive
    Width,          \* Interval of each tier
    Reprocess,      \* how far behind its newest bucket a tier starts again
    Grace,          \* how long a bucket has been closed before it is counted
    MaxBuckets,     \* maxBucketsPerRun
    KeepRaw,        \* retention of heartbeats
    KeepFine,       \* retention of the fine tier; the coarse one is kept
    DeleteBatch,    \* rows of one delete
    MaxErrors, MaxDeletions

RollupAssumption ==
    /\ \A n \in {MaxNow, MaxBeats, MaxLate, Grace, MaxBuckets, KeepRaw, KeepFine,
                 DeleteBatch, MaxErrors, MaxDeletions} : n \in Nat
    /\ \A t \in {"fine", "coarse"} : Width[t] \in Nat \ {0} /\ Reprocess[t] \in Nat
    /\ KeepFine >= KeepRaw      \* Retention.Validate
    /\ KeepRaw >= Grace + Width["fine"]   \* ... and raw_days is at least 1

VARIABLES
    now,
    raw,        \* heartbeats
    tier,       \* the rows of heartbeat_1m (fine) and heartbeat_1d (coarse)
    pass,       \* the pass under way: its stage, its clock, whether it is behind
    monitor,    \* "live", "deleted" (purge queued) or "purged"
    errors,
    seen,       \* ghost: every heartbeat recorded
    excused,    \* ghost: heartbeats whose absence from a tier has a named reason
    stragglers  \* ghost: heartbeats written after their monitor was deleted

vars == <<now, raw, tier, pass, monitor, errors, seen, excused, stragglers>>

Ticks == 0 .. MaxNow
Tiers == {"fine", "coarse"}

\* rollup.Bucket: a time floored to its bucket's start.
Bucket(time, t) == (time \div Width[t]) * Width[t]

Starts(t) == {b \in Ticks : b = Bucket(b, t)}

Idle  == [pc |-> "idle", at |-> 0, behind |-> FALSE]

TypeOK ==
    /\ now \in Ticks /\ errors \in 0 .. MaxErrors
    /\ raw \subseteq seen /\ seen \subseteq Ticks
    /\ DOMAIN tier = Tiers
    /\ \A t \in Tiers : tier[t] \in [Starts(t) -> SUBSET seen]
    /\ pass \in [pc : {"idle", "fine", "coarse", "raw", "buckets", "purge"},
                 at : Ticks, behind : BOOLEAN]
    /\ monitor \in {"live", "deleted", "purged"}
    /\ excused \subseteq seen /\ stragglers \subseteq seen

Init ==
    /\ now = 0 /\ raw = {} /\ tier = [t \in Tiers |-> [b \in Starts(t) |-> {}]]
    /\ pass = Idle /\ monitor = "live" /\ errors = 0
    /\ seen = {} /\ excused = {} /\ stragglers = {}

-----------------------------------------------------------------------------
(* Buckets and the window of a pass.                                        *)

Back(time, by) == IF time > by THEN time - by ELSE 0

\* The starts of the rows of a tier, and the times its source has data for.
Rows(t)   == {b \in Starts(t) : tier[t][b] # {}}
Source(t) == IF t = "fine" THEN raw ELSE Rows("fine")

MutFrom(t) == IF Rows(t) # {} THEN Max(Rows(t)) ELSE Min(Source(t))

\* Where a pass starts in a tier: its newest bucket wound back, or the oldest
\* thing there is to count.
From(t) == Bucket(IF Rows(t) # {} THEN Back(Max(Rows(t)), Reprocess[t])
                                  ELSE Min(Source(t)), t)

\* Only buckets that have been closed for the grace period.
Closed(t) == Bucket(Back(pass.at, Grace), t)

Limit(t) == From(t) + MaxBuckets * Width[t]

\* Runner.window: the buckets this pass computes.
Window(t) ==
    IF Rows(t) = {} /\ Source(t) = {} THEN {}
    ELSE {b \in Starts(t) : b >= From(t) /\ b < Closed(t) /\ b < Limit(t)}

\* The bound on catch-up left closed buckets for the next pass.
Capped(t) == (Rows(t) # {} \/ Source(t) # {}) /\ Limit(t) < Closed(t)

\* RollUpRaw and RollUpTier: a full recount of a bucket from its source.
Recount(t, b) ==
    IF t = "fine"
      THEN {h \in raw : Bucket(h, t) = b}
      ELSE UNION {tier["fine"][c] : c \in {c \in Rows("fine") : Bucket(c, t) = b}}

\* The upsert: a bucket whose source is gone gives no row, and the old one stays.
Upserted(t) ==
    LET window == Window(t) IN
    [b \in Starts(t) |-> IF b \in window /\ Recount(t, b) # {} THEN Recount(t, b)
                         ELSE tier[t][b]]

\* Counted before the recount and not after it.
Forgotten(t) ==
    LET after == Upserted(t) IN UNION {tier[t][b] \ after[b] : b \in Starts(t)}

-----------------------------------------------------------------------------
(* The pass.                                                                *)

Fails == errors < MaxErrors /\ errors' = errors + 1

\* The ticker fires and Run takes the time once.
StartPass ==
    /\ pass.pc = "idle"
    /\ pass' = [pc |-> "fine", at |-> now, behind |-> FALSE]
    /\ UNCHANGED <<now, raw, tier, monitor, errors, seen, excused, stragglers>>

\* Rollup, one tier: finest first.  An error ends the stage, not the pass.
RollUp(t) ==
    /\ pass.pc = t
    /\ \/ /\ tier' = [tier EXCEPT ![t] = Upserted(t)]
          /\ excused' = excused \cup Forgotten(t)
          /\ pass' = [pass EXCEPT !.pc = IF t = "fine" THEN "coarse" ELSE "raw",
                                  !.behind = @ \/ (t = "fine" /\ Capped(t))]
          /\ UNCHANGED errors
       \/ /\ Fails
          /\ pass' = [pass EXCEPT !.pc = "raw", !.behind = @ \/ t = "fine"]
          /\ UNCHANGED <<tier, excused>>
    /\ UNCHANGED <<now, raw, monitor, seen, stragglers>>

Expired(keep) == {h \in Ticks : h + keep < pass.at}

\* A batch of expired heartbeats, until one comes back short.
RetainRaw ==
    /\ pass.pc = "raw"
    /\ LET gone == raw \cap Expired(KeepRaw) IN
       \E batch \in SUBSET gone :
         /\ Cardinality(batch) = IF Cardinality(gone) < DeleteBatch
                                   THEN Cardinality(gone) ELSE DeleteBatch
         /\ raw' = raw \ batch
         /\ excused' = IF pass.behind THEN excused \cup batch ELSE excused
         /\ pass' = [pass EXCEPT !.pc = IF Cardinality(batch) < DeleteBatch
                                          THEN "buckets" ELSE "raw"]
    /\ UNCHANGED <<now, tier, monitor, errors, seen, stragglers>>

\* The same for the fine tier, by bucket start.
RetainBuckets ==
    /\ pass.pc = "buckets"
    /\ LET gone == Rows("fine") \cap Expired(KeepFine) IN
       \E batch \in SUBSET gone :
         /\ Cardinality(batch) = IF Cardinality(gone) < DeleteBatch
                                   THEN Cardinality(gone) ELSE DeleteBatch
         /\ tier' = [tier EXCEPT !["fine"] =
                       [b \in Starts("fine") |-> IF b \in batch THEN {} ELSE @[b]]]
         /\ pass' = [pass EXCEPT !.pc = IF Cardinality(batch) < DeleteBatch
                                          THEN "purge" ELSE "buckets"]
    /\ UNCHANGED <<now, raw, monitor, errors, seen, excused, stragglers>>

\* Retain gives up at an error and the pass goes on to the purge.
RetainFails ==
    /\ pass.pc \in {"raw", "buckets"} /\ Fails
    /\ pass' = [pass EXCEPT !.pc = "purge"]
    /\ UNCHANGED <<now, raw, tier, monitor, seen, excused, stragglers>>

\* Purge and PurgeNext: the first table of the chain that holds rows of the
\* queued monitor is emptied; the entry is dequeued when every table is empty.
PurgeNext ==
    /\ pass.pc = "purge"
    /\ IF monitor # "deleted"
         THEN pass' = Idle /\ UNCHANGED <<raw, tier, monitor>>
         ELSE /\ UNCHANGED pass
              /\ IF raw # {} THEN raw' = {} /\ UNCHANGED <<tier, monitor>>
                 ELSE IF Rows("fine") \cup Rows("coarse") = {}
                   THEN monitor' = "purged" /\ UNCHANGED <<raw, tier>>
                   ELSE LET t == IF Rows("fine") # {} THEN "fine" ELSE "coarse" IN
                        /\ tier' = [tier EXCEPT ![t] = [b \in Starts(t) |-> {}]]
                        /\ UNCHANGED <<raw, monitor>>
    /\ UNCHANGED <<now, errors, seen, excused, stragglers>>

\* A purge that fails leaves its entry queued for the next pass.
PurgeFails ==
    /\ pass.pc = "purge" /\ Fails
    /\ pass' = Idle
    /\ UNCHANGED <<now, raw, tier, monitor, seen, excused, stragglers>>

-----------------------------------------------------------------------------
(* Everyone else.                                                           *)

TimePasses ==
    /\ now < MaxNow
    /\ now' = now + 1
    /\ UNCHANGED <<raw, tier, pass, monitor, errors, seen, excused, stragglers>>

\* WriteBatch: a result may be replayed late, and an ingest that had accepted it
\* writes it though its monitor has been deleted since: nothing ties the row to
\* one.  Later than the reprocessed stretch it is not counted, and past its
\* retention the pass under way may delete it first.
Record(h) ==
    /\ h <= now /\ now - h <= MaxLate
    /\ h \notin seen /\ Cardinality(seen) < MaxBeats
    /\ monitor = "live" \/ stragglers = {}
    /\ raw' = raw \cup {h} /\ seen' = seen \cup {h}
    /\ excused' = IF \/ Rows("fine") # {} /\ Bucket(h, "fine") < From("fine")
                     \/ h + KeepRaw < now
                    THEN excused \cup {h} ELSE excused
    /\ stragglers' = IF monitor = "live" THEN stragglers ELSE stragglers \cup {h}
    /\ UNCHANGED <<now, tier, pass, monitor, errors>>

\* DeleteMonitor: the purge is queued in the transaction that deletes the row.
DeleteMonitor ==
    /\ monitor = "live" /\ MaxDeletions > 0
    /\ monitor' = "deleted"
    /\ UNCHANGED <<now, raw, tier, pass, errors, seen, excused, stragglers>>

Pass == StartPass \/ RollUp("fine") \/ RollUp("coarse") \/ RetainRaw
        \/ RetainBuckets \/ RetainFails \/ PurgeNext \/ PurgeFails

Next == Pass \/ TimePasses \/ DeleteMonitor \/ \E h \in Ticks : Record(h)

Spec == Init /\ [][Next]_vars

\* The pipeline's ticker ticks and its statements return; time does not stop.
FairSpec == Spec /\ WF_vars(Pass) /\ WF_vars(TimePasses)

-----------------------------------------------------------------------------
(* Reading history.                                                         *)

MutRawCovers(from, t) == raw # {}

\* RawCovers: whether raw heartbeats answer a range as completely as a tier.
RawCovers(from, t) ==
    /\ raw # {}
    /\ \/ Min(raw) <= from
       \/ Rows(t) = {}
       \/ Min(Rows(t)) >= Bucket(Min(raw), t)

\* readHistory: the heartbeats counted in the answer for [from, to).
History(from, to, t) ==
    IF RawCovers(from, t)
      THEN {h \in raw : h >= from /\ h < to}
      ELSE UNION {tier[t][b] : b \in {b \in Starts(t) : b >= from /\ b < to}}

\* DailyUptime: the coarse tier's days, and from raw the ones it has no row for,
\* looked for from its newest day on.
DailyUptime ==
    LET newest == IF Rows("coarse") = {} THEN 0 ELSE Max(Rows("coarse"))
        days   == {Bucket(h, "coarse") : h \in {h \in raw : h >= newest}}
    IN [d \in Rows("coarse") \cup days |->
          IF d \in Rows("coarse") THEN tier["coarse"][d]
          ELSE {h \in raw : h >= newest /\ Bucket(h, "coarse") = d}]

-----------------------------------------------------------------------------
Counted == UNION {UNION {tier[t][b] : b \in Starts(t)} : t \in Tiers}

(* A heartbeat that retention has deleted was counted first: it is in the   *)
(* fine tier until that expires too.  The reasons it may be missing are all *)
(* named: it arrived behind the reprocessed stretch or past its retention,  *)
(* the pass that deleted it was behind (window's bound, or a failed         *)
(* statement), or its bucket was recounted after a part of its source had   *)
(* been deleted.                                                            *)
DeletedWasCounted ==
    monitor = "live" =>
      \A h \in seen \ (raw \cup excused) :
        \/ h \in tier["fine"][Bucket(h, "fine")]
        \/ Bucket(h, "fine") + KeepFine < now

(* Unless a delete is under way or failed half-way, a chart of a monitor    *)
(* drawn from raw heartbeats shows what the tier it replaces would have     *)
(* shown.  The one bucket that may be short is that of the oldest           *)
(* heartbeat, which retention deletes in the middle; and the uptime bar     *)
(* shows every day from the newest rolled-up one on.                        *)
HistoryIsComplete ==
    /\ \A t \in Tiers, from \in 0 .. now :
         monitor = "live" /\ pass.pc # "raw" /\ errors = 0 /\ RawCovers(from, t) =>
           \A b \in Rows(t) : b >= from /\ b # Bucket(Min(raw), t)
             => tier[t][b] \subseteq raw
    /\ \A h \in raw : Rows("coarse") = {} \/ h >= Max(Rows("coarse"))
         => Bucket(h, "coarse") \in DOMAIN DailyUptime

(* When a deleted monitor's purge is dequeued nothing of it is left in any  *)
(* table, but for what an ingest in flight wrote after the deletion.        *)
PurgeIsThorough ==
    monitor = "purged" =>
      raw \cup Counted \subseteq stragglers

(* What the comment on the bound of catch-up says: "a long backfill makes   *)
(* progress every tick", so a heartbeat whose bucket closes is counted in   *)
(* the end, if it did not come too late for that.                           *)
CatchesUp ==
    \A h \in {h \in Ticks : h < Bucket(Back(MaxNow, Grace), "fine")} :
      (h \in raw \ excused) ~> (h \in Counted)
=============================================================================
