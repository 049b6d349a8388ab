----------------------------- MODULE Monitoring -----------------------------
(***************************************************************************)
(* What becomes of a result once its verdict is known: the tiers it is     *)
(* counted into (Rollup), the pages that follow the instance live          *)
(* (LiveBus), the lists drawn from it (MonitorViews) and the collections   *)
(* a client walks page by page (Listing), under the names by which the     *)
(* monitoring runs and the proofs refer to them. The four share no         *)
(* variable.                                                               *)
(***************************************************************************)
EXTENDS Naturals, FiniteSets, Sequences

CONSTANTS
    Nothing,        \* no value
    (* The tiers. *)
    RollupEnd, RollupBeats, LateBeats, Width, Reprocess, Grace, MaxBuckets,
    RawKept, FineKept, DeleteBatch, RollupErrors, RollupDeletions,
    (* The live pages. *)
    Browsers,       \* the event streams that are open
    Watched,        \* the monitors a stream may follow
    LiveIngests,    \* the ingests that publish transitions
    BufferDepth, MaxTransitions, MaxScopes, MaxLiveErrors,
    (* The lists. *)
    Listed,         \* the monitors of the lists
    Groups, Strip, ViewsBeats, ViewsEnd, ViewsWrites, Spans,
    (* The collections. *)
    ListRows, ListOwner, ListsEnd, ListsWrites, DefaultLimit, MaxLimit

VARIABLES
    rollupNow, raw, tier, pass, monitor, rollupErrors, rollupSeen, excused,
    stragglers,
    counts, dirty, stream, chan, scope, subs, task, shown, missed, moved,
    crashed, scopes, liveErrors,
    monitors, viewsBeats, parent, viewsNow, viewsWrites, request, page,
    strips, summary, still, polls,
    handler, rows, listsNow, cursor, got, phase, listsWrites, twins

Tiers == INSTANCE Rollup WITH
    now <- rollupNow, errors <- rollupErrors, seen <- rollupSeen,
    MaxNow <- RollupEnd, MaxBeats <- RollupBeats, MaxLate <- LateBeats,
    KeepRaw <- RawKept, KeepFine <- FineKept, MaxErrors <- RollupErrors,
    MaxDeletions <- RollupDeletions
Live == INSTANCE LiveBus WITH
    errors <- liveErrors, Streams <- Browsers, Monitors <- Watched,
    Ingests <- LiveIngests, MaxErrors <- MaxLiveErrors, None <- Nothing
Views == INSTANCE MonitorViews WITH
    beats <- viewsBeats, now <- viewsNow, writes <- viewsWrites,
    Monitors <- Listed, MaxBeats <- ViewsBeats, MaxTime <- ViewsEnd,
    MaxWrites <- ViewsWrites, None <- Nothing
Lists == INSTANCE Listing WITH
    now <- listsNow, writes <- listsWrites, Rows <- ListRows, Owner <- ListOwner,
    MaxTime <- ListsEnd, MaxWrites <- ListsWrites, None <- Nothing

ASSUME TiersAssumption == Tiers!RollupAssumption
ASSUME ViewsAssumption == Views!ViewsAssumption
ASSUME ListsAssumption == Lists!ListingAssumption

\* When nothing is on its way every open browser shows counts no older than
\* the last transition announced (live.go, summary.go).
HeaderIsRight == Live!HeaderIsRight

\* A heartbeat that retention deletes was counted into the fine tier
\* first, unless the reason is named (rollup.go, Run and Retain).
DeletedWasCounted == Tiers!DeletedWasCounted

\* A chart drawn from raw heartbeats shows what the tier would have shown
\* (history.go, RawCovers).
HistoryIsComplete == Tiers!HistoryIsComplete

\* A group says down whenever a monitor in or under it was down throughout
\* the request (taxonomy.go, groupSummaries).
GroupTellsTheWorst == Views!GroupTellsTheWorst

\* A row nobody touched is in exactly one page of a walk, whatever is
\* written meanwhile (store.go, DecodeCursor).
WalkIsComplete == Lists!WalkIsComplete
=============================================================================
