\* A gap longer than the bound of one pass.
SPECIFICATION TiersFairSpec
CONSTANTS
    Parts = {"rollup"}
    NoMonitor = None  Monitors <- MCMonitors  Parent <- MCParent  Retries <- MCRetries
    MaxDepth = 2  ResendAfter = 1  NotifyRecovery = TRUE  Writers = {w1, w2}
    BatchMax = 2  MaxChecks = 3  MaxManual = 1  MaxResends = 0
    MaxAbandons = 1  MaxToggles = 0  MaxWindows = 0
    Browsers = {b1}  Watched = {router}  LiveIngests = {i1}  BufferDepth = 1
    MaxTransitions = 2  MaxScopes = 1  MaxLiveErrors = 1  Nothing = None
    Width <- MCWidth  Reprocess <- MCWidth  Grace = 1  MaxBuckets = 2  DeleteBatch = 2
    Listed = {m1, m2}  Groups = {g1, g2}  Strip = 1  ViewsBeats = 1  ViewsEnd = 1
    ViewsWrites = 1  Spans <- MCSpans
    ListRows = {1, 2, 3}  ListOwner <- MCOwner  ListsEnd = 2  ListsWrites = 2  DefaultLimit = 1  MaxLimit = 2
    RollupEnd = 8  RollupBeats = 2  LateBeats = 0  RawKept = 9  FineKept = 9
    RollupErrors = 0  RollupDeletions = 0
    None = None  router = router  service = service
    b1 = b1  m1 = m1  m2 = m2  i1 = i1  g1 = g1  g2 = g2
PROPERTY CatchesUp
