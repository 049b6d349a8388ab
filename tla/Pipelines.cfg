SPECIFICATION AnyFairSpec
CONSTANTS
    Parts = {"ids", "delivery", "assignments", "artifacts"}
    Callers = {p1, p2}  CounterSize = 4  SeedSize = 2  MaxIds = 5  MaxMillis = 2
    Monitors = {m1, m2}  Bodies = {good, bad}  Valid = {good}  NoBody = none
    ChunkSize = 1  MaxEdits = 2  MaxFrames = 2  MaxStreamDrops = 1  MaxErrors = 1
    e1 = e1  m1 = m1  m2 = m2  good = good  bad = bad  none = none
    monthly = monthly  daily = daily  pdf = pdf  csv = csv  w1 = w1  w2 = w2
INVARIANTS IdsIncrease HoldsASnapshot
PROPERTIES IsDurableOutbox BufferDrains Converges OrphansReclaimed
CHECK_DEADLOCK FALSE
