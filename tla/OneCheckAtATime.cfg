\* Two updates against two workers.
SPECIFICATION AnySpec
CONSTANTS
    Parts = {"schedule"}
    Domains = {d1}  Attempts = {a1, a2}  Day = 2  Hour = 1  PruneAfter = 3
    MaxTime = 2  MaxChanges = 1  Threshold = 1  Timeout = 4
    ScheduleRetries = 0  MaxConcurrent = 2  MaxLag = 3
    None = None  often = often  seldom = seldom  d1 = d1  a1 = a1  a2 = a2
INVARIANT OneCheckAtATime
