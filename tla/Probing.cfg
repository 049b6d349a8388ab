SPECIFICATION AnyFairSpec
CONSTANTS
    Parts = {"schedule", "checks", "domains"}
    Domains = {d1}  Attempts = {a1, a2}  Day = 2  Hour = 1  PruneAfter = 3
    MaxTime = 2  MaxChanges = 1  Threshold = 1  Timeout = 4
    ScheduleRetries = 1  MaxConcurrent = 1  MaxLag = 2
    None = None  often = often  seldom = seldom  d1 = d1  a1 = a1  a2 = a2
INVARIANTS VerdictIsRight AnswersAreFresh
PROPERTY KeepsComingUp
CHECK_DEADLOCK FALSE
