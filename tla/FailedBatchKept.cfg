\* One emitter and one failing ingest; the stream stays up.
CONSTANTS
    Emitters = {e1}
    MaxItems = 3
    MaxBytes = 9
    Sizes = {1}
    BatchMax = 1
    MaxResults = 2
    MaxInFlight = 1
    MaxDrops = 0
    MaxFailures = 1
SPECIFICATION Spec
INVARIANT FailedBatchKept
