\* Two emitters, both bounds of the buffer, one dropped stream, one failed ingest.
CONSTANTS
    Emitters = {e1, e2}
    MaxItems = 2
    MaxBytes = 3
    Sizes = {1, 2}
    BatchMax = 2
    MaxResults = 3
    MaxInFlight = 1
    MaxDrops = 1
    MaxFailures = 1
SPECIFICATION Spec
INVARIANTS
    LossIsExplained SentIsCovered
