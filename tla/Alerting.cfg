SPECIFICATION AnyFairSpec
CONSTANTS
    Parts = {"alerts", "monitors", "channels", "hooks"}
    Events = {event}  Sample = Sample  Channels = {1, 2}
    Workers = {w1, w2}  Testers = {tester}
    QueueDepth = 1  MaxAttempts = 2
    MaxRequests = 1  MaxErrors = 1  MaxStops = 1
    Hooks = {h1}  Occurrences = {e1, e2}  HookWorkers = {w1, w2}  HookDepth = 1
    HookAttempts = 2  MaxFailures = 2  MaxHookStops = 1  MaxEdits = 1
    MaxHookResends = 1  NoHook = None
    Destinations = {c1, c2}  Patches = {q1, q2}  Drafts <- ChannelBodies  Echoes <- ChannelEchoes
    Words <- ChannelWords  MaxChannelWrites = 3  MaxChannelSends = 1  MaxSwitches = 1
    None = None  w1 = w1  w2 = w2  h1 = h1  e1 = e1  e2 = e2
    q1 = q1  q2 = q2  c1 = c1  c2 = c2  router = router  service = service
INVARIANTS
    NeverDuplicated NeverForgotten ReadsAreSafe OneAttemptAtATime
PROPERTIES AlertsSettle MaintenanceEnds
CHECK_DEADLOCK FALSE
