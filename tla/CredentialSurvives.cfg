\* A PATCH that does not name the credential.
SPECIFICATION AnySpec
CONSTANTS
    Parts = {"config"}
    Monitors = {m1, m2}  Groups = {g1, g2}  Tags = {label}  Channels = {channel}
    Requests = {r1, r2}  MaxDepth = 2  MaxWrites = 2
    Callers = {r1, r2}  Absent = None  LastInstant = 1
    Emails = {email}  TotpSecrets = {s1, s2}  CodesIssued = 1  MaxConfirmations = 2
    LoginAttempts = 1  LoginWindow = 1  SessionLifetime = 1
    Keys = {k1, k2}  Scopes <- AllScopes  KeyWrite <- KeysWrite  ScopeSets <- ScopeRequests
    WindowIds = {window1}  Silenceable = {wm1, wm2}  WindowTargets = {target1, target2}
    WindowWriters = {operator}  WindowBodies <- PlannedBodies  WindowCovers <- PlannedCovers
    DayTicks = 2  DaysAhead = 5  LongestWindow = 8  WeekdayOf <- MCWeekday  MonthdayOf <- MCDayOfMonth
    WindowsEnd = 5  WindowsWrites = 2  WindowsMoves = 1  SweepFailures = 1
    KumaUploads <- ImportUploads  ConflictStrategies = {"rename", "skip"}
    InstalledRows <- ImportInstalled  RowsMeanwhile <- ImportMeanwhile  TagSlug <- ImportSlug
    LastSuffix = 3  KumaJobs = 2  WritesMeanwhile = 1  KumaFailures = 1
    None = None  r1 = r1  r2 = r2  email = email  s1 = s1  s2 = s2  k1 = k1  k2 = k2
    m1 = m1  m2 = m2  g1 = g1  g2 = g2  label = label  channel = channel
    operator = operator  window1 = window1  wm1 = wm1  wm2 = wm2  target1 = target1  target2 = target2
PROPERTY CredentialSurvives
