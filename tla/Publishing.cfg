SPECIFICATION AnySpec
CONSTANTS
    Parts = {"schedules", "admin", "figures", "artifacts", "pages", "readers"}
    Pages = {p1}  Ids = {i1, i2}  Targets = {t1, t2}  Workers = {w1, w2}
    Requests = {reader}  QueueDepth = 1  Attempts = 2  Legacy <- MCLegacy
    MaxTokens = 2  MaxBulletins = 2  MaxSwitches = 1
    Firings = {firing1, firing2}  Runners = {runner}  PoolDepth = 1  MaxSends = 2
    MaxFirings = 1  MaxTargetEdits = 1  Runs = {run1, run2}  Formats = {pdf, csv}
    Asked <- MCAsked  Renderers = {w1, w2}  SweepBatch = 2  NoFormat = None
    MaxReportErrors = 1  MaxReportCrashes = 1  NoRun = None
    Brands = {brand1, brand2}  Templates = {t1}  Schedules = {s1}  Reports = {run1}
    Links = {k1, k2}  Editors = {q1, q2}  TemplateFormats = {"pdf"}
    TemplateBodies <- TemplateWrites  ShareWindow = 2  MaxShareRequests = 1
    MaxAdminTime = 1  MaxAdminWrites = 3  MaxLosses = 1
    StatusSites = {p1, p2}  PageMonitors = {m1}  Incidents = {i1}  Slugs = {slug1}
    Hostnames = {d1}  IncidentStates = {"open", "resolved"}
    MaxPageWrites = 3  MaxEntries = 2  Nobody = None
    None = None  run1 = run1  run2 = run2  firing1 = firing1  firing2 = firing2
    runner = runner  w1 = w1  w2 = w2  q1 = q1  q2 = q2
    brand1 = brand1  brand2 = brand2  k1 = k1  k2 = k2  s1 = s1  t1 = t1  t2 = t2
    m1 = m1  m2 = m2  g1 = g1  g2 = g2  tag = tag
    p1 = p1  p2 = p2  i1 = i1  i2 = i2  slug1 = slug1  d1 = d1  pdf = pdf  csv = csv
INVARIANTS
    OneRunPerFiring QueuedIsUnderWay BrandsStay WholeDaysAreExact DomainsFollowWrites
    NoDanglingRow ConsentKept LinksWork
CHECK_DEADLOCK FALSE
SYMMETRY Symmetry
