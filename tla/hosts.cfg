\* Two deploys and one other request of the runtime; two calls of the router at a
\* time; a restart of either; an artifact loaded while the rules change twice; two
\* postures saved while hostnames are published and the policy applied.
SPECIFICATION HostsSpec
CONSTANTS
  a1 = a1
  a2 = a2
  x1 = x1
  x2 = x2
  h1 = h1
  e1 = e1
  e2 = e2
  w1 = w1
  w2 = w2
  c1 = c1
  c2 = c2
  s1 = s1
  s2 = s2
  p1 = p1
  p2 = p2
  Apps = {a1, a2}
  ImageApps = {a2}
  Attempts = {x1, x2}
  NoAttempt = NoAttempt
  Hosts = {h1}
  HostApp <- HostsOf
  Control = Control
  Ports = {1, 2}
  NoPort = NoPort
  BuildJobs = {1, 2}
  NoKey = NoKey
  MaxServed = 1
  MaxRestarts = 1
  Names = {h1}
  NoName = NoName
  Calls = {x1, x2}
  Renewer = Renewer
  MaxRoutes = 2
  MaxCerts = 2
  MaxRouterStarts = 1
  Addresses = {e1, e2}
  Words = {w1, w2}
  Internal = Internal
  Bots <- Directory
  DenyChoices <- BlockAndAgent
  TrustChoices <- OneSource
  PolicyChoices <- SavedPolicies
  Scores = {0, 1, 4}
  MaxRuleChanges = 2
  Sites = {s1, s2}
  NoSite = NoSite
  Projects = {p1, p2}
  ProjectOf <- ProjectsOf
  PostureRequests = {x1, x2}
  MaxPostures = 2
SYMMETRY Interchangeable
INVARIANTS HostsType   BareSaysWhy FileFollows EdgeDoesAsStored PosturesHold
CHECK_DEADLOCK FALSE
