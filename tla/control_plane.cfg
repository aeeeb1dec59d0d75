\* Two concurrent requests in each part; crashes, refusals and lost answers anywhere.
SPECIFICATION ControlPlaneSpec
CONSTANTS
  q1 = q1
  q2 = q2
  x1 = x1
  x2 = x2
  x3 = x3
  g1 = g1
  g2 = g2
  r1 = r1
  p1 = p1
  p2 = p2
  p3 = p3
  Domains = {x1, x2, x3}
  HostnameOf <- HostnamesOfRows
  DomainRequests = {q1, q2}
  NoDomain = NoDomain
  PolicyRequests = {q1, q2}
  Worker1 = Worker1
  MaxSaves = 2
  PolicyAttempts = 2
  NoHolder = NoHolder
  Incidents = {x1, x2}
  Triagers = {q1, q2}
  NoIncident = NoIncident
  Users = {x1, x2, x3}
  MemberRequests = {q1, q2}
  NoUser = NoUser
  Backups = {x1, x2}
  Restores = {r1}
  DataRequests = {q1, q2}
  Limit = 1
  Hand = Hand
  DataAttempts = 2
  NoWork = NoWork
  NoHand = NoHand
  VarKeys = {x1, x2}
  VarRequests = {q1, q2}
  MaxSets = 2
  NoVar = NoVar
  Pushes = {p1, p2, p3}
  Previews = {p2, p3}
  Hooks = {q1, q2}
  NoPush = NoPush
  Databases = {x1, x2}
  Dumps = {p1}
  NoDatabase = NoDatabase
  NoDump = NoDump
  Clients = {q1, q2}
  DbPorts = {1, 2}
  NoDbPort = 0
  MaxDbCalls = 3
  MaxDbStarts = 1
  Persons = {p1}
  Organizations = {x1, x2}
  AccessRequests = {q1, q2}
  Keys = {r1}
  MaxRoleChanges = 2
  RolesGiven = {"none", "admin"}
  ScopesTried <- ScopesAsked
  ProceduresCalled <- ProceduresTried
  NoKey = NoKey
  Nowhere = Nowhere
  Editors = {q1, q2}
  Orders = {x1, x2}
  Changes <- ProjectChanges
  OwnDirectories <- DirectoriesGiven
  CarryAttempts = 2
  Same = Same
  NoTarget = NoTarget
  PageSize = 2
  MaxRows = 7
  MaxReads = 4
  MaxLines = 2
  Routes = {p1, p2}
  MaxOpenings = 2
  MaxPresses = 2
  MaxLoads = 2
SYMMETRY Interchangeable
INVARIANTS ControlPlaneType HostnamesAgree PolicyIsTrue OwnerRemains DataHolds BuildsWithStored MadeAsProject AcceptedIsQueued DatabasesStand ShowsHistory HeardIsShown OpeningsKeepApart
PROPERTIES IncidentsMoveForward ActsAsGranted
CHECK_DEADLOCK FALSE
