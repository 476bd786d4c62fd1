CONSTANTS
  main = main
  admin = admin
  q1 = q1
  q2 = q2
  k1 = k1
  g1 = g1
  b1 = b1
  n1 = n1
  MainProcs = {main}
  AdminProcs = {admin}
  Requests = {q1, q2}
  GrantKeys = {k1}
  SubjectOf <- MCSubjectOf
  PutLevels = {0}
  GroupKeys = {k1}
  SeedGrants <- MCSeedGrants
  RoleNames = {b1, n1}
  BuiltinRoles = {b1}
  Absent = Absent
  NoVersion = NoVersion
  Idle = Idle
  TTL = 1
  CallMax = 1
  VersionTTL = 3
  MaxClock = 4
  MaxEvents <- MCMaxEvents
  ga = ga
  gA = gA
  gb = gb
  role = role
  viewer = viewer
  user = user
  Spellings = {ga, gA, gb}
  Fold <- MCFold
  CustomRole = role
  BaseRole = viewer
  UserId = user
  EditLevels = {0, 3}
  NoGrant = NoGrant
  e1 = e1
  e2 = e2
  w1 = w1
  w2 = w2
  GlossaryRequests = {e1, e2}
  Collections = {"c"}
  DefaultCollection = "default"
  Words = {w1, w2}
  Detected <- MCDetected
  MaxRowId = 3
  Addresses = {"address"}
  MaxRequests = 2
  Window = 4
  TicksPerSecond = 2
  LastTick = 9
SYMMETRY Interchangeable
SPECIFICATION AdministrationSpec
INVARIANTS AdministrationTypeOK StaleReadsBounded AnnouncedWriteIsRead OldDecisionStands SourcesExplainTheLevel MatrixShowsWhatIsEnforced DuplicatesNeedARace RateBounded RetryHonest
PROPERTIES RolesKeepTheirLife GroupDeletionRevokesNothing
CHECK_DEADLOCK FALSE
