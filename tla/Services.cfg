\* Notifications and mails, the platform's jobs, identity and access, clients.
CONSTANTS
  Submissions = {s1, s2}
  MaxNotifications = 2
  MaxPushes = 3
  Requests = {r1, r2}
  Workers = {w1, w2}
  MaxMessages = 3
  MaxLostMailers = 2
  MaxMailFaults = 1
  Recorders = {e1, e2}
  MaxTick = 6
  Lookback = 1
  Provisions = {p1, p2}
  TenantSlugs = {t1, t2}
  MaxRedelivery = 2
  Uploads = {f1}
  Samples <- FewSamples
  Servers = {h1, h2}
  Consumers = {w1, w2}
  MaxHooks = 3
  MaxFlips = 3
  Callers = {c1, c2}
  MaxFamilies = 2
  MaxTokens = 3
  NoToken = NoToken
  Handlers = {q1, q2}
  SignIns = {u1, u2}
  MaxRefresh = 1
  Validations = {v1, v2}
  MaxRotations = 2
  Calls = {i1, i2}
  Layers = {"gateway", "middleware"}
  PlanLimit = 2
  Default = 1
  Window = 2
  Ttl = 3
  MaxClock = 3
  MaxRequests = 3
  Users = {n1}
  Emails = {m1}
  KeyRows = {k1}
  Logins = {f1}
  ScimRequests = {r1, r2}
  Size = 3
  PageSize = 1
  Relevance <- Similarities
  Title <- Titles
  RowCounts = {0, 1, 2, 3, 4, 5}
  MaxVersions = 3
  RowsPerPage = 2
  MaxIngests = 3
  Threshold = 70
  TotalChunks = 2
  ChunkRequests = {q1, q2}
  MaxCompletions = 2
SPECIFICATION ServicesSpec
INVARIANTS
  InboxIntact
  BreachIsAnnounced
  MailedPerWorker
  RollupCounts
  OutageIsContained
  RetiredStaysDead
  EndedStaysEnded
  IndexCoversSessions
  ListedKeyIsFound
  WindowHolds
  DeprovisionIsWhole
  WalkIsComplete
  OneVersionIsWhole
  AnswerIsOfItsVersion
  MarkIsStored
  AckedIsCounted
PROPERTIES
  ImplementsTenancy
  DoorsKeepQueue
CHECK_DEADLOCK FALSE
