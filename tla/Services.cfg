SPECIFICATION Spec
CONSTANTS
  Sensors = {x1, x2}
  ConnectionPool = connection_pool
  Capacity = 4
  MaxFrames = 5
  MaxConnections = 4
  Devices = {m1, m2, m3}
  Addresses = {a1, a2}
  Dotted = {a1}
  MaxProfiles = 2
  Powers <- TwoPowers
  MaxIntervals = 4
  StaleTtl = 2
  Burst = 2
  MinSamples = 3
  AnomalySigma = 1
  Horizon = 4
  MaxRequests = 4
  r1 = r1
  r2 = r2
  Requests = {r1, r2, m1, m2, m3}
  Pools = {0, 1, 2}
  Shared = 0
  PoolMax <- OneEach
  TierOf <- TwoTiers
  Drains = {x1, x2}
  MaxTroubles = 1
  MintCalls = {m1, m2, m3}
  Batches = {b1, b2}
  Lockable = {b1}
  ListenerBatch = b2
  PoolClients = 3
  MaxMintFaults = 2
  Writers = {m1, m2, m3}
  Subjects = {b1, b2}
  HashText <- OwnKey
  LastLedger = 5
  Radix = 2
  SetHash <- SetHashes
  Eventful = {1, 2, 3, 5}
  RetryLimit = 2
  MaxGapRows = 4
  MaxFailures = 3
  MaxCuts = 1
  s1 = s1
  s2 = s2
  s3 = s3
  Services = {s1, s2, s3}
  MaxServices = 3
  Window = 5
  Threshold = 1500
  Configs <- Chain
  Rounds = {x1, x2}
  Reports <- TwoReports
  KeepFor = 1
  Cooldown = 2
  MaxNow = 3
  Effort = 3
SYMMETRY Alike
INVARIANTS TypeOK BackpressureHolds AdmittedAtBestRate RoutingAccounts CertificatesAccounted LogFollowsCommits GapsAccounted RisksAreExact
PROPERTIES OnlyHangUpsRelease RoundsAgree
CHECK_DEADLOCK FALSE
