SPECIFICATION BatchSpec
CONSTANTS
  Series = {s1}
  Segments = 3
  YearOfSegment <- MCYearOfSegment
  LoadedSegments = {1}
  ClampStarts = {1, 3}
  NeededSegments = 2
  MaxObjects = 2
  AllowHoles = TRUE
  Executor = {w1}
  Sealer = {k1}
  MaxSourceRevisions = 2
  MaxPlans = 2
  MaxFeatureFaults = 1
  MaxTries = 2
  Price = {1, 2, 4, 7}
  MaxBars = 6
  Unit = 3
  Window = 2
  Lag = 2
  Period = 3
  FastPeriod = 2
  SlowPeriod = 3
  SignalPeriod = 2
  Sessions = 2
  GateShard = {"A", "B"}
  Flushes = {{"A"}, {"A", "B"}}
  FreshnessBudget = 1
  MaxReadinessAge = 1
  MaxGateRevision = 2
  MaxGateTime = 3
  MaxWatermarks = 1
  MaxVerdicts = 1
  MarketEvent <- MCMarketEvent
  WantedType = "bar"
  Needed <- MCNeeded
  Documents <- MCDocuments
  Delivered <- MCDelivered
  Exporter = {x1, x2}
  MaxExports = 2
  ExportStart = 1
  ExportEnd = 5
  LatestPerPeriod = TRUE
  Catalogs <- MCCatalogs
  Listings <- MCListings
  MaxRuns = 2
  StoreUser = {"u1", "u2", "u3"}
  Payload <- MCPayload
  MaxPutAttempts = 2
  MaxVersions = 3
  MaxOutages = 2
  MaxPuts = 4
  Part = {"p", "q"}
  MaxLocalRevision = 3
  MaxDeaths = 1
  m1 = m1
  m2 = m2
  o1 = o1
  o2 = o2
  ga = ga
  Manifest = {m1, m2}
  StoredObject = {o1, o2}
  Format = {ga, gb}
  NotThere = notThere
  NoParent = noParent
  ForeignRow <- MCForeignRow
  MaxWrites = 2
  DaySlots = 6
  SessionOpen = 1
  SessionClose <- MCSessionClose
  PartitionFrom = 1
  PartitionTo = 3
  BarRow <- MCBarRow
  BinSlots = 3
  MaxPartRows = 2
  MaxBarRows = 4
  Instrument = {n1, n2}
  Venue = {x}
  Ticker = {ta, tb}
  Identity = {d1, d2}
  Fact = {g}
  Absent = absent
  Open = 9
  CalendarSession = {s}
  SessionType = {t}
  MaxInstant = 2
  MaxWriters = 1
  Content = {a, b}
  Unreviewed = Unreviewed
  Approved = Approved
  Suspended = Suspended
  Attested = Unreviewed
  NoSuchRow = NoSuchRow
  MaxRevision = 2
  MaxWorker = 1
  MaxReviews = 1
  MaxDamaged = 1
INVARIANTS
  BatchTypeOK
  SeriesIntact
  ComputedSound
  HandedOverSound
  
PROPERTIES
  ExportIsFresh
CHECK_DEADLOCK FALSE
