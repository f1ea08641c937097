SPECIFICATION EntranceSpec
CONSTANTS
  Reader = {r1, r2}
  EntryKind <- MCEntryKind
  MaxReceives = 3
  PollSize = 2
  MaxStreamFaults = 1
  Timeframes <- MCTimeframes
  Listed <- MCListed
  i1 = i1
  i2 = i2
  BatchSize = 2
  Lookback = 2
  LastSession = 5
  MaxFailures = 2
  CommandId = {c1, c2, c3}
  c1 = c1
  c2 = c2
  c3 = c3
  b1 = b1
  b2 = b2
  b3 = b3
  b4 = b4
  BadEvent = BadEvent
  Events <- MCEvents
  Flushes <- MCFlushes
  BarSession <- MCBarSession
  BarYear <- MCBarYear
  RetainedSessions = 2
  Fetcher = {f1, f2}
  RequestsPerMinute = 2
  Burst = 2
  MaxAttempts = 2
  BackoffBase = 1
  BackoffMax = 2
  MaxRetryAfter = 2
  RetryAfter = {3}
  Page = {p1, p2}
  FirstPage = p1
  NoPage = none
  MaxTick = 3
  OutputIntervals <- MCOutputIntervals
  WindowSessions = 4
  RefreshSessions = 2
  ChunkSessions = 2
  StaleSessions = 2
  CacheSessions = 1
  MaxSymbolAttempts = 2
  MaxSession = 5
  MaxExDates = 1
  MaxLegacyFaults = 1
  DayMinutes = 4
  OpenMinute = 1
  CloseMinute = 4
  BarMinutes = 2
  RowValue = {0, 1}
  Zero = 0
  MaxMinute = 7
  MaxCorrections = 1
  MaxLives = 2
  MaxTrouble = 2
INVARIANTS
  EntranceTypeOK
  NoEntryDropped
  EntrancesSound
  CollectedSound
PROPERTIES
  StreamSettles
CHECK_DEADLOCK FALSE
