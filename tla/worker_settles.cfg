SPECIFICATION FairSpec
CONSTANTS
  Process = {w1}
  Message = {"m1", "m2", "m3"}
  Command = {"c1", "c2"}
  CommandOf <- MCCommandOf
  KindOf <- OneOfEach
  BatchSize = 2
  MaxReceiveCount = 2
  CacheSize = 1
  Faults = {"crash", "heartbeat", "broker", "stop", "prepare"}
  MaxFaults = 1
  MaxDeliveries = 4
INVARIANTS
  TypeOK
PROPERTIES
  LeasesKept
  StopsEventually
  Settled
