SPECIFICATION FairSpec
CONSTANTS
  Message = {"m1", "m2", "m3"}
  Event <- MCEvent
  EventsOf <- Mixed
  KindOf <- MCKindOf
  Bar <- MCBar
  BarOf <- MCBarOf
  RevisionOf <- MCRevisionOf
  PositionOf <- MCPositionOf
  Shard = {"A", "B"}
  ShardOf <- MCShardOf
  DayOf <- MCDayOf
  Retention = 2
  BatchSize = 2
  FlushEvery = 2
  MaxReceiveCount = 2
  Faults = {"crash", "stop", "slow", "quarantine"}
  MaxFaults = 2
  MaxDeliveries = 4
INVARIANTS
  TypeOK
  NothingSkipped
PROPERTIES
  WatermarkAfterPublication
  NewerOnly
  Settled
  StopsFlushed
