SPECIFICATION Spec
CONSTANTS
  Process = {w1, w2}
  Message = {"m1", "m2"}
  Command = {"c1", "c2"}
  CommandOf <- MCCommandOf
  KindOf <- Twins
  BatchSize = 2
  MaxReceiveCount = 2
  CacheSize = 2
  Faults = {"crash", "stop", "prepare", "heartbeat", "broker", "stall"}
  MaxFaults = 2
  MaxDeliveries = 5
SYMMETRY AnyProcess
INVARIANTS
  NothingLost
  HonestResults
PROPERTIES
  NotRepeated
