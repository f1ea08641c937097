SPECIFICATION Spec
CONSTANTS
  Publisher = {w1}
  LastDay <- MCLastDay
  Partition <- MCPartition
  DaysOf <- MCDaysOf
  Shard = {"A", "B"}
  Content = {"c1", "c2"}
  Broken = "broken"
  Job <- MixedJobs
  MaxRevision = 2
  Postgres = FALSE
  Outages = TRUE
  Verdict = {}
INVARIANTS
  TypeOK
  StorageSound
PROPERTIES
  CarriesForward
  ReleasesStand
