SPECIFICATION FairSpec
CONSTANTS
  Publisher = {w1}
  LastDay <- MCLastDay
  Partition <- MCPartition
  DaysOf <- MCDaysOf
  Shard = {"A", "B"}
  Content = {"c1", "c2"}
  Broken = "broken"
  Job <- SoundJobs
  MaxRevision = 2
  Postgres = FALSE
  Outages = FALSE
  Verdict = {TRUE, FALSE}
INVARIANTS
  AvailableSound
PROPERTIES
  ReleasesSnapshots
  WatermarkCatchesUp
