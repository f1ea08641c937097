SPECIFICATION Spec
CONSTANTS
  Publisher = {w1, w2}
  LastDay <- MCLastDay
  Partition <- MCPartition
  DaysOf <- MCDaysOf
  Shard = {"A", "B"}
  Content = {"c1", "c2"}
  Broken = "broken"
  Job <- DayJobs
  MaxRevision = 3
  Postgres = TRUE
  Outages = FALSE
  Verdict = {}
INVARIANTS
  OneAvailable
  StorageSound
