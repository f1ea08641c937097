SPECIFICATION Spec
CONSTANTS
  Instrument = {"A", "B"}
  Day <- MCDay
  YearOf <- MCYearOf
  Chunk = {{1, 2, 3}, {4}}
  Period <- MCPeriod
  Lookback = 2
  Job <- Everything
  Gaps = {{}, {2, 3}}
  Resume = TRUE
  MaxVintage = 1
  MaxRevision = 3
  MaxCommands = 3
  MaxFaults = 1
CHECK_DEADLOCK FALSE
INVARIANTS
  TypeOK
PROPERTIES
  RunComplete
  CompactionPreserves
