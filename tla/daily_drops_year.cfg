SPECIFICATION Spec
CONSTANTS
  Instrument = {"A", "B"}
  Day <- MCDay
  YearOf <- MCYearOf
  Chunk = {{1, 2, 3}, {4}}
  Period <- MCPeriod
  Lookback = 2
  Job <- Corrected
  Gaps = {{}}
  Resume = TRUE
  MaxVintage = 1
  MaxRevision = 4
  MaxCommands = 3
  MaxFaults = 0
CHECK_DEADLOCK FALSE
PROPERTY DailyKeepsOtherDays
