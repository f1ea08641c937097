CONSTANTS
  i1 = i1
  i2 = i2
  e1 = e1
  e2 = e2
  e3 = e3
  Instrument = {i1, i2}
  Event = {e1, e2, e3}
  InstrumentOf <- MCInstrumentOf
  YearOf <- MCYearOf
  KindOf <- MCKindOf
  Subject <- MCSubject
  Slot <- MCSlot
  InWindow <- MCInWindow
  Worker = {w1}
  Researcher = {r1}
  MaxTerms <- MCMaxTerms
  MaxRaw = 1
  MaxRevision = 3
  MaxSent = 3
  MaxFaults = 1
SPECIFICATION ReviewSpec
INVARIANTS ReviewTypeOK OneApproved
PROPERTIES DecisionsHold SlotRecorded
CHECK_DEADLOCK FALSE
